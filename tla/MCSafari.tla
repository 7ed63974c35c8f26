------------------------------ MODULE MCSafari ------------------------------
(***************************************************************************)
(* Safari on a Bookmarks.db less up to two columns, and a History.db less   *)
(* up to one column or table, or none.                                     *)
(***************************************************************************)
EXTENDS Safari

AllBookmarks == Of("bookmarks", {"(other)"}) \cup bookmarksSpec[1].required
  \cup UNION {bookmarksSpec[1].optional[u] : u \in DOMAIN bookmarksSpec[1].optional}

AllHistory == Of("history_visits", {"(other)"}) \cup historySpec[1].required

MCBookmarksFiles == {AllBookmarks \ {c, d} : c, d \in AllBookmarks}

MCHistoryFiles ==
  {AllHistory \ {c} : c \in AllHistory}
    \cup {{c \in AllHistory : c[1] # t} : t \in Tables(AllHistory)}
=============================================================================
