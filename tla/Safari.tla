------------------------------- MODULE Safari -------------------------------
(***************************************************************************)
(* safari: a domain over two databases.  Bookmarks.db decides whether Open  *)
(* succeeds; History.db is optional and costs the history unit alone.       *)
(* Bookmarks and ReadingList share the rows of one table.                   *)
(***************************************************************************)
EXTENDS SelectLists

CONSTANTS
  BookmarksFiles,   (* the columns Bookmarks.db may have                   *)
  HistoryFiles,     (* the columns History.db may have                     *)
  NoFile            (* there is no History.db                              *)

VARIABLES
  files,        (* the two databases of the backup                         *)
  phase,        (* "closed", "bookmarks", "history", "detect", "idle",      *)
                (* "failed", "released"                                    *)
  handles,      (* databases with an open *sql.DB                          *)
  history,      (* r.history # nil                                         *)
  unavailable,  (* r.unavailable                                           *)
  missing,      (* r.capability.Missing                                    *)
  stream,       (* the last iterator ranged over                           *)
  selected,     (* columns its query named                                 *)
  outcome,      (* how it ended                                            *)
  given         (* the kinds of rows each iterator has yielded, once it has *)

readerVars == <<handles, history, unavailable, missing>>
streamVars == <<stream, selected, outcome, given>>
vars == <<files, phase, readerVars, streamVars>>

None == "none"
NotRanged == {"none"}

bookmarksSpec == <<[
  required |-> Of("bookmarks", {"id", "parent", "type", "title", "url"}),
  optional |-> [
    special      |-> Of("bookmarks", {"special_id"}),
    order        |-> Of("bookmarks", {"order_index"}),
    hidden       |-> Of("bookmarks", {"hidden"}),
    num_children |-> Of("bookmarks", {"num_children"}),
    modified     |-> Of("bookmarks", {"last_modified"}),
    uuid         |-> Of("bookmarks", {"external_uuid"}),
    deleted      |-> Of("bookmarks", {"deleted"}),
    reading_list |-> Of("bookmarks", {"read"})],
  alwaysMissing |-> {}]>>

historySpec == <<[
  required |-> Of("history_visits", {"id", "history_item", "visit_time", "title",
                                     "redirect_source", "redirect_destination", "origin"})
                 \cup Of("history_items", {"id", "url", "visit_count"}),
  optional |-> <<>>,
  alwaysMissing |-> {}]>>

(* Without the discriminator no row is turned away.                        *)
Bookmarks == Anchor(Of("bookmarks", {"id", "parent", "type", "title", "url"}),
  [special      |-> Of("bookmarks", {"special_id"}),
   order        |-> Of("bookmarks", {"order_index"}),
   hidden       |-> Of("bookmarks", {"hidden"}),
   num_children |-> Of("bookmarks", {"num_children"}),
   modified     |-> Of("bookmarks", {"last_modified"}),
   uuid         |-> Of("bookmarks", {"external_uuid"}),
   deleted      |-> Of("bookmarks", {"deleted"}),
   reading_list |-> Of("bookmarks", {"read"})])

ReadingList ==
  [Anchor(Of("bookmarks", {"id", "parent", "title", "url", "read"}),
          [modified |-> Of("bookmarks", {"last_modified"})]) EXCEPT !.needs = {"reading_list"}]

History == Preload({"history"},
  Of("history_visits", {"id", "visit_time", "title", "redirect_source", "redirect_destination",
                        "origin", "history_item"})
    \cup Of("history_items", {"url", "visit_count", "id"}))

Iterators == [Bookmarks |-> Bookmarks, ReadingList |-> ReadingList, History |-> History]

FileOf(s) == IF s = "History" THEN "history" ELSE "bookmarks"

(* Mutant of Rows: Bookmarks never tells the reading list apart.            *)
RowsUnfiltered(s) ==
  CASE s = "Bookmarks"   -> {"bookmark", "reading item"}
    [] s = "ReadingList" -> {"reading item"}
    [] s = "History"     -> {"visit"}

(* WHERE read IS NULL, or IS NOT NULL, or no such clause.                   *)
Rows(s) ==
  CASE s = "Bookmarks"   -> {"bookmark"} \cup (IF "reading_list" \in unavailable
                                               THEN {"reading item"} ELSE {})
    [] s = "ReadingList" -> {"reading item"}
    [] s = "History"     -> {"visit"}

(***************************************************************************)
(* Open                                                                    *)
(***************************************************************************)
Init ==
  /\ files \in [bookmarks : BookmarksFiles, history : HistoryFiles \cup {NoFile}]
  /\ phase = "closed" /\ handles = {} /\ history = FALSE
  /\ unavailable = {} /\ missing = {}
  /\ stream = None /\ selected = {} /\ outcome = None
  /\ given = [s \in DOMAIN Iterators |-> NotRanged]

OpenBookmarks ==
  /\ phase = "closed"
  /\ phase' = "bookmarks" /\ handles' = {"bookmarks"}
  /\ UNCHANGED <<files, history, unavailable, missing, streamVars>>

DetectBookmarks ==
  /\ phase = "bookmarks"
  /\ \E i \in 1 .. Len(bookmarksSpec) :
       /\ Detects(bookmarksSpec, files.bookmarks, i)
       /\ unavailable' = UnitsAbsent(bookmarksSpec[i], files.bookmarks)
       /\ missing' = Missing(bookmarksSpec[i], files.bookmarks)
  /\ phase' = "history"
  /\ UNCHANGED <<files, handles, history, streamVars>>

(* Bookmarks.db is absent, cannot be read or is not supported.              *)
OpenFails ==
  /\ phase \in {"closed", "bookmarks"}
  /\ phase' = "failed" /\ handles' = {}
  /\ UNCHANGED <<files, history, unavailable, missing, streamVars>>

OpenHistory ==
  /\ phase = "history" /\ files.history # NoFile
  /\ phase' = "detect" /\ handles' = handles \cup {"history"}
  /\ UNCHANGED <<files, history, unavailable, missing, streamVars>>

DetectHistory ==
  /\ phase = "detect"
  /\ Supported(historySpec, files.history)
  /\ phase' = "idle" /\ history' = TRUE
  /\ UNCHANGED <<files, handles, unavailable, missing, streamVars>>

(* Mutant of LoseHistory: the rejected database is not closed.              *)
LoseHistoryOpen ==
  /\ phase \in {"history", "detect"}
  /\ phase' = "idle"
  /\ unavailable' = unavailable \cup {"history"}
  /\ missing' = missing \cup {"history"}
  /\ UNCHANGED <<files, handles, history, streamVars>>

(* Whatever goes wrong with History.db, the unit alone goes missing.        *)
LoseHistory ==
  /\ phase \in {"history", "detect"}
  /\ phase' = "idle" /\ handles' = handles \ {"history"}
  /\ unavailable' = unavailable \cup {"history"}
  /\ missing' = missing \cup {"history"}
  /\ UNCHANGED <<files, history, streamVars>>

Close ==
  /\ phase = "idle"
  /\ phase' = "released"
  /\ handles' = handles \ ({"bookmarks"} \cup (IF history THEN {"history"} ELSE {}))
  /\ UNCHANGED <<files, history, unavailable, missing, streamVars>>

(***************************************************************************)
(* The iterators, each of one query                                        *)
(***************************************************************************)
Refused(s) ==
  CASE s = "Bookmarks"   -> FALSE
    [] s = "ReadingList" -> "reading_list" \in unavailable
    [] s = "History"     -> ~history

Refuse(s) ==
  /\ phase = "idle" /\ Refused(s)
  /\ stream' = s /\ selected' = {} /\ outcome' = "ErrUnavailable"
  /\ given' = [given EXCEPT ![s] = {}]
  /\ UNCHANGED <<files, phase, readerVars>>

(* Mutant of Wanted: the unit of the reading list is not looked at.         *)
WantedAlways(s) == Names(Iterators[s], unavailable \ {"reading_list"})

Wanted(s) == Names(Iterators[s], unavailable)

(* The rows, or a stream-scoped error if the query names an absent column.  *)
RangeOver(s) ==
  LET works == Unmet(Wanted(s), files[FileOf(s)]) = {} IN
  /\ phase = "idle" /\ ~Refused(s)
  /\ stream' = s /\ selected' = Wanted(s)
  /\ outcome' = IF works THEN "complete" ELSE "SQLError"
  /\ given' = [given EXCEPT ![s] = IF works THEN Rows(s) ELSE {}]
  /\ UNCHANGED <<files, phase, readerVars>>

Next ==
  \/ OpenBookmarks \/ DetectBookmarks \/ OpenFails
  \/ OpenHistory \/ DetectHistory \/ LoseHistory \/ Close
  \/ \E s \in DOMAIN Iterators : Refuse(s) \/ RangeOver(s)

Spec == Init /\ [][Next]_vars

(***************************************************************************)
(* Properties                                                              *)
(***************************************************************************)

(* The handles, r.history and the capability agree: an open reader holds    *)
(* History.db exactly when it does not report it missing, a failed Open or  *)
(* a Close leaves no handle behind.                                        *)
HistoryAccounted ==
  /\ phase = "idle" => /\ history = ("history" \in handles)
                       /\ history = ("history" \notin missing)
  /\ phase \in {"failed", "released"} => handles = {}

(* Every row of the bookmarks table is yielded by Bookmarks or ReadingList  *)
(* and by one of them only, whether or not the two kinds can be told apart. *)
EveryBookmarkOnce ==
  (\A s \in {"Bookmarks", "ReadingList"} : given[s] # NotRanged) =>
    /\ given["Bookmarks"] \cup given["ReadingList"] = {"bookmark", "reading item"}
    /\ given["Bookmarks"] \cap given["ReadingList"] = {}

(* No iterator of an open reader fails for want of a column; one that       *)
(* completes has read all but the columns of units Missing names; and only  *)
(* for those is it refused.                                                *)
HonestReader ==
  /\ outcome # "SQLError"
  /\ outcome = "complete" =>
       LET q == Iterators[stream] IN
       /\ q.columns \subseteq selected
       /\ \A u \in DOMAIN q.gated : u \in missing \/ q.gated[u] \subseteq selected
  /\ outcome = "ErrUnavailable" => Iterators[stream].needs \cap missing # {}
=============================================================================
