----------------------------- MODULE ChatPaging -----------------------------
(***************************************************************************)
(* messages.ChatMessages read in pages: a consumer that takes a page, moves  *)
(* its ChatCursor to the last message it saw and asks for the next one, as   *)
(* TestChatMessagesPagingMatchesOneShot does, until a page has no message.   *)
(*                                                                         *)
(* A row of the conversation is [id, date, defect]: its ROWID, its date      *)
(* (NULL is Null) and whether it yields a RowError.  The database is a       *)
(* private copy and does not change.                                       *)
(***************************************************************************)
EXTENDS Cocoa, Orders, Sequences, SequencesExt

CONSTANTS
  Ids,          (* ROWIDs; two rows of one conversation differ in them      *)
  Dates,        (* stored dates, nanoseconds since 2001, Null among them    *)
                (* or not                                                  *)
  Defects,      (* values of defect                                        *)
  Limits,       (* limits a consumer asks for; 0 is none                   *)
  Null          (* no date                                                 *)

(* The zero time.Time as a cursor: its nanoseconds overflow, and wrap to a  *)
(* date in 1754, before any message.                                       *)
Ancient == ToNanoseconds(ZeroTime)

ASSUME PagingAssumption ==
  /\ Ids \subseteq Nat \ {0} /\ Null \notin Int
  /\ Dates \ {Null} \subseteq Int64 /\ \A d \in Dates \ {Null} : Ancient < d
  /\ Defects \subseteq BOOLEAN /\ Limits \subseteq Nat

VARIABLES
  rows,         (* the conversation                                        *)
  cursor,       (* the ChatCursor, a record [time, id]                      *)
  walked,       (* ids of the messages seen so far                         *)
  done          (* the last page had no message                            *)

pagingVars == <<rows, cursor, walked, done>>

ZeroCursor == [time |-> ZeroTime, id |-> 0]

(* message(): a NULL date leaves Time zero.                                *)
Time(date) == IF date = Null THEN ZeroTime ELSE FromNanoseconds(date)

(* ORDER BY m.date DESC, m.ROWID DESC: SQLite sorts NULL below any date.    *)
Later(date, than) == date # Null /\ (than = Null \/ date > than)

Newer(r, s) == Later(r.date, s.date) \/ (r.date = s.date /\ r.id > s.id)

(* Mutants of Selects: the rows that share the cursor's date are lost; a    *)
(* cursor without a time starts over.                                      *)
SelectsNoTies(before, r) ==
  before = ZeroCursor \/ (r.date # Null /\ r.date < ToNanoseconds(before.time))

SelectsOver(before, r) ==
  \/ before.time = ZeroTime
  \/ LET at == ToNanoseconds(before.time) IN
     /\ r.date # Null
     /\ r.date < at \/ (r.date = at /\ r.id < before.id)

(* The WHERE clause: nothing compares with NULL.                           *)
Selects(before, r) ==
  \/ before = ZeroCursor
  \/ LET at == ToNanoseconds(before.time) IN
     /\ r.date # Null
     /\ r.date < at \/ (r.date = at /\ r.id < before.id)

(* Rows as a SELECT gives them: each after those newer than it.            *)
NewestFirst(S) == {p \in S \X S : Newer(p[1], p[2])}
Rank(r, S) == PlaceIn(r, S, NewestFirst(S))
InOrder(S) == Listed(S, NewestFirst(S))

(* ChatMessages(chat, before, limit): the rows it visits.                  *)
ChatMessages(before, limit) ==
  LET S == {r \in rows : Selects(before, r)}
  IN  {r \in S : limit > 0 => Rank(r, S) < limit}

(* What is left of them for a consumer that passes over RowErrors.          *)
MessagesOf(visited) == InOrder({r \in visited : ~r.defect})

IdsOf(messages) == [k \in 1 .. Len(messages) |-> messages[k].id]

PagingInit ==
  /\ \E I \in {J \in SUBSET Ids : IsFiniteSet(J)} :
     \E date \in [I -> Dates], defect \in [I -> Defects] :
       rows = {[id |-> i, date |-> date[i], defect |-> defect[i]] : i \in I}
  /\ cursor = ZeroCursor
  /\ walked = <<>>
  /\ done = FALSE

(* The consumer reads a page, or breaks out of the loop after k messages.   *)
ReadPage(limit) ==
  LET page == MessagesOf(ChatMessages(cursor, limit)) IN
  /\ ~done
  /\ page # <<>>
  /\ \E k \in 1 .. Len(page) :
       /\ walked' = walked \o IdsOf(SubSeq(page, 1, k))
       /\ cursor' = [time |-> Time(page[k].date), id |-> page[k].id]
  /\ UNCHANGED <<rows, done>>

(* Mutant of LastPage: only a page without rows, messages or not, ends.     *)
LastPageWithoutRows(limit) ==
  /\ ~done
  /\ ChatMessages(cursor, limit) = {}
  /\ done' = TRUE
  /\ UNCHANGED <<rows, cursor, walked>>

LastPage(limit) ==
  /\ ~done
  /\ MessagesOf(ChatMessages(cursor, limit)) = <<>>
  /\ done' = TRUE
  /\ UNCHANGED <<rows, cursor, walked>>

Walk == \E limit \in Limits : ReadPage(limit) \/ LastPage(limit)

PagingNext == Walk

PagingSpec == PagingInit /\ [][PagingNext]_pagingVars
FairPagingSpec == PagingSpec /\ WF_pagingVars(Walk)

(***************************************************************************)
(* Properties                                                              *)
(***************************************************************************)
OneShot == IdsOf(MessagesOf(ChatMessages(ZeroCursor, 0)))

TypeOK ==
  /\ rows \subseteq [id : Ids, date : Dates, defect : Defects]
  /\ cursor \in [time : Times, id : Ids \cup {0}]
  /\ walked \in Seq(Ids)
  /\ done \in BOOLEAN

(* The cursor a consumer makes of the last message it saw is that message's  *)
(* own date, to the nanosecond: the trip through time.Time and two epochs    *)
(* moves no page boundary (ToNanoseconds, "FromNanoseconds' inverse").      *)
CursorExact ==
  walked # <<>> =>
    \E r \in rows : /\ r.id = walked[Len(walked)] /\ cursor.id = r.id
                    /\ ToNanoseconds(cursor.time) = IF r.date = Null THEN Ancient ELSE r.date

(* Walking in pages, of any limits and abandoned anywhere, visits the       *)
(* messages reading the conversation in one go does, in the same order.     *)
WalkMatchesOneShot ==
  /\ IsPrefix(walked, OneShot)
  /\ done => walked = OneShot

(* So it does when every row can be read and has a date.                   *)
CleanWalkMatchesOneShot ==
  (\A r \in rows : ~r.defect /\ r.date # Null) => WalkMatchesOneShot

(* Whatever the rows, no page repeats a message or goes back in time.       *)
NeverBack ==
  \A j, k \in 1 .. Len(walked) : j < k =>
    \E r, s \in rows : r.id = walked[j] /\ s.id = walked[k] /\ Newer(r, s)

(* The walk ends: a cursor always advances.                                *)
WalkEnds == <>done
=============================================================================
