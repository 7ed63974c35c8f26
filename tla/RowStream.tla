----------------------------- MODULE RowStream -----------------------------
(***************************************************************************)
(* The iterators of a domain at work: messages.Messages, and with it the    *)
(* identically built contacts.People and Groups, calls.Calls and             *)
(* messages.Chats, with the *sql.DB they query and the materialized copy     *)
(* that lies under it.                                                      *)
(*                                                                         *)
(* An iterator preloads its reference tables, opens the anchor query and,    *)
(* while that one is open, asks for each row's children: two connections of  *)
(* the pool.  Domain.Close and FS.Close may come at any moment, from the     *)
(* loop's body or from elsewhere.                                           *)
(***************************************************************************)
EXTENDS Naturals, Sequences

CONSTANTS
  Iterators,    (* iterators of one open domain                            *)
  Rows,         (* Rows[k]: what sets the anchor's k-th row apart.  It      *)
                (* cannot be scanned ("corrupt"), it or a child refers to a *)
                (* row that is not there ("dangling"), it has a child query *)
                (* ("children")                                            *)
  Preloads,     (* number of reference tables                              *)
  MaxRanges     (* bound: times an iterator is ranged over                 *)

ASSUME RowsAssumption ==
  Rows \in Seq(SUBSET {"corrupt", "dangling", "children"})
ASSUME PreloadsAssumption == Preloads \in Nat
ASSUME MaxRangesAssumption == MaxRanges \in Nat

(* database/sql keeps this many idle connections by default.               *)
MaxIdle == 2

VARIABLES
  copy,         (* the materialized copy is still at its path              *)
  open,         (* the domain has not been closed                          *)
  idle,         (* idle connections of the pool                            *)
  pc,           (* where each iterator is                                  *)
  loaded,       (* reference tables it has preloaded                       *)
  row,          (* the row it is at                                        *)
  held,         (* connections it holds                                    *)
  given,        (* what it has yielded for each row so far                 *)
  ending,       (* how its last range ended                                *)
  late,         (* iterators whose last range began after Domain.Close     *)
  stale,        (* iterators whose last range began after FS.Close         *)
  ranges        (* ranges begun                                            *)

poolVars == <<open, idle>>
ghosts == <<late, stale, ranges>>
vars == <<copy, poolVars, pc, loaded, row, held, given, ending, ghosts>>

Init ==
  /\ copy = TRUE
  /\ open = TRUE /\ idle = 1    (* the connection introspection used       *)
  /\ pc = [i \in Iterators |-> "outside"]
  /\ loaded = [i \in Iterators |-> 0]
  /\ row = [i \in Iterators |-> 0]
  /\ held = [i \in Iterators |-> 0]
  /\ given = [i \in Iterators |-> <<>>]
  /\ ending = [i \in Iterators |-> "none"]
  /\ late = {} /\ stale = {}
  /\ ranges = [i \in Iterators |-> 0]

Goto(i, label) == pc' = [pc EXCEPT ![i] = label]

(***************************************************************************)
(* database/sql                                                            *)
(***************************************************************************)

(* A query can get a connection: an idle one, which keeps reading a file    *)
(* that has been unlinked, or a new one, which needs the file.              *)
CanConnect == open /\ (idle > 0 \/ copy)

Connect == idle' = IF idle > 0 THEN idle - 1 ELSE 0

(* n connections go back to the pool, which keeps MaxIdle at most and none  *)
(* once it is closed.                                                      *)
Kept(n) == IF ~open THEN 0 ELSE IF idle + n > MaxIdle THEN MaxIdle ELSE idle + n

(* The iterator function returns: its deferred rows.Close calls give back   *)
(* every connection it holds.                                              *)
Leave(i, how) ==
  /\ Goto(i, "outside")
  /\ ending' = [ending EXCEPT ![i] = how]
  /\ held' = [held EXCEPT ![i] = 0]
  /\ idle' = Kept(held[i])

(***************************************************************************)
(* The iterator                                                            *)
(***************************************************************************)

Range(i) ==
  /\ pc[i] = "outside" /\ ranges[i] < MaxRanges
  /\ ranges' = [ranges EXCEPT ![i] = @ + 1]
  /\ late' = IF open THEN late \ {i} ELSE late \cup {i}
  /\ stale' = IF copy THEN stale \ {i} ELSE stale \cup {i}
  /\ loaded' = [loaded EXCEPT ![i] = 0]
  /\ row' = [row EXCEPT ![i] = 0]
  /\ given' = [given EXCEPT ![i] = <<>>]
  /\ ending' = [ending EXCEPT ![i] = "none"]
  /\ Goto(i, "preload")
  /\ UNCHANGED <<copy, poolVars, held>>

(* loadHandles, loadChatIDs: the query opens, is read to its end and closed. *)
Preload(i) ==
  /\ pc[i] = "preload" /\ loaded[i] < Preloads /\ held[i] = 0
  /\ CanConnect
  /\ Connect
  /\ held' = [held EXCEPT ![i] = 1]
  /\ UNCHANGED <<copy, open, pc, loaded, row, given, ending, ghosts>>

Preloaded(i) ==
  /\ pc[i] = "preload" /\ held[i] = 1
  /\ loaded' = [loaded EXCEPT ![i] = @ + 1]
  /\ held' = [held EXCEPT ![i] = 0]
  /\ idle' = Kept(1)
  /\ UNCHANGED <<copy, open, pc, row, given, ending, ghosts>>

Query(i) ==
  /\ pc[i] = "preload" /\ loaded[i] = Preloads
  /\ CanConnect
  /\ Connect
  /\ held' = [held EXCEPT ![i] = 1]
  /\ Goto(i, "next")
  /\ UNCHANGED <<copy, open, loaded, row, given, ending, ghosts>>

(* Mutant of NextRow: a row that cannot be scanned is passed over.         *)
NextRowSilent(i) ==
  /\ pc[i] = "next" /\ row[i] < Len(Rows)
  /\ row' = [row EXCEPT ![i] = @ + 1]
  /\ Goto(i, IF "corrupt" \in Rows[row'[i]] THEN "next" ELSE "enrich")
  /\ UNCHANGED <<copy, poolVars, loaded, held, given, ending, ghosts>>

(* Scan of the next row: one that cannot be scanned is a RowError.          *)
NextRow(i) ==
  /\ pc[i] = "next" /\ row[i] < Len(Rows)
  /\ row' = [row EXCEPT ![i] = @ + 1]
  /\ IF "corrupt" \in Rows[row'[i]]
     THEN /\ given' = [given EXCEPT ![i] = Append(@, "RowError")]
          /\ Goto(i, "yield")
     ELSE Goto(i, "enrich") /\ UNCHANGED given
  /\ UNCHANGED <<copy, poolVars, loaded, held, ending, ghosts>>

(* Mutant of OpenChildren: a pool of one connection.                       *)
OpenChildrenAlone(i) ==
  /\ pc[i] = "enrich" /\ "children" \in Rows[row[i]] /\ held[i] = 0
  /\ CanConnect
  /\ Connect
  /\ held' = [held EXCEPT ![i] = 2]
  /\ UNCHANGED <<copy, open, pc, loaded, row, given, ending, ghosts>>

(* enrich: a row with children asks for them on a second connection, while *)
(* the anchor query is still open.                                         *)
OpenChildren(i) ==
  /\ pc[i] = "enrich" /\ "children" \in Rows[row[i]] /\ held[i] = 1
  /\ CanConnect
  /\ Connect
  /\ held' = [held EXCEPT ![i] = 2]
  /\ UNCHANGED <<copy, open, pc, loaded, row, given, ending, ghosts>>

(* Mutant of Resolve: a dangling reference gives the zero record, no error. *)
ResolveZero(i) ==
  LET r == Rows[row[i]] IN
  /\ pc[i] = "enrich" /\ ("children" \in r => held[i] = 2)
  /\ held' = [held EXCEPT ![i] = 1]
  /\ idle' = IF held[i] = 2 THEN Kept(1) ELSE idle
  /\ given' = [given EXCEPT ![i] =
                  Append(@, IF "dangling" \in r THEN "zero" ELSE "record")]
  /\ Goto(i, "yield")
  /\ UNCHANGED <<copy, open, loaded, row, ending, ghosts>>

(* The row is resolved: a dangling reference withholds it.                 *)
Resolve(i) ==
  LET r == Rows[row[i]] IN
  /\ pc[i] = "enrich" /\ ("children" \in r => held[i] = 2)
  /\ held' = [held EXCEPT ![i] = 1]
  /\ idle' = IF held[i] = 2 THEN Kept(1) ELSE idle
  /\ given' = [given EXCEPT ![i] =
                  Append(@, IF "dangling" \in r THEN "RowError" ELSE "record")]
  /\ Goto(i, "yield")
  /\ UNCHANGED <<copy, open, loaded, row, ending, ghosts>>

(* The loop's body returns: the consumer goes on.                          *)
Continue(i) ==
  /\ pc[i] = "yield"
  /\ Goto(i, "next")
  /\ UNCHANGED <<copy, poolVars, loaded, row, held, given, ending, ghosts>>

(* Mutant of Break: the rows are not closed when yield returns false.       *)
BreakOpen(i) ==
  /\ pc[i] = "yield"
  /\ Goto(i, "outside")
  /\ ending' = [ending EXCEPT ![i] = "stopped"]
  /\ UNCHANGED <<copy, poolVars, loaded, row, held, given, ghosts>>

(* It breaks out of the loop: yield returns false.                         *)
Break(i) ==
  /\ pc[i] = "yield"
  /\ Leave(i, "stopped")
  /\ UNCHANGED <<copy, open, loaded, row, given, ghosts>>

EndOfRows(i) ==
  /\ pc[i] = "next" /\ row[i] = Len(Rows)
  /\ Leave(i, "complete")
  /\ UNCHANGED <<copy, open, loaded, row, given, ghosts>>

NeedsConnection(i) ==
  \/ pc[i] = "preload" /\ held[i] = 0
  \/ pc[i] = "enrich" /\ "children" \in Rows[row[i]] /\ held[i] = 1

(* Mutant of NoConnection: the failure is wrapped as a RowError.           *)
NoConnectionAsRow(i) ==
  /\ NeedsConnection(i) /\ ~CanConnect
  /\ Leave(i, "complete")
  /\ given' = [given EXCEPT ![i] = Append(@, "RowError")]
  /\ UNCHANGED <<copy, open, loaded, row, ghosts>>

(* A stream-scoped error is yielded and, whatever yield returns, nothing    *)
(* after it: a query finds no connection,                                  *)
NoConnection(i) ==
  /\ NeedsConnection(i) /\ ~CanConnect
  /\ Leave(i, "error")
  /\ UNCHANGED <<copy, open, loaded, row, given, ghosts>>

(* or a query or a step of its rows fails.                                 *)
ReadError(i) ==
  /\ pc[i] \in {"preload", "next"} \/ (pc[i] = "enrich" /\ "children" \in Rows[row[i]])
  /\ Leave(i, "error")
  /\ UNCHANGED <<copy, open, loaded, row, given, ghosts>>

(***************************************************************************)
(* Close                                                                   *)
(***************************************************************************)

(* Domain.Close: the idle connections go, those in use stay valid until     *)
(* they are given back.                                                    *)
CloseDomain ==
  /\ open
  /\ open' = FALSE /\ idle' = 0
  /\ UNCHANGED <<copy, pc, loaded, row, held, given, ending, ghosts>>

(* DirFS.Close unlinks the copy.                                           *)
CloseFS ==
  /\ copy
  /\ copy' = FALSE
  /\ UNCHANGED <<poolVars, pc, loaded, row, held, given, ending, ghosts>>

(***************************************************************************)
(* Specification.  An iterator runs on its consumer's goroutine: it keeps    *)
(* stepping once ranged over, and the body of the loop returns.  No one is   *)
(* obliged to range or to close, and nothing obliges a read to fail.        *)
(***************************************************************************)
Step(i) ==
  \/ Preload(i) \/ Preloaded(i) \/ Query(i) \/ NextRow(i) \/ OpenChildren(i) \/ Resolve(i)
  \/ Continue(i) \/ Break(i) \/ EndOfRows(i) \/ NoConnection(i)

Next == (\E i \in Iterators : Range(i) \/ Step(i) \/ ReadError(i)) \/ CloseDomain \/ CloseFS

Spec == Init /\ [][Next]_vars
FairSpec == Spec /\ \A i \in Iterators : WF_vars(Step(i))

(***************************************************************************)
(* Properties                                                              *)
(***************************************************************************)
TypeOK ==
  /\ copy \in BOOLEAN /\ open \in BOOLEAN
  /\ idle \in 0 .. MaxIdle
  /\ pc \in [Iterators -> {"outside", "preload", "next", "enrich", "yield"}]
  /\ loaded \in [Iterators -> 0 .. Preloads]
  /\ row \in [Iterators -> 0 .. Len(Rows)]
  /\ held \in [Iterators -> 0 .. 2]
  /\ given \in [Iterators -> Seq({"record", "RowError"})]
  /\ ending \in [Iterators -> {"none", "complete", "stopped", "error"}]
  /\ late \subseteq Iterators /\ stale \subseteq Iterators
  /\ ranges \in [Iterators -> Nat]

(* Whatever way a range ends (its last row, a break, an error in the       *)
(* middle of a child query) it leaves no connection behind, and a closed   *)
(* domain keeps none idle: closing it releases the database.               *)
NoConnectionLeaks ==
  /\ \A i \in Iterators : pc[i] = "outside" => held[i] = 0
  /\ ~open => idle = 0

(* A range over a closed domain gives its consumer one stream-scoped error *)
(* and nothing else (TestIterateAfterCloseIsStreamScoped).                 *)
ClosedDomainFails ==
  \A i \in late : given[i] = <<>> /\ ending[i] \in {"none", "error"}

(* The same for a range begun after the FS was closed, as doc.go says.      *)
ClosedFSFails ==
  \A i \in stale : given[i] = <<>> /\ ending[i] \in {"none", "error"}

(* What each row deserves, and who is being ranged over, in the contract's  *)
(* terms.                                                                  *)
Verdicts == [k \in 1 .. Len(Rows) |->
               IF Rows[k] \cap {"corrupt", "dangling"} # {} THEN "RowError" ELSE "record"]
Running == {i \in Iterators : pc[i] # "outside"}

(* Each iterator keeps the contract of doc.go towards its consumer.        *)
Contract == INSTANCE StreamContract WITH running <- Running
KeepsContract == Contract!Spec

(* A range over an iterator ends: at the latest when the rows do.           *)
RangeEnds == \A i \in Iterators : pc[i] # "outside" ~> pc[i] = "outside"
=============================================================================
