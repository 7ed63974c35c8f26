-------------------------- MODULE RowStreamProofs --------------------------
(***************************************************************************)
(* Proofs about RowStream, for any set of iterators, any rows and any       *)
(* number of reference tables.                                             *)
(***************************************************************************)
EXTENDS RowStream, TLAPS

(* An iterator that is not running holds no connection, one that preloads   *)
(* holds one only for a table it has still to read, one that enriches is   *)
(* at a row.                                                               *)
PlaceOK(i) ==
  /\ pc[i] = "outside" => held[i] = 0
  /\ pc[i] = "preload" /\ held[i] # 0 => loaded[i] < Preloads
  /\ pc[i] = "enrich" => row[i] \in 1 .. Len(Rows)

(* A range begun on a closed domain never gets a connection: it cannot      *)
(* leave its preloads but by an error.                                     *)
Refused(i) ==
  /\ ~open
  /\ given[i] = <<>>
  /\ ending[i] \in {"none", "error"}
  /\ pc[i] \in {"outside", "preload"} /\ held[i] = 0

StreamInv ==
  /\ TypeOK
  /\ \A i \in Iterators : PlaceOK(i)
  /\ ~open => idle = 0
  /\ \A i \in late : Refused(i)

-----------------------------------------------------------------------------
USE PreloadsAssumption DEF MaxIdle

LEMMA RowsType == /\ Len(Rows) \in Nat
                  /\ \A k \in 1 .. Len(Rows) :
                       Rows[k] \in SUBSET {"corrupt", "dangling", "children"}
BY RowsAssumption

(* What the pool keeps fits in it, and a closed pool keeps nothing.        *)
LEMMA KeptBound ==
  ASSUME NEW n \in Nat, idle \in 0 .. MaxIdle
  PROVE  Kept(n) \in 0 .. MaxIdle /\ (~open => Kept(n) = 0)
BY DEF Kept

LEMMA ConnectBound ==
  ASSUME idle \in 0 .. MaxIdle, CanConnect, Connect
  PROVE  idle' \in 0 .. MaxIdle /\ open
BY DEF Connect, CanConnect

LEMMA InitStream == Init => StreamInv
BY RowsType DEF Init, StreamInv, TypeOK, PlaceOK, Refused

(* An iterator that returns leaves nothing behind.                         *)
LEMMA LeaveStream ==
  ASSUME StreamInv, NEW i \in Iterators, NEW how \in {"complete", "stopped", "error"},
         Leave(i, how),
         i \in late => how = "error",
         UNCHANGED <<copy, open, loaded, row, given, ghosts>>
  PROVE  StreamInv'
<1>1. Kept(held[i]) \in 0 .. MaxIdle /\ (~open => Kept(held[i]) = 0)
  <2>1. held \in [Iterators -> 0 .. 2] /\ idle \in 0 .. MaxIdle
    BY DEF StreamInv, TypeOK
  <2>2. held[i] \in 0 .. 2
    BY <2>1
  <2> QED
    BY <2>1, <2>2, KeptBound
<1>2. TypeOK'
  BY <1>1 DEF StreamInv, TypeOK, Leave, Goto, ghosts
<1>3. \A j \in Iterators : PlaceOK(j)'
  BY DEF StreamInv, TypeOK, Leave, Goto, PlaceOK
<1>4. ~open' => idle' = 0
  BY <1>1 DEF Leave
<1>5. \A j \in late' : Refused(j)'
  BY DEF StreamInv, TypeOK, Leave, Goto, Refused, ghosts
<1> QED
  BY <1>2, <1>3, <1>4, <1>5 DEF StreamInv

(* Each step keeps StreamInv.                                              *)
LEMMA StreamStep == StreamInv /\ [Next]_vars => StreamInv'
<1> SUFFICES ASSUME StreamInv, [Next]_vars
             PROVE  StreamInv'
  OBVIOUS
<1> USE DEF StreamInv, TypeOK, Goto, ghosts
<1>1. ASSUME NEW i \in Iterators, Range(i)
      PROVE  StreamInv'
  <2>1. TypeOK'
    BY <1>1, RowsType DEF Range, poolVars
  <2>2. \A j \in Iterators : PlaceOK(j)'
    BY <1>1 DEF Range, PlaceOK, poolVars
  <2>3. \A j \in late' : Refused(j)'
    BY <1>1 DEF Range, PlaceOK, Refused, poolVars
  <2> QED
    BY <1>1, <2>1, <2>2, <2>3 DEF Range, poolVars
<1>2. ASSUME NEW i \in Iterators, Preload(i)
      PROVE  StreamInv'
  <2>1. idle' \in 0 .. MaxIdle /\ open
    BY <1>2, ConnectBound DEF Preload
  <2>2. TypeOK'
    BY <1>2, <2>1 DEF Preload
  <2>3. \A j \in Iterators : PlaceOK(j)'
    BY <1>2 DEF Preload, PlaceOK
  <2> QED
    BY <1>2, <2>1, <2>2, <2>3 DEF Preload, Refused
<1>3. ASSUME NEW i \in Iterators, Preloaded(i)
      PROVE  StreamInv'
  <2>1. Kept(1) \in 0 .. MaxIdle /\ (~open => Kept(1) = 0)
    BY KeptBound
  <2>2. TypeOK'
    <3>1. loaded[i] \in 0 .. Preloads /\ held' = [held EXCEPT ![i] = 0]
      BY <1>3 DEF Preloaded
    <3>2. loaded[i] + 1 \in 0 .. Preloads
      <4>1. PlaceOK(i) /\ pc[i] = "preload" /\ held[i] = 1
        BY <1>3 DEF Preloaded
      <4>2. loaded[i] < Preloads
        BY <4>1 DEF PlaceOK
      <4> QED
        BY <3>1, <4>2
    <3>3. loaded' \in [Iterators -> 0 .. Preloads] /\ held' \in [Iterators -> 0 .. 2]
      BY <1>3, <3>1, <3>2 DEF Preloaded
    <3>4. idle' \in 0 .. MaxIdle
      BY <1>3, <2>1 DEF Preloaded
    <3> QED
      BY <1>3, <3>3, <3>4 DEF Preloaded
  <2>3. \A j \in Iterators : PlaceOK(j)'
    BY <1>3 DEF Preloaded, PlaceOK
  <2>4. \A j \in late' : Refused(j)'
    BY <1>3 DEF Preloaded, Refused
  <2> QED
    BY <1>3, <2>1, <2>2, <2>3, <2>4 DEF Preloaded
<1>4. ASSUME NEW i \in Iterators, Query(i)
      PROVE  StreamInv'
  <2>1. idle' \in 0 .. MaxIdle /\ open
    BY <1>4, ConnectBound DEF Query
  <2>2. TypeOK'
    BY <1>4, <2>1 DEF Query
  <2>3. \A j \in Iterators : PlaceOK(j)'
    BY <1>4 DEF Query, PlaceOK
  <2> QED
    BY <1>4, <2>1, <2>2, <2>3 DEF Query, Refused
<1>5. ASSUME NEW i \in Iterators, NextRow(i)
      PROVE  StreamInv'
  <2>1. row[i] + 1 \in 1 .. Len(Rows) /\ row'[i] = row[i] + 1
    BY <1>5, RowsType DEF NextRow
  <2>2. TypeOK'
    <3>1. given' \in [Iterators -> Seq({"record", "RowError"})]
      <4>1. given[i] \in Seq({"record", "RowError"})
        OBVIOUS
      <4>2. Append(given[i], "RowError") \in Seq({"record", "RowError"})
        BY <4>1
      <4>3. given' = [given EXCEPT ![i] = Append(given[i], "RowError")] \/ given' = given
        BY <1>5 DEF NextRow
      <4> QED
        BY <4>2, <4>3
    <3>2. row' \in [Iterators -> 0 .. Len(Rows)]
      BY <1>5, <2>1 DEF NextRow
    <3>3. pc' \in [Iterators -> {"outside", "preload", "next", "enrich", "yield"}]
      <4>1. pc' = [pc EXCEPT ![i] = "yield"] \/ pc' = [pc EXCEPT ![i] = "enrich"]
        BY <1>5 DEF NextRow
      <4> QED
        BY <4>1
    <3> QED
      BY <1>5, <3>1, <3>2, <3>3 DEF NextRow, poolVars
  <2>3. \A j \in Iterators : PlaceOK(j)'
    BY <1>5, <2>1 DEF NextRow, PlaceOK
  <2>4. \A j \in late' : Refused(j)'
    BY <1>5 DEF NextRow, Refused, poolVars
  <2> QED
    BY <1>5, <2>2, <2>3, <2>4 DEF NextRow, poolVars
<1>6. ASSUME NEW i \in Iterators, OpenChildren(i)
      PROVE  StreamInv'
  <2>1. idle' \in 0 .. MaxIdle /\ open
    BY <1>6, ConnectBound DEF OpenChildren
  <2>2. TypeOK'
    BY <1>6, <2>1 DEF OpenChildren
  <2>3. \A j \in Iterators : PlaceOK(j)'
    BY <1>6 DEF OpenChildren, PlaceOK
  <2> QED
    BY <1>6, <2>1, <2>2, <2>3 DEF OpenChildren, Refused
<1>7. ASSUME NEW i \in Iterators, Resolve(i)
      PROVE  StreamInv'
  <2>1. Kept(1) \in 0 .. MaxIdle /\ (~open => Kept(1) = 0)
    BY KeptBound
  <2>2. TypeOK'
    <3>1. given' \in [Iterators -> Seq({"record", "RowError"})]
      BY <1>7 DEF Resolve
    <3> QED
      BY <1>7, <2>1, <3>1 DEF Resolve
  <2>3. \A j \in Iterators : PlaceOK(j)'
    BY <1>7 DEF Resolve, PlaceOK
  <2>4. \A j \in late' : Refused(j)'
    BY <1>7 DEF Resolve, Refused
  <2> QED
    BY <1>7, <2>1, <2>2, <2>3, <2>4 DEF Resolve
<1>8. ASSUME NEW i \in Iterators, Continue(i)
      PROVE  StreamInv'
  BY <1>8 DEF Continue, PlaceOK, Refused, poolVars
<1>9. ASSUME NEW i \in Iterators, Break(i)
      PROVE  StreamInv'
  BY <1>9, LeaveStream DEF Break, Refused
<1>10. ASSUME NEW i \in Iterators, EndOfRows(i)
       PROVE  StreamInv'
  BY <1>10, LeaveStream DEF EndOfRows, Refused
<1>11. ASSUME NEW i \in Iterators, NoConnection(i) \/ ReadError(i)
       PROVE  StreamInv'
  BY <1>11, LeaveStream DEF NoConnection, ReadError
<1>12. CASE CloseDomain
  <2>1. open' \in BOOLEAN /\ idle' \in 0 .. MaxIdle
    <3>1. open' = FALSE /\ idle' = 0
      BY <1>12 DEF CloseDomain
    <3>2. 0 \in 0 .. MaxIdle
      OBVIOUS
    <3> QED
      BY <3>1, <3>2, Zenon
  <2>2. UNCHANGED <<copy, pc, loaded, row, held, given, ending, ghosts>>
    BY <1>12 DEF CloseDomain
  <2>3. TypeOK'
    BY <2>1, <2>2
  <2>4. \A j \in Iterators : PlaceOK(j)'
    BY <2>2 DEF PlaceOK
  <2> QED
    BY <1>12, <2>2, <2>3, <2>4 DEF CloseDomain, Refused
<1>13. CASE CloseFS
  BY <1>13 DEF CloseFS, PlaceOK, Refused, poolVars
<1>14. CASE UNCHANGED vars
  BY <1>14 DEF vars, PlaceOK, Refused, poolVars
<1> QED
  BY <1>1, <1>2, <1>3, <1>4, <1>5, <1>6, <1>7, <1>8, <1>9, <1>10, <1>11, <1>12, <1>13, <1>14
     DEF Next, Step

LEMMA StreamInvariant == Spec => []StreamInv
BY InitStream, StreamStep, PTL DEF Spec

-----------------------------------------------------------------------------
(* The variables keep their types: in particular the pool never keeps more *)
(* idle connections than its limit and an iterator never holds more than    *)
(* two.                                                                    *)
THEOREM Typing == Spec => []TypeOK
<1>1. StreamInv => TypeOK
  BY DEF StreamInv
<1> QED
  BY StreamInvariant, <1>1, PTL

(* However an iterator ends, it gives its connections back, and a closed    *)
(* domain keeps none.                                                      *)
THEOREM ConnectionsReturned == Spec => []NoConnectionLeaks
<1>1. StreamInv => NoConnectionLeaks
  BY DEF StreamInv, NoConnectionLeaks, PlaceOK
<1> QED
  BY StreamInvariant, <1>1, PTL

(* A range over a closed domain gives nothing but one stream-scoped error,  *)
(* for any iterator, any rows and any interleaving with other iterators.    *)
THEOREM ClosedDomainRefuses == Spec => []ClosedDomainFails
<1>1. StreamInv => ClosedDomainFails
  BY DEF StreamInv, ClosedDomainFails, Refused
<1> QED
  BY StreamInvariant, <1>1, PTL

-----------------------------------------------------------------------------
(* RowStream implements StreamContract.                                    *)

(* The rows an iterator has passed are accounted for one by one, but for    *)
(* the one it is enriching, which could be scanned.                        *)
Accounted(i) ==
  /\ pc[i] = "preload" => row[i] = 0 /\ Len(given[i]) = 0
  /\ pc[i] \in {"next", "yield"} => Len(given[i]) = row[i]
  /\ pc[i] = "enrich" => Len(given[i]) + 1 = row[i] /\ "corrupt" \notin Rows[row[i]]

AccountInv == \A i \in Iterators : Accounted(i)

LEMMA InitAccount == Init => AccountInv
BY DEF Init, AccountInv, Accounted

LEMMA AccountStep == StreamInv /\ AccountInv /\ [Next]_vars => AccountInv'
<1> SUFFICES ASSUME StreamInv, AccountInv, [Next]_vars, NEW j \in Iterators
             PROVE  Accounted(j)'
  BY DEF AccountInv
<1>. Accounted(j)
  BY DEF AccountInv
<1>. /\ pc \in [Iterators -> {"outside", "preload", "next", "enrich", "yield"}]
     /\ row \in [Iterators -> 0 .. Len(Rows)]
     /\ given \in [Iterators -> Seq({"record", "RowError"})]
     /\ Len(Rows) \in Nat
  BY RowsType DEF StreamInv, TypeOK
<1> USE DEF Accounted, Goto
<1>1. ASSUME NEW i \in Iterators, Range(i)
      PROVE  Accounted(j)'
  BY <1>1 DEF Range
<1>2. ASSUME NEW i \in Iterators, Preload(i) \/ Preloaded(i) \/ OpenChildren(i)
      PROVE  Accounted(j)'
  BY <1>2 DEF Preload, Preloaded, OpenChildren
<1>3. ASSUME NEW i \in Iterators, Query(i)
      PROVE  Accounted(j)'
  BY <1>3 DEF Query
<1>4. ASSUME NEW i \in Iterators, NextRow(i)
      PROVE  Accounted(j)'
  BY <1>4 DEF NextRow
<1>5. ASSUME NEW i \in Iterators, Resolve(i)
      PROVE  Accounted(j)'
  BY <1>5 DEF Resolve
<1>6. ASSUME NEW i \in Iterators, Continue(i)
      PROVE  Accounted(j)'
  BY <1>6 DEF Continue
<1>7. ASSUME NEW i \in Iterators,
             Break(i) \/ EndOfRows(i) \/ NoConnection(i) \/ ReadError(i)
      PROVE  Accounted(j)'
  BY <1>7 DEF Break, EndOfRows, NoConnection, ReadError, Leave
<1>8. CASE CloseDomain \/ CloseFS \/ UNCHANGED vars
  BY <1>8 DEF CloseDomain, CloseFS, vars
<1> QED
  BY <1>1, <1>2, <1>3, <1>4, <1>5, <1>6, <1>7, <1>8 DEF Next, Step

LEMMA AccountInvariant == Spec => [](StreamInv /\ AccountInv)
BY InitStream, StreamStep, InitAccount, AccountStep, PTL DEF Spec

LEMMA InitContract == Init => Contract!Init
BY DEF Init, Contract!Init, Running

(* An iterator that returns ends its range.                                *)
LEMMA LeaveEnds ==
  ASSUME StreamInv, NEW i \in Iterators, NEW how \in {"complete", "stopped", "error"},
         pc[i] # "outside", Leave(i, how), UNCHANGED given,
         how = "complete" => Len(given[i]) = Len(Rows)
  PROVE  Contract!End(i)
<1>1. pc \in [Iterators -> {"outside", "preload", "next", "enrich", "yield"}]
  BY DEF StreamInv, TypeOK
<1>2. i \in Running /\ Running' = Running \ {i}
  BY <1>1 DEF Running, Leave, Goto
<1>3. Len(Verdicts) = Len(Rows)
  BY RowsType DEF Verdicts
<1> QED
  BY <1>2, <1>3 DEF Contract!End, Leave

(* A row's verdict goes to the consumer.                                   *)
LEMMA GivesVerdict ==
  ASSUME StreamInv, NEW i \in Iterators, pc[i] # "outside", Running' = Running,
         ending' = ending, Len(given[i]) + 1 \in 1 .. Len(Rows),
         given' = [given EXCEPT ![i] = Append(given[i], Verdicts[Len(given[i]) + 1])]
  PROVE  Contract!Give(i)
<1>1. Len(Verdicts) = Len(Rows) /\ Len(Rows) \in Nat
  BY RowsType DEF Verdicts
<1>2. given[i] \in Seq({"record", "RowError"})
  BY DEF StreamInv, TypeOK
<1> QED
  BY <1>1, <1>2 DEF Contract!Give, Running

LEMMA ContractStep ==
  StreamInv /\ AccountInv /\ [Next]_vars => [Contract!Next]_(Contract!vars)
<1> SUFFICES ASSUME StreamInv, AccountInv, [Next]_vars
             PROVE  Contract!Next \/ UNCHANGED Contract!vars
  OBVIOUS
<1>. /\ pc \in [Iterators -> {"outside", "preload", "next", "enrich", "yield"}]
     /\ row \in [Iterators -> 0 .. Len(Rows)]
     /\ given \in [Iterators -> Seq({"record", "RowError"})]
     /\ Len(Rows) \in Nat
  BY RowsType DEF StreamInv, TypeOK
<1>0. ASSUME UNCHANGED <<given, ending>>, Running' = Running
      PROVE  UNCHANGED Contract!vars
  BY <1>0 DEF Contract!vars
<1>1. ASSUME NEW i \in Iterators, Range(i)
      PROVE  Contract!Next
  <2>1. i \notin Running /\ Running' = Running \cup {i}
    BY <1>1 DEF Range, Running, Goto
  <2>2. Contract!Range(i)
    BY <1>1, <2>1 DEF Range, Contract!Range
  <2> QED
    BY <2>2 DEF Contract!Next
<1>2. ASSUME NEW i \in Iterators, Preload(i) \/ Preloaded(i) \/ Query(i) \/ OpenChildren(i) \/ Continue(i)
      PROVE  UNCHANGED Contract!vars
  <2>1. UNCHANGED <<given, ending>> /\ Running' = Running
    BY <1>2 DEF Preload, Preloaded, Query, OpenChildren, Continue, Running, Goto
  <2> QED
    BY <2>1, <1>0
<1>3. ASSUME NEW i \in Iterators, NextRow(i)
      PROVE  Contract!Next \/ UNCHANGED Contract!vars
  <2>1. Running' = Running /\ ending' = ending
    BY <1>3 DEF NextRow, Running, Goto
  <2>2. Len(given[i]) = row[i] /\ row[i] + 1 \in 1 .. Len(Rows)
    BY <1>3 DEF AccountInv, Accounted, NextRow
  <2>3. row'[i] = row[i] + 1
    BY <1>3 DEF NextRow
  <2>4. CASE "corrupt" \in Rows[row'[i]]
    <3>1. Verdicts[Len(given[i]) + 1] = "RowError"
      BY <2>2, <2>3, <2>4 DEF Verdicts
    <3>2. given' = [given EXCEPT ![i] = Append(given[i], "RowError")]
      BY <1>3, <2>4 DEF NextRow
    <3>3. Contract!Give(i)
      BY <1>3, <2>1, <2>2, <3>1, <3>2, GivesVerdict DEF NextRow
    <3> QED
      BY <3>3 DEF Contract!Next
  <2>5. CASE "corrupt" \notin Rows[row'[i]]
    <3>1. given' = given
      BY <1>3, <2>5 DEF NextRow
    <3> QED
      BY <1>0, <2>1, <3>1
  <2> QED
    BY <2>4, <2>5
<1>4. ASSUME NEW i \in Iterators, Resolve(i)
      PROVE  Contract!Next
  <2>1. Running' = Running /\ ending' = ending
    BY <1>4 DEF Resolve, Running, Goto
  <2>2. Len(given[i]) + 1 = row[i] /\ "corrupt" \notin Rows[row[i]]
    BY <1>4 DEF AccountInv, Accounted, Resolve
  <2>3. row[i] \in 1 .. Len(Rows)
    BY <1>4 DEF StreamInv, PlaceOK, Resolve
  <2>4. Verdicts[Len(given[i]) + 1]
          = IF "dangling" \in Rows[row[i]] THEN "RowError" ELSE "record"
    BY <2>2, <2>3 DEF Verdicts
  <2>5. Contract!Give(i)
    BY <1>4, <2>1, <2>2, <2>3, <2>4, GivesVerdict DEF Resolve
  <2> QED
    BY <2>5 DEF Contract!Next
<1>5. ASSUME NEW i \in Iterators, NEW how \in {"complete", "stopped", "error"},
             pc[i] # "outside", Leave(i, how), UNCHANGED given,
             how = "complete" => Len(given[i]) = Len(Rows)
      PROVE  Contract!Next
  BY <1>5, LeaveEnds DEF Contract!Next
<1>6. ASSUME NEW i \in Iterators, Break(i)
      PROVE  Contract!Next
  BY <1>5, <1>6 DEF Break
<1>7. ASSUME NEW i \in Iterators, EndOfRows(i)
      PROVE  Contract!Next
  <2>1. Len(given[i]) = Len(Rows)
    BY <1>7 DEF EndOfRows, AccountInv, Accounted
  <2> QED
    BY <1>5, <1>7, <2>1 DEF EndOfRows
<1>8. ASSUME NEW i \in Iterators, NoConnection(i) \/ ReadError(i)
      PROVE  Contract!Next
  <2>1. pc[i] # "outside" /\ Leave(i, "error") /\ UNCHANGED given
    BY <1>8 DEF NoConnection, NeedsConnection, ReadError
  <2> QED
    BY <1>5, <2>1
<1>9. CASE CloseDomain \/ CloseFS \/ UNCHANGED vars
  <2>1. UNCHANGED <<given, ending>> /\ Running' = Running
    BY <1>9 DEF CloseDomain, CloseFS, vars, Running
  <2> QED
    BY <2>1, <1>0
<1> QED
  BY <1>1, <1>2, <1>3, <1>4, <1>6, <1>7, <1>8, <1>9 DEF Next, Step

(* Whatever the other iterators do, whoever closes the domain or the FS and *)
(* whichever read fails, an iterator gives its consumer the verdict of each *)
(* row once and in order, a range that ends as complete has given them all, *)
(* and nothing follows a stream-scoped error (doc.go, "Streaming and        *)
(* errors").                                                               *)
THEOREM IteratorsKeepContract == Spec => KeepsContract
BY AccountInvariant, InitContract, ContractStep, PTL DEF Spec, KeepsContract, Contract!Spec
=============================================================================
