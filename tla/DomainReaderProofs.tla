------------------------- MODULE DomainReaderProofs -------------------------
(***************************************************************************)
(* DomainReader for any domains: any fingerprints and iterators, and any     *)
(* number of stores of any shapes.                                         *)
(***************************************************************************)
EXTENDS DomainReader, Lemmas

IsOpen == phase \in {"idle", "streaming", "released"}

(* Who owns a handle: r.stores, and the store Open has in hand.             *)
HandleInv ==
  /\ phase = "closed" => handles = {} /\ stores = {} /\ pending = 0
  /\ phase = "opening" => /\ handles \subseteq stores \cup {pending}
                          /\ stores \subseteq handles
                          /\ stores \cup todo = storeNames
                          /\ storeNames # {}
                          /\ pending # 0 => pending \in todo \cap handles
  /\ phase \in {"idle", "streaming"} => handles = stores
  /\ phase = "failed" => handles = {}
  /\ phase = "released" => handles = {}
  /\ IsOpen => stores = storeNames /\ stores # {}

(* What Open established about every store it kept.                        *)
AcceptedInv ==
  \A k \in stores : \E i \in 1 .. Len(Specs[domain]) :
    Detects(Specs[domain], disk[k].columns, i)

(* Which stores an iterator has behind it, and why it was admitted.         *)
StreamInv ==
  /\ ~IsOpen => outcome = None
  /\ IsOpen /\ ~enumerated => "cloudkit_stores" \in missing
  /\ phase = "streaming" => /\ stores \subseteq given \cup todo
                            /\ given \cup todo \subseteq stores
                            /\ outcome = None
                            /\ Streams[domain][stream].needs \cap unavailable = {}
  /\ outcome = "complete" => given = stores

Inv == TypeOK /\ HandleInv /\ AcceptedInv /\ StreamInv

LEMMA InitInv == Init => Inv
<1> SUFFICES ASSUME Init PROVE Inv
  OBVIOUS
<1> USE DEF Init
<1>1. DOMAIN disk \subseteq Stores
  BY BackupsAssumption
<1>2. enumerated \in BOOLEAN
  BY HostsAssumption
<1>3. TypeOK
  BY <1>1, <1>2 DEF TypeOK, Phases, None
<1>4. HandleInv
  BY DEF HandleInv, IsOpen
<1>5. AcceptedInv
  BY DEF AcceptedInv
<1>6. StreamInv
  BY DEF StreamInv, IsOpen, None
<1> QED
  BY <1>3, <1>4, <1>5, <1>6 DEF Inv

LEMMA TypeStep == TypeOK /\ [Next]_vars => TypeOK'
<1> SUFFICES ASSUME TypeOK, [Next]_vars PROVE TypeOK'
  OBVIOUS
<1> USE DEF TypeOK, Phases, backup, openVars, streamVars, None
<1>1. CASE Open
  BY <1>1 DEF Open, storeNames
<1>2. CASE OpenFails
  BY <1>2 DEF OpenFails
<1>3. CASE GiveUp
  BY <1>3 DEF GiveUp
<1>4. CASE Opened
  BY <1>4 DEF Opened
<1>5. CASE Close
  BY <1>5 DEF Close
<1>6. CASE EndOfStream
  BY <1>6 DEF EndOfStream
<1>7. ASSUME NEW k \in Stores, OpenStore(k) PROVE TypeOK'
  BY <1>7 DEF OpenStore
<1>8. ASSUME NEW k \in Stores, AcceptStore(k) PROVE TypeOK'
  <2>1. unavailable' \subseteq missing'
    BY <1>8 DEF AcceptStore, Missing
  <2> QED
    BY <1>8, <2>1 DEF AcceptStore
<1>9. ASSUME NEW k \in Stores, SkipQuery(k) PROVE TypeOK'
  BY <1>9 DEF SkipQuery
<1>10. ASSUME NEW k \in Stores, SendQuery(k) PROVE TypeOK'
  BY <1>10 DEF SendQuery
<1>11. ASSUME NEW k \in Stores, QueryFails(k) PROVE TypeOK'
  BY <1>11 DEF QueryFails
<1>12. ASSUME NEW k \in Stores, StoreDone(k) PROVE TypeOK'
  BY <1>12 DEF StoreDone
<1>13. ASSUME NEW k \in Stores, Break(k) PROVE TypeOK'
  BY <1>13 DEF Break
<1>14. ASSUME NEW s \in DOMAIN Streams[domain], Iterate(s) PROVE TypeOK'
  BY <1>14 DEF Iterate
<1>15. ASSUME NEW s \in DOMAIN Streams[domain], Refuse(s) PROVE TypeOK'
  BY <1>15 DEF Refuse
<1>16. CASE UNCHANGED vars
  BY <1>16 DEF vars
<1> QED
  BY <1>1, <1>2, <1>3, <1>4, <1>5, <1>6, <1>7, <1>8, <1>9, <1>10, <1>11, <1>12, <1>13,
     <1>14, <1>15, <1>16 DEF Next

LEMMA HandleStep == TypeOK /\ HandleInv /\ [Next]_vars => HandleInv'
<1> SUFFICES ASSUME TypeOK, HandleInv, [Next]_vars PROVE HandleInv'
  OBVIOUS
<1> USE DEF HandleInv, IsOpen, storeNames, backup, openVars
<1>1. CASE Open
  BY <1>1 DEF Open
<1>2. CASE OpenFails
  BY <1>2 DEF OpenFails
<1>3. CASE GiveUp
  BY <1>3 DEF GiveUp
<1>4. CASE Opened
  <2>1. pending = 0 /\ stores = storeNames
    BY <1>4 DEF Opened
  <2>2. 0 \notin handles
    BY StoresAssumption DEF TypeOK, Stores
  <2> QED
    BY <1>4, <2>1, <2>2 DEF Opened
<1>5. CASE Close
  BY <1>5 DEF Close
<1>6. CASE EndOfStream
  BY <1>6 DEF EndOfStream
<1>7. ASSUME NEW k \in Stores, OpenStore(k) PROVE HandleInv'
  <2>1. 0 \notin handles /\ k # 0
    BY StoresAssumption DEF TypeOK, Stores
  <2> QED
    BY <1>7, <2>1 DEF OpenStore, First
<1>8. ASSUME NEW k \in Stores, AcceptStore(k) PROVE HandleInv'
  <2>1. k \in todo
    BY <1>8 DEF AcceptStore, First
  <2>2. handles \subseteq stores \cup {k} /\ k \in handles
    BY <1>8, StoresAssumption DEF AcceptStore, Stores
  <2> QED
    BY <1>8, <2>1, <2>2 DEF AcceptStore
<1>9. ASSUME NEW k \in Stores, SkipQuery(k) \/ SendQuery(k) \/ QueryFails(k)
                               \/ StoreDone(k) \/ Break(k)
      PROVE  HandleInv'
  BY <1>9 DEF SkipQuery, SendQuery, QueryFails, StoreDone, Break, Sends
<1>10. ASSUME NEW s \in DOMAIN Streams[domain], Iterate(s) \/ Refuse(s) PROVE HandleInv'
  BY <1>10 DEF Iterate, Refuse
<1>11. CASE UNCHANGED vars
  BY <1>11 DEF vars
<1> QED
  BY <1>1, <1>2, <1>3, <1>4, <1>5, <1>6, <1>7, <1>8, <1>9, <1>10, <1>11 DEF Next

LEMMA AcceptedStep == HandleInv /\ AcceptedInv /\ [Next]_vars => AcceptedInv'
<1> SUFFICES ASSUME HandleInv, AcceptedInv, [Next]_vars PROVE AcceptedInv'
  OBVIOUS
<1>1. CASE UNCHANGED <<domain, disk, stores>>
  BY <1>1 DEF AcceptedInv
<1>2. ASSUME NEW k \in Stores, AcceptStore(k) PROVE AcceptedInv'
  BY <1>2 DEF AcceptedInv, AcceptStore, backup
<1>3. Next => UNCHANGED <<domain, disk, stores>> \/ \E k \in Stores : AcceptStore(k)
  BY DEF Next, Open, OpenFails, GiveUp, Opened, Close, EndOfStream, OpenStore, SkipQuery,
         SendQuery, QueryFails, StoreDone, Break, Iterate, Refuse, backup, openVars
<1>4. CASE UNCHANGED vars
  BY <1>1, <1>4 DEF vars, backup, openVars
<1> QED
  BY <1>1, <1>2, <1>3, <1>4

LEMMA StreamStep == TypeOK /\ HandleInv /\ StreamInv /\ [Next]_vars => StreamInv'
<1> SUFFICES ASSUME TypeOK, HandleInv, StreamInv, [Next]_vars PROVE StreamInv'
  OBVIOUS
<1> USE DEF StreamInv, IsOpen, None, backup, openVars, streamVars
<1>1. CASE Open
  BY <1>1 DEF Open
<1>2. CASE OpenFails
  BY <1>2 DEF OpenFails
<1>3. CASE GiveUp
  BY <1>3 DEF GiveUp
<1>4. CASE Opened
  BY <1>4 DEF Opened
<1>5. CASE Close
  BY <1>5 DEF Close
<1>6. CASE EndOfStream
  BY <1>6 DEF EndOfStream
<1>7. ASSUME NEW k \in Stores, OpenStore(k) PROVE StreamInv'
  BY <1>7 DEF OpenStore
<1>8. ASSUME NEW k \in Stores, AcceptStore(k) PROVE StreamInv'
  BY <1>8 DEF AcceptStore
<1>9. ASSUME NEW k \in Stores, SkipQuery(k) \/ SendQuery(k) PROVE StreamInv'
  BY <1>9 DEF SkipQuery, SendQuery, Sends
<1>10. ASSUME NEW k \in Stores, QueryFails(k) \/ Break(k) PROVE StreamInv'
  BY <1>10 DEF QueryFails, Break, Sends
<1>11. ASSUME NEW k \in Stores, StoreDone(k) PROVE StreamInv'
  BY <1>11 DEF StoreDone, First
<1>12. ASSUME NEW s \in DOMAIN Streams[domain], Iterate(s) PROVE StreamInv'
  BY <1>12 DEF Iterate, Refused
<1>13. ASSUME NEW s \in DOMAIN Streams[domain], Refuse(s) PROVE StreamInv'
  BY <1>13 DEF Refuse
<1>14. CASE UNCHANGED vars
  BY <1>14 DEF vars
<1> QED
  BY <1>1, <1>2, <1>3, <1>4, <1>5, <1>6, <1>7, <1>8, <1>9, <1>10, <1>11, <1>12, <1>13,
     <1>14 DEF Next

LEMMA InvStep == Inv /\ [Next]_vars => Inv'
BY TypeStep, HandleStep, AcceptedStep, StreamStep DEF Inv

LEMMA InvHolds == Spec => []Inv
BY InitInv, InvStep, PTL DEF Spec

(* Every variable keeps its type; what is unavailable is always reported.   *)
THEOREM Typing == Spec => []TypeOK
<1>1. Inv => TypeOK
  BY DEF Inv
<1> QED
  BY InvHolds, <1>1, PTL

(* Whichever store makes Open give up, and whenever the domain is closed,   *)
(* no handle stays open.                                                   *)
THEOREM HandlesGivenBack == Spec => []HandlesReleased
<1>1. Inv => HandlesReleased
  BY DEF Inv, HandleInv, IsOpen, HandlesReleased
<1> QED
  BY InvHolds, <1>1, PTL

(* However many stores there are, an iterator that completes has yielded    *)
(* the rows of all, or Missing says that some could not be found.          *)
THEOREM AllStoresRead == Spec => []EveryStoreRead
<1>1. Inv => EveryStoreRead
  <2> SUFFICES ASSUME Inv, outcome = "complete", "cloudkit_stores" \notin missing
               PROVE  given = DOMAIN disk
    BY DEF EveryStoreRead
  <2>1. IsOpen /\ given = stores
    BY DEF Inv, StreamInv, None
  <2>2. enumerated
    BY <2>1 DEF Inv, StreamInv, TypeOK
  <2>3. stores = storeNames
    BY <2>1 DEF Inv, HandleInv
  <2> QED
    BY <2>1, <2>2, <2>3 DEF storeNames
<1> QED
  BY InvHolds, <1>1, PTL

(* A stream that breaks on an absent column.                               *)
LEMMA FailureStep == Inv /\ FailureExplained /\ [Next]_vars => FailureExplained'
<1> SUFFICES ASSUME Inv, FailureExplained, [Next]_vars PROVE FailureExplained'
  OBVIOUS
<1>1. CASE outcome' # "SQLError"
  BY <1>1 DEF FailureExplained
<1>2. CASE UNCHANGED <<domain, disk, stores, unavailable, todo, stream, at, outcome>>
  BY <1>2 DEF FailureExplained, First, Query, Queries
<1>3. ASSUME NEW k \in Stores, QueryFails(k) PROVE FailureExplained'
  <2> USE <1>3 DEF QueryFails, Sends
  <2>1. k \in todo /\ k \in stores
    BY DEF First, Inv, StreamInv
  <2>2. PICK i \in 1 .. Len(Specs[domain]) : Detects(Specs[domain], disk[k].columns, i)
    BY <2>1 DEF Inv, AcceptedInv
  <2>3. Streams[domain][stream].needs \cap unavailable = {}
    BY DEF Inv, StreamInv
  <2>4. \/ ~(UnitsAbsent(Specs[domain][i], disk[k].columns) \subseteq unavailable)
        \/ ~QueryCovered(Specs[domain][i], Streams[domain][stream].needs, Query)
    BY <2>2, <2>3, CoveredWithMore DEF Detects
  <2>5. UNCHANGED <<domain, disk, stores, unavailable, todo, stream, at>>
    BY DEF backup, openVars
  <2> QED
    BY <2>1, <2>2, <2>4, <2>5 DEF FailureExplained, First, Query, Queries
<1>4. outcome = "SQLError" => IsOpen
  BY DEF Inv, StreamInv, None
<1>5. Next => \/ outcome' # "SQLError"
              \/ UNCHANGED <<domain, disk, stores, unavailable, todo, stream, at, outcome>>
              \/ \E k \in Stores : QueryFails(k)
  <2> USE <1>4 DEF IsOpen, backup, openVars, streamVars, None
  <2>1. Open \/ OpenFails \/ GiveUp \/ Opened => outcome' # "SQLError"
    BY DEF Open, OpenFails, GiveUp, Opened
  <2>2. Close => UNCHANGED <<domain, disk, stores, unavailable, todo, stream, at, outcome>>
    BY DEF Close
  <2>3. EndOfStream => outcome' # "SQLError"
    BY DEF EndOfStream
  <2>4. ASSUME NEW k \in Stores
        PROVE  OpenStore(k) \/ AcceptStore(k) \/ SkipQuery(k) \/ SendQuery(k) \/ StoreDone(k)
                 \/ Break(k) => outcome' # "SQLError"
    BY DEF OpenStore, AcceptStore, SkipQuery, SendQuery, StoreDone, Break, Sends, Inv, StreamInv
  <2>5. ASSUME NEW s \in DOMAIN Streams[domain]
        PROVE  Iterate(s) \/ Refuse(s) => outcome' # "SQLError"
    BY DEF Iterate, Refuse
  <2> QED
    BY <2>1, <2>2, <2>3, <2>4, <2>5 DEF Next
<1>6. CASE UNCHANGED vars
  BY <1>2, <1>6 DEF vars, backup, openVars, streamVars
<1> QED
  BY <1>1, <1>2, <1>3, <1>5, <1>6

(* A stream breaks only on a column its SELECT names without listing, or    *)
(* in a store that lacks a unit the first one has.                         *)
THEOREM FailuresAreExplained == Spec => []FailureExplained
<1>1. Init => FailureExplained
  BY DEF Init, FailureExplained, None
<1> QED
  BY InvHolds, <1>1, FailureStep, PTL DEF Spec

(***************************************************************************)
(* NoAbsentColumn, from facts about the lists of columns alone              *)
(***************************************************************************)

(* The query at hand is one of the iterator's.                             *)
QueryInv ==
  /\ phase = "streaming" => stream \in DOMAIN Streams[domain] /\ at \in Nat \ {0}
  /\ outcome = "SQLError" => stream \in DOMAIN Streams[domain] /\ at \in 1 .. Len(Queries)

(* What Open keeps of the only store is the capability of that store.       *)
OneStoreInv ==
  /\ disk \in Backups[domain]
  /\ OneStore(domain) =>
       \A k \in stores : \A i \in 1 .. Len(Specs[domain]) :
         Detects(Specs[domain], disk[k].columns, i) =>
           UnitsAbsent(Specs[domain][i], disk[k].columns) \subseteq unavailable

LEMMA QueryStep == Inv /\ QueryInv /\ [Next]_vars => QueryInv'
<1> SUFFICES ASSUME Inv, QueryInv, [Next]_vars PROVE QueryInv'
  OBVIOUS
<1> USE DEF QueryInv, Queries, backup, openVars, streamVars, None
<1>1. CASE UNCHANGED <<domain, phase, stream, at, outcome>>
  BY <1>1
<1>2. outcome = "SQLError" => IsOpen
  BY DEF Inv, StreamInv
<1>3. ASSUME Open \/ OpenFails \/ GiveUp \/ Opened \/ Close \/ EndOfStream PROVE QueryInv'
  BY <1>2, <1>3 DEF Open, OpenFails, GiveUp, Opened, Close, EndOfStream, IsOpen
<1>4. ASSUME NEW k \in Stores, OpenStore(k) \/ AcceptStore(k) PROVE QueryInv'
  BY <1>2, <1>4 DEF OpenStore, AcceptStore, IsOpen
<1>5. ASSUME NEW k \in Stores, SkipQuery(k) \/ SendQuery(k) PROVE QueryInv'
  <2>1. at' \in Nat \ {0}
    BY <1>5 DEF SkipQuery, SendQuery, Sends
  <2>2. outcome' # "SQLError"
    BY <1>5 DEF SkipQuery, SendQuery, Sends, Inv, StreamInv
  <2> QED
    BY <1>5, <2>1, <2>2 DEF SkipQuery, SendQuery, Sends
<1>6. ASSUME NEW k \in Stores, QueryFails(k) PROVE QueryInv'
  <2>1. stream \in DOMAIN Streams[domain] /\ at \in Nat \ {0} /\ at <= Len(Queries)
    BY <1>6 DEF QueryFails, Sends
  <2>2. Len(Queries) \in Nat
    BY <2>1, StreamsAssumption DEF Inv, TypeOK
  <2>3. at \in 1 .. Len(Queries)
    BY <2>1, <2>2
  <2> QED
    BY <1>6, <2>1, <2>3 DEF QueryFails
<1>7. ASSUME NEW k \in Stores, StoreDone(k) \/ Break(k) PROVE QueryInv'
  BY <1>7 DEF StoreDone, Break, Inv, StreamInv
<1>8. ASSUME NEW s \in DOMAIN Streams[domain], Iterate(s) \/ Refuse(s) PROVE QueryInv'
  BY <1>8 DEF Iterate, Refuse
<1>9. CASE UNCHANGED vars
  BY <1>1, <1>9 DEF vars
<1> QED
  BY <1>3, <1>4, <1>5, <1>6, <1>7, <1>8, <1>9 DEF Next

(* The first fingerprint a database matches is one.                        *)
LEMMA DetectsOne ==
  ASSUME NEW spec, NEW dbase, NEW i \in Nat, NEW j \in Nat, i >= 1, j >= 1,
         Detects(spec, dbase, i), Detects(spec, dbase, j)
  PROVE  i = j
<1>1. CASE i < j
  BY <1>1 DEF Detects
<1>2. CASE j < i
  BY <1>2 DEF Detects
<1> QED
  BY <1>1, <1>2

LEMMA OneStoreStep == Inv /\ OneStoreInv /\ [Next]_vars => OneStoreInv'
<1> SUFFICES ASSUME Inv, OneStoreInv, [Next]_vars PROVE OneStoreInv'
  OBVIOUS
<1> USE DEF backup, openVars
<1>1. UNCHANGED <<domain, disk>>
  BY DEF Next, vars, Open, OpenFails, GiveUp, Opened, Close, EndOfStream, OpenStore, AcceptStore,
         SkipQuery, SendQuery, QueryFails, StoreDone, Break, Iterate, Refuse
<1>2. CASE stores' = stores /\ unavailable \subseteq unavailable'
  BY <1>1, <1>2 DEF OneStoreInv, OneStore
<1>3. ASSUME NEW k \in Stores, AcceptStore(k), OneStore(domain) PROVE OneStoreInv'
  <2> DEFINE Missed(n, units) ==
        \A i \in 1 .. Len(Specs[domain]) :
          Detects(Specs[domain], disk[n].columns, i) =>
            UnitsAbsent(Specs[domain][i], disk[n].columns) \subseteq units
  <2>1. stores' = stores \cup {k} /\ k \in todo /\ phase = "opening"
    BY <1>3 DEF AcceptStore, First
  <2>2. stores' \subseteq DOMAIN disk
    BY <2>1 DEF Inv, HandleInv, storeNames
  <2>3. \A n \in stores' : n = k
    BY <2>1, <2>2, <1>3 DEF OneStore, OneStoreInv
  <2>4. CASE stores = {}
    <3>1. PICK i \in 1 .. Len(Specs[domain]) :
            /\ Detects(Specs[domain], disk[k].columns, i)
            /\ unavailable' = UnitsAbsent(Specs[domain][i], disk[k].columns)
      BY <1>3, <2>4 DEF AcceptStore
    <3>2. \A j \in 1 .. Len(Specs[domain]) :
            Detects(Specs[domain], disk[k].columns, j) => j = i
      BY <3>1, DetectsOne
    <3>3. Missed(k, unavailable')
      BY <3>1, <3>2
    <3> QED
      BY <1>1, <2>3, <3>3 DEF OneStoreInv
  <2>5. CASE stores # {}
    <3>1. k \in stores /\ unavailable' = unavailable
      BY <1>3, <2>1, <2>3, <2>5 DEF AcceptStore
    <3>2. Missed(k, unavailable')
      BY <1>3, <3>1 DEF OneStoreInv
    <3> QED
      BY <1>1, <2>3, <3>2 DEF OneStoreInv
  <2> QED
    BY <2>4, <2>5
<1>4. Next => \/ stores' = stores /\ unavailable \subseteq unavailable'
              \/ \E k \in Stores : AcceptStore(k)
  BY DEF Next, Open, OpenFails, GiveUp, Opened, Close, EndOfStream, OpenStore,
         SkipQuery, SendQuery, QueryFails, StoreDone, Break, Iterate, Refuse
<1>5. CASE ~OneStore(domain)
  BY <1>1, <1>5 DEF OneStoreInv, OneStore
<1>6. CASE UNCHANGED vars
  BY <1>2, <1>6 DEF vars
<1> QED
  BY <1>2, <1>3, <1>4, <1>5, <1>6

(* A stream of a domain with one store and covered lists does not fail.     *)
LEMMA CoveredNeverFails ==
  ASSUME FailureExplained, QueryInv, OneStoreInv, TypeOK, OneStore(domain), Covered(domain)
  PROVE  outcome # "SQLError"
<1> SUFFICES ASSUME outcome = "SQLError" PROVE FALSE
  OBVIOUS
<1>1. PICK k \in stores, i \in 1 .. Len(Specs[domain]) :
        /\ Detects(Specs[domain], disk[k].columns, i)
        /\ \/ ~(UnitsAbsent(Specs[domain][i], disk[k].columns) \subseteq unavailable)
           \/ ~QueryCovered(Specs[domain][i], Streams[domain][stream].needs, Query)
  BY DEF FailureExplained
<1>2. UnitsAbsent(Specs[domain][i], disk[k].columns) \subseteq unavailable
  BY <1>1 DEF OneStoreInv
<1>3. stream \in DOMAIN Streams[domain] /\ at \in 1 .. Len(Queries)
  BY DEF QueryInv
<1>4. QueryCovered(Specs[domain][i], Streams[domain][stream].needs, Query)
  BY <1>3 DEF Covered, Query, Queries
<1> QED
  BY <1>1, <1>2, <1>4

(* Where the lists of columns agree and the domain has one store, no         *)
(* iterator ever fails on an absent column, whatever the fingerprints, the  *)
(* iterators and the shape of the database.                                *)
THEOREM AvailableUnitsSuffice ==
  ASSUME \A d \in Domains \ Excepted : Covered(d) /\ OneStore(d)
  PROVE  Spec => []NoAbsentColumn
<1>1. Init => QueryInv
  BY DEF Init, QueryInv, None
<1>2. Init => OneStoreInv
  BY DEF Init, OneStoreInv
<1>3. TypeOK /\ FailureExplained /\ QueryInv /\ OneStoreInv => NoAbsentColumn
  BY CoveredNeverFails DEF NoAbsentColumn, TypeOK
<1>4. Inv => TypeOK
  BY DEF Inv
<1> QED
  BY InvHolds, FailuresAreExplained, <1>1, <1>2, <1>3, <1>4, QueryStep, OneStoreStep, PTL DEF Spec

(***************************************************************************)
(* HonestStores: what a completed iterator has read                        *)
(***************************************************************************)

AllAccounted(k) == \A i \in 1 .. Len(Queries) : Accounted(k, Queries[i])

(* The stores behind the iterator are accounted for, and so are the queries *)
(* it has passed of the one at hand.                                       *)
HonestInv ==
  /\ DOMAIN selected = Stores
  /\ phase = "streaming" =>
       /\ \A k \in given : AllAccounted(k)
       /\ \A k \in todo : First(k) =>
            \A i \in 1 .. Len(Queries) : i < at => Accounted(k, Queries[i])
  /\ outcome = "complete" => \A k \in given : AllAccounted(k)

(* What a store has been asked for stays asked for.                        *)
LEMMA AccountedKept ==
  ASSUME UNCHANGED <<disk, missing>>, NEW k, selected[k] \subseteq selected'[k],
         NEW q, Accounted(k, q)
  PROVE  Accounted(k, q)'
BY DEF Accounted, Told, Has

LEMMA HonestStep == Inv /\ QueryInv /\ HonestInv /\ [Next]_vars => HonestInv'
<1> SUFFICES ASSUME Inv, QueryInv, HonestInv, [Next]_vars PROVE HonestInv'
  OBVIOUS
<1> USE DEF backup, openVars, streamVars
<1>0. ~IsOpen => outcome = None
  BY DEF Inv, StreamInv
<1>1. ASSUME phase' # "streaming", outcome' # "complete", selected' = selected
      PROVE  HonestInv'
  BY <1>1 DEF HonestInv
<1>2. ASSUME UNCHANGED <<domain, disk, missing, stream, selected, given, outcome>>,
             phase' # "streaming"
      PROVE  HonestInv'
  BY <1>2 DEF HonestInv, AllAccounted, Accounted, Told, Has, Queries
<1>3. ASSUME Open \/ OpenFails \/ GiveUp \/ Opened PROVE HonestInv'
  BY <1>0, <1>1, <1>3 DEF Open, OpenFails, GiveUp, Opened, IsOpen, None
<1>4. CASE Close
  BY <1>2, <1>4 DEF Close
<1>5. CASE EndOfStream
  <2>1. \A k \in given : AllAccounted(k)
    BY <1>5 DEF EndOfStream, HonestInv
  <2>2. UNCHANGED <<domain, disk, missing, stream, selected, given>>
    BY <1>5 DEF EndOfStream
  <2>3. \A k \in given : AllAccounted(k)'
    BY <2>1, <2>2 DEF AllAccounted, Accounted, Told, Has, Queries
  <2> QED
    BY <1>5, <2>2, <2>3 DEF EndOfStream, HonestInv
<1>6. ASSUME NEW k \in Stores, OpenStore(k) \/ AcceptStore(k) PROVE HonestInv'
  BY <1>0, <1>1, <1>6 DEF OpenStore, AcceptStore, IsOpen, None
<1>7. ASSUME NEW k \in Stores, SkipQuery(k) \/ SendQuery(k) PROVE HonestInv'
  <2>1. /\ phase = "streaming" /\ First(k) /\ k \in todo
        /\ at \in Nat \ {0} /\ at' = at + 1 /\ outcome' = outcome
        /\ UNCHANGED <<phase, domain, disk, missing, stream, given, todo>>
    BY <1>7 DEF SkipQuery, SendQuery, Sends, First, QueryInv
  <2>2. DOMAIN selected' = Stores /\ \A j \in Stores : selected[j] \subseteq selected'[j]
    BY <1>7 DEF SkipQuery, SendQuery, HonestInv
  <2>3. PICK q : q = Query
    OBVIOUS
  <2>4. unavailable \subseteq missing
    BY DEF Inv, TypeOK
  <2>5. Accounted(k, q)'
    <3>1. CASE SkipQuery(k)
      <4>1. Told(q.needs) \/ ~Has(k, q.entities) \/ q.perRow
        BY <2>3, <2>4, <3>1 DEF SkipQuery, Told
      <4> QED
        BY <2>1, <4>1 DEF Accounted, Told, Has
    <3>2. CASE SendQuery(k)
      <4>1. Names(q, unavailable) \subseteq selected'[k]
        BY <2>3, <3>2 DEF SendQuery, HonestInv
      <4> QED
        BY <2>1, <2>4, <4>1 DEF Names, Accounted, Told
    <3> QED
      BY <1>7, <3>1, <3>2
  <2>6. ASSUME NEW j \in Stores, NEW i \in 1 .. Len(Queries), Accounted(j, Queries[i])
        PROVE  Accounted(j, Queries[i])'
    <3>1. PICK p : p = Queries[i]
      OBVIOUS
    <3>2. Accounted(j, p)'
      BY <2>1, <2>2, <2>6, <3>1, AccountedKept
    <3>3. Queries' = Queries
      BY <2>1 DEF Queries
    <3> QED
      BY <3>1, <3>2, <3>3
  <2>7. Queries' = Queries
    BY <2>1 DEF Queries
  <2>8. \A j \in given' : AllAccounted(j)'
    BY <2>1, <2>6, <2>7 DEF HonestInv, AllAccounted, Inv, TypeOK
  <2>9. ASSUME NEW j \in todo', First(j)', NEW i \in 1 .. Len(Queries'), i < at'
        PROVE  Accounted(j, Queries[i])'
    <3>1. j = k
      <4>1. j \in Stores /\ j <= k /\ k <= j
        BY <2>1, <2>9 DEF First, Inv, TypeOK
      <4> QED
        BY <4>1 DEF Stores
    <3>2. CASE i < at
      BY <2>1, <2>6, <2>7, <3>1, <3>2 DEF HonestInv
    <3>3. CASE i = at
      <4>1. Queries'[i] = q
        BY <2>3, <2>7, <3>3 DEF Query
      <4> QED
        BY <2>5, <3>1, <4>1
    <3> QED
      BY <2>1, <2>9, <3>2, <3>3
  <2>10. outcome' # "complete"
    BY <2>1 DEF Inv, StreamInv, None
  <2> QED
    BY <2>1, <2>2, <2>8, <2>9, <2>10 DEF HonestInv
<1>8. ASSUME NEW k \in Stores, QueryFails(k) \/ Break(k) PROVE HonestInv'
  BY <1>1, <1>8 DEF QueryFails, Break
<1>9. ASSUME NEW k \in Stores, StoreDone(k) PROVE HonestInv'
  <2>1. /\ phase = "streaming" /\ First(k) /\ k \in todo /\ at > Len(Queries)
        /\ at' = 1 /\ given' = given \cup {k} /\ outcome' = outcome
        /\ UNCHANGED <<phase, domain, disk, missing, stream, selected>>
    BY <1>9 DEF StoreDone, First
  <2>2. Queries' = Queries /\ \A j, q : Accounted(j, q)' <=> Accounted(j, q)
    BY <2>1 DEF Queries, Accounted, Told, Has
  <2>3. AllAccounted(k)
    <3>1. stream \in DOMAIN Streams[domain] /\ at \in Nat
      BY <2>1 DEF QueryInv
    <3>2. Len(Queries) \in Nat
      BY <3>1, StreamsAssumption DEF Inv, TypeOK, Queries
    <3>3. \A i \in 1 .. Len(Queries) : i < at
      BY <2>1, <3>1, <3>2
    <3> QED
      BY <2>1, <3>3 DEF HonestInv, AllAccounted
  <2>4. \A j \in given' : AllAccounted(j)'
    BY <2>1, <2>2, <2>3 DEF HonestInv, AllAccounted
  <2>5. \A i \in 1 .. Len(Queries') : ~(i < at')
    BY <2>1
  <2>6. outcome' # "complete"
    BY <2>1 DEF Inv, StreamInv, None
  <2> QED
    BY <2>1, <2>4, <2>5, <2>6 DEF HonestInv
<1>10. ASSUME NEW s \in DOMAIN Streams[domain], Iterate(s) \/ Refuse(s) PROVE HonestInv'
  BY <1>10 DEF Iterate, Refuse, HonestInv, None
<1>11. CASE UNCHANGED vars
  BY <1>11 DEF vars, HonestInv, AllAccounted, Accounted, Told, Has, Queries, First
<1> QED
  BY <1>3, <1>4, <1>5, <1>6, <1>7, <1>8, <1>9, <1>10, <1>11 DEF Next

(* Whatever its queries, the units the database lacks and the entities its   *)
(* stores have, an iterator that completes has named every column it knows  *)
(* of in every store, but for those of units that Missing reports.         *)
THEOREM StreamsAreHonest == Spec => []HonestStores
<1>1. Init => QueryInv /\ HonestInv
  BY DEF Init, QueryInv, HonestInv, None
<1>2. Inv /\ HonestInv => HonestStores
  BY DEF Inv, StreamInv, HonestInv, HonestStores, AllAccounted
<1> QED
  BY InvHolds, <1>1, <1>2, QueryStep, HonestStep, PTL DEF Spec

(***************************************************************************)
(* ExtraColumnHarmless: what one more column changes                       *)
(***************************************************************************)

Least(k) == \A j \in stores : k <= j

(* The stores are accepted in their order, and the first one's capability   *)
(* stands for all.                                                         *)
CapabilityInv ==
  /\ phase = "opening" => \A j \in stores, k \in todo : j < k
  /\ \A k \in stores : Least(k) =>
       \A i \in 1 .. Len(Specs[domain]) :
         Detects(Specs[domain], disk[k].columns, i) =>
           Missing(Specs[domain][i], disk[k].columns) \subseteq missing

LEMMA CapabilityStep == Inv /\ CapabilityInv /\ [Next]_vars => CapabilityInv'
<1> SUFFICES ASSUME Inv, CapabilityInv, [Next]_vars PROVE CapabilityInv'
  OBVIOUS
<1> USE DEF backup, openVars
<1>1. UNCHANGED <<domain, disk>>
  BY DEF Next, vars, Open, OpenFails, GiveUp, Opened, Close, EndOfStream, OpenStore, AcceptStore,
         SkipQuery, SendQuery, QueryFails, StoreDone, Break, Iterate, Refuse
<1>2. ASSUME stores' = stores, missing \subseteq missing', phase' # "opening" \/ stores = {}
                                  \/ (phase = "opening" /\ todo' = todo)
      PROVE  CapabilityInv'
  BY <1>1, <1>2 DEF CapabilityInv, Least
<1>3. ASSUME NEW k \in Stores, AcceptStore(k) PROVE CapabilityInv'
  <2>1. /\ phase = "opening" /\ phase' = "opening" /\ k \in todo /\ todo' = todo \ {k}
        /\ stores' = stores \cup {k} /\ \A j \in todo : k <= j
    BY <1>3 DEF AcceptStore, First
  <2>2. todo \subseteq Nat /\ stores \subseteq Nat
    BY DEF Inv, TypeOK, Stores
  <2>3. \A j \in stores : j < k
    BY <2>1 DEF CapabilityInv
  <2>4. \A j \in stores', n \in todo' : j < n
    <3>1. ASSUME NEW n \in todo \ {k} PROVE k < n
      BY <2>1, <2>2
    <3> QED
      BY <2>1, <2>3, <3>1 DEF CapabilityInv
  <2>5. CASE stores = {}
    <3>1. PICK i \in 1 .. Len(Specs[domain]) :
            /\ Detects(Specs[domain], disk[k].columns, i)
            /\ missing' = Missing(Specs[domain][i], disk[k].columns)
      BY <1>3, <2>5 DEF AcceptStore
    <3>2. \A j \in 1 .. Len(Specs[domain]) :
            Detects(Specs[domain], disk[k].columns, j) => j = i
      BY <3>1, DetectsOne
    <3>3. stores' = {k}
      BY <2>1, <2>5
    <3> QED
      BY <1>1, <2>4, <3>1, <3>2, <3>3 DEF CapabilityInv
  <2>6. CASE stores # {}
    <3>1. missing' = missing
      BY <1>3, <2>6 DEF AcceptStore
    <3>2. ASSUME NEW j \in stores', Least(j)' PROVE j \in stores /\ Least(j)
      <4>1. PICK n \in stores : TRUE
        BY <2>6
      <4>2. j <= n /\ n < k
        BY <2>1, <2>3, <3>2 DEF Least
      <4>3. j # k
        BY <2>1, <2>2, <4>2
      <4> QED
        BY <2>1, <3>2, <4>3 DEF Least
    <3> QED
      BY <1>1, <2>4, <3>1, <3>2 DEF CapabilityInv
  <2> QED
    BY <2>5, <2>6
<1>4. CASE Open
  BY <1>2, <1>4 DEF Open, Inv, HandleInv
<1>5. CASE OpenFails \/ GiveUp \/ Opened \/ Close \/ EndOfStream
  BY <1>2, <1>5 DEF OpenFails, GiveUp, Opened, Close, EndOfStream
<1>6. ASSUME NEW k \in Stores,
             \/ OpenStore(k) \/ SkipQuery(k) \/ SendQuery(k) \/ QueryFails(k)
             \/ StoreDone(k) \/ Break(k)
      PROVE  CapabilityInv'
  BY <1>2, <1>6 DEF OpenStore, SkipQuery, SendQuery, QueryFails, StoreDone, Break, Sends
<1>7. ASSUME NEW s \in DOMAIN Streams[domain], Iterate(s) \/ Refuse(s) PROVE CapabilityInv'
  BY <1>2, <1>7 DEF Iterate, Refuse
<1>8. CASE UNCHANGED vars
  BY <1>1, <1>8 DEF vars, CapabilityInv, Least
<1> QED
  BY <1>3, <1>4, <1>5, <1>6, <1>7, <1>8 DEF Next

(* One more column, whichever.                                             *)
LEMMA ColumnAdded ==
  ASSUME Inv, CapabilityInv, NEW k \in stores, Least(k), NEW c
  PROVE  LET more == disk[k].columns \cup {c} IN
         \E i \in 1 .. Len(Specs[domain]) :
           /\ Detects(Specs[domain], more, i)
           /\ IF Detects(Specs[domain], disk[k].columns, i)
              THEN Missing(Specs[domain][i], more) \subseteq missing
              ELSE ~\E j \in 1 .. i : Detects(Specs[domain], disk[k].columns, j)
<1> DEFINE spec == Specs[domain]
           less == disk[k].columns
           more == disk[k].columns \cup {c}
<1>0. PICK n \in 1 .. Len(spec) : Detects(spec, less, n)
  BY DEF Inv, AcceptedInv
<1>1. /\ Matches(spec[n], less) => Matches(spec[n], more)
      /\ \A fp : Missing(fp, more) \subseteq Missing(fp, less)
  BY ProvidesMore
<1>2. Matches(spec[n], more)
  BY <1>0, <1>1 DEF Detects
<1>3. PICK i \in 1 .. Len(spec) : i <= n /\ Detects(spec, more, i)
  <2> HIDE DEF spec, more
  <2> QED
    BY <1>2, FirstMatch
<1>4. CASE Detects(spec, less, i)
  <2>1. Missing(spec[i], less) \subseteq missing
    BY <1>4 DEF CapabilityInv
  <2> QED
    BY <1>1, <1>3, <1>4, <2>1
<1>5. CASE ~Detects(spec, less, i)
  <2>1. ASSUME NEW j \in 1 .. i, Detects(spec, less, j) PROVE FALSE
    <3>1. j = n
      <4> HIDE DEF spec, less
      <4> QED
        BY <1>0, <2>1, DetectsOne
    <3>2. i = n
      BY <1>3, <3>1
    <3> QED
      BY <1>0, <1>5, <3>2
  <2> QED
    BY <1>3, <1>5, <2>1
<1> QED
  BY <1>4, <1>5

(* For any fingerprints and any first store, a column more is never harmful: *)
(* it is detected at least as early, and under the same fingerprint nothing  *)
(* else goes missing.                                                      *)
THEOREM ColumnsNeverDisqualify == Spec => []ExtraColumnHarmless
<1>1. Init => CapabilityInv
  BY DEF Init, CapabilityInv
<1>2. Inv /\ CapabilityInv => ExtraColumnHarmless
  BY ColumnAdded DEF ExtraColumnHarmless, Least
<1> QED
  BY InvHolds, <1>1, <1>2, CapabilityStep, PTL DEF Spec
=============================================================================
