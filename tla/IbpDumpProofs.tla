--------------------------- MODULE IbpDumpProofs ---------------------------
(***************************************************************************)
(* What ibp-dump holds, prints and exits with, whatever its streams, its      *)
(* failures and the signals it gets.                                       *)
(***************************************************************************)
EXTENDS IbpDump, Lemmas

(* What is open at each point of the program.                              *)
OpenAt ==
  /\ resources \subseteq {"fs", "copies", "handle", "cursor"}
  /\ pc = "main" => resources = {}
  /\ pc = "open" => resources = {"fs"}
  /\ pc \in {"capability", "begin", "range"} => {"fs", "copies", "handle"} \subseteq resources
  /\ pc \in {"capability", "begin", "return", "exited"} => "cursor" \notin resources

(* A cursor belongs to an iterator that was not refused.                    *)
CursorInv == "cursor" \in resources => ~Current.refused

IInv == ClosedInsideOut /\ OpenAt /\ CursorInv

USE DEF IInv, ClosedInsideOut, OpenAt, CursorInv, Current

LEMMA Initially == Init => IInv
BY DEF Init

LEMMA Inductive == IInv /\ [Next]_vars => IInv'
<1> SUFFICES ASSUME IInv, [Next]_vars PROVE IInv'
  OBVIOUS
<1>1. CASE Main
  BY <1>1 DEF Main, Return
<1>2. CASE Open
  BY <1>2 DEF Open, Return
<1>3. CASE Capability
  BY <1>3 DEF Capability, Encode, Return
<1>4. CASE Begin
  BY <1>4 DEF Begin, Return
<1>5. CASE Unavailable
  BY <1>5 DEF Unavailable, Encode, Return
<1>6. CASE Item
  <2>1. pc' \in {"range", "return"}  BY <1>6 DEF Item, RowError, Encode, Return
  <2>2. resources' = IF pc' = "return" THEN resources \ {"cursor"} ELSE resources
    BY <1>6 DEF Item, Break
  <2>3. pc = "range" /\ UNCHANGED <<world, stream>>  BY <1>6 DEF Item
  <2> QED  BY <2>1, <2>2, <2>3
<1>7. CASE EndOfItems
  <2>1. pc' \in {"begin", "return"}  BY <1>7 DEF EndOfItems, StreamError, Return
  <2>2. pc = "range" /\ resources' = resources \ {"cursor"}  BY <1>7 DEF EndOfItems, Break
  <2> QED  BY <2>1, <2>2
<1>8. CASE Deferred
  BY <1>8 DEF Deferred
<1>9. CASE Exit
  <2>1. pc = "return" /\ pc' = "exited" /\ UNCHANGED <<world, stream, resources>>
    BY <1>9 DEF Exit
  <2>2. resources \cap {"handle", "fs"} = {}  BY <1>9 DEF Exit
  <2> QED  BY <2>1, <2>2
<1>10. CASE Killed
  BY <1>10 DEF Killed
<1>11. CASE UNCHANGED vars
  BY <1>11 DEF vars
<1> QED
  BY <1>1, <1>2, <1>3, <1>4, <1>5, <1>6, <1>7, <1>8, <1>9, <1>10, <1>11 DEF Next, Work

(* A cursor is open only within its domain, a domain only within the FS, and  *)
(* a dump that exits has closed them: run's deferred calls, in any order of    *)
(* returns and errors, are the reverse of what was opened.                  *)
THEOREM ResourcesClosedInsideOut == Spec => []ClosedInsideOut
<1>1. IInv => ClosedInsideOut  OBVIOUS
<1> QED  BY <1>1, Initially, Inductive, PTL DEF Spec
-----------------------------------------------------------------------------
(* What has been printed at each point of the program.                     *)

(* Where a line comes from, and whether it is a row_error.                  *)
Places == Nat \X Nat \X BOOLEAN

OutLines == [type : LineTypes \cup {"note", "unavailable"}, stream : Nat, row : Nat]

N == Len(world.streams)

(* The lines of the first n iterators.                                     *)
Upto(n) == FlattenSeq([k \in 1 .. n |-> Printable(k)])

CapabilityLine == <<<<0, 0, FALSE>>>>

(* The lines of the first m rows of an iterator.                            *)
Yielded(k, m) == IF world.streams[k].refused THEN <<>> ELSE [r \in 1 .. m |-> Row(k, r)]

(* The lines of the iterator being ranged over that are out.                *)
Seen == IF pc = "range" THEN Yielded(stream, row) ELSE <<>>

(* What exit code 0 says.                                                  *)
Whole ==
  /\ Opened
  /\ \A k \in 1 .. N : ~Ends(k)
  /\ Len(Upto(N)) < world.room

CountersInv ==
  /\ world \in Worlds
  /\ pc \in {"main", "open", "capability", "begin", "range", "return", "exited", "killed"}
  /\ stream \in 1 .. N + 1 /\ row \in Nat
  /\ out \in Seq(OutLines) /\ Len(out) <= world.room

(* Before and while it prints.                                             *)
RunningInv ==
  /\ pc \in {"main", "open", "capability"} => out = <<>> /\ stream = 1 /\ row = 0 /\ exit = None
  /\ pc = "open" => world.root /\ world.tree
  /\ pc = "capability" => Opened
  /\ pc \in {"begin", "range"} =>
       /\ Opened /\ exit = None
       /\ \A j \in 1 .. stream - 1 : ~Ends(j)
       /\ Lines = CapabilityLine \o Upto(stream - 1) \o Seen
  /\ pc = "begin" => row = 0
  /\ pc = "range" => /\ stream \in 1 .. N
                     /\ Current.refused => row = 0
                     /\ row <= Len(Current.rows)
                     /\ \A r \in 1 .. row : Current.rows[r] # "unencodable"

(* When it has decided to return.                                          *)
ReturnedInv ==
  /\ pc \in {"return", "exited"} =>
       /\ Lines = Expected
       /\ exit \in {0, 1, 2} /\ (exit = 0 <=> Whole)
  /\ pc = "killed" => IsPrefix(Lines, Expected) /\ exit \in {None, 0, 1, 2}

PrintInv == CountersInv /\ RunningInv /\ ReturnedInv

LEMMA WorldTypes ==
  ASSUME CountersInv
  PROVE  /\ world.room \in Nat /\ N \in Nat /\ DOMAIN world.streams = 1 .. N
         /\ world.root \in BOOLEAN /\ world.tree \in BOOLEAN /\ world.opens \in BOOLEAN
         /\ \A k \in 1 .. N :
              /\ world.streams[k].refused \in BOOLEAN /\ world.streams[k].fails \in BOOLEAN
              /\ world.streams[k].rows \in Seq({"record", "unencodable", "RowError"})
              /\ Len(world.streams[k].rows) \in Nat
              /\ DOMAIN world.streams[k].rows = 1 .. Len(world.streams[k].rows)
<1> DEFINE Streams == [refused : BOOLEAN, fails : BOOLEAN,
                       rows : Seq({"record", "unencodable", "RowError"})]
<1>1. /\ world.root \in BOOLEAN /\ world.tree \in BOOLEAN /\ world.opens \in BOOLEAN
      /\ world.room \in Nat /\ world.streams \in Seq(Streams)
  BY DumpAssumption DEF CountersInv
<1>2. N \in Nat /\ DOMAIN world.streams = 1 .. N
  BY <1>1 DEF N
<1>3. \A k \in 1 .. N : world.streams[k] \in Streams
  <2> HIDE DEF Streams
  <2> QED
    BY <1>1, ElementOfSeq DEF N
<1>4. ASSUME NEW k \in 1 .. N
      PROVE  /\ world.streams[k].refused \in BOOLEAN /\ world.streams[k].fails \in BOOLEAN
             /\ world.streams[k].rows \in Seq({"record", "unencodable", "RowError"})
  BY <1>3
<1> HIDE DEF Streams
<1> QED
  BY <1>1, <1>2, <1>4, LenProperties

(* The dumps, as far as the proofs know them: a case for ErrUnavailable      *)
(* wherever an iterator yields it, and every line has a type.                *)
LEMMA DumpTypes ==
  ASSUME NEW d \in DOMAIN Dumps
  PROVE  /\ Len(Dumps[d]) \in Nat
         /\ \A k \in 1 .. Len(Dumps[d]) :
              /\ Dumps[d][k].record \in LineTypes /\ Dumps[d][k].record # "row_error"
              /\ Dumps[d][k].record \in MayRefuse => Dumps[d][k].unavailable # None
              /\ Dumps[d][k].unavailable \in {None, "note", "unavailable"}
<1>1. ASSUME NEW k \in 1 .. Len(Dumps[d])
      PROVE  Dumps[d][k].record \in LineTypes
  BY DEF LineTypes
<1>2. "note" # None /\ "unavailable" # None
  BY DumpAssumption
<1>3. CASE d = "contacts"
  BY <1>1, <1>2, <1>3 DEF Dumps, dumpContacts, Ranged, MayRefuse
<1>4. CASE d = "calls"
  BY <1>1, <1>2, <1>4 DEF Dumps, dumpCalls, Ranged, MayRefuse
<1>5. CASE d = "messages"
  BY <1>1, <1>2, <1>5 DEF Dumps, dumpMessages, Ranged, MayRefuse
<1>6. CASE d = "calendar"
  BY <1>1, <1>2, <1>6 DEF Dumps, dumpCalendar, Ranged, MayRefuse
<1>7. CASE d = "notes"
  BY <1>1, <1>2, <1>7 DEF Dumps, dumpNotes, Ranged, MayRefuse
<1>8. CASE d = "safari"
  BY <1>1, <1>2, <1>8 DEF Dumps, dumpSafari, Ranged, MayRefuse
<1>9. CASE d = "reminders"
  BY <1>1, <1>2, <1>9 DEF Dumps, dumpReminders, Ranged, MayRefuse
<1>10. d \in {"contacts", "calls", "messages", "calendar", "notes", "safari", "reminders"}
  BY DEF Dumps
<1> QED
  BY <1>3, <1>4, <1>5, <1>6, <1>7, <1>8, <1>9, <1>10

(* The lines of an iterator stop at its first record that has no JSON form.  *)
LEMMA PrintableIs ==
  ASSUME CountersInv, NEW k \in 1 .. N
  PROVE  LET s == world.streams[k] IN
         /\ Printable(k) \in Seq(Places)
         /\ s.refused => Printable(k) = <<<<k, 0, FALSE>>>>
         /\ ~s.refused =>
              \E n \in 0 .. Len(s.rows) :
                /\ Printable(k) = [r \in 1 .. n |-> Row(k, r)]
                /\ \A r \in 1 .. n : s.rows[r] # "unencodable"
                /\ n = Len(s.rows) \/ s.rows[n + 1] = "unencodable"
<1> DEFINE s == world.streams[k]
           bad == {r \in DOMAIN s.rows : s.rows[r] = "unencodable"}
           first == CHOOSE r \in bad : \A q \in bad : r <= q
           n == IF bad = {} THEN Len(s.rows) ELSE first - 1
<1>1. /\ s.refused \in BOOLEAN /\ Len(s.rows) \in Nat /\ DOMAIN s.rows = 1 .. Len(s.rows)
      /\ N \in Nat /\ k \in Nat
  BY WorldTypes
<1>2. bad # {} => first \in bad /\ \A q \in bad : first <= q
  <2>1. bad \in SUBSET Nat
    BY <1>1
  <2> HIDE DEF bad
  <2>2. bad # {} => \E r \in bad : \A q \in bad : r <= q
    BY <2>1, LeastNatural
  <2> QED
    BY <2>2
<1>3. CASE s.refused
  <2>1. Printable(k) = <<<<k, 0, FALSE>>>>
    BY <1>3 DEF Printable
  <2>2. <<k, 0, FALSE>> \in Places
    BY <1>1 DEF Places
  <2> QED
    BY <1>3, <2>1, <2>2
<1>4. CASE ~s.refused
  <2>1. Printable(k) = [r \in 1 .. n |-> Row(k, r)]
    BY <1>4 DEF Printable
  <2> HIDE DEF first
  <2>2. n \in 0 .. Len(s.rows)
    BY <1>1, <1>2
  <2>3. ASSUME NEW r \in 1 .. n PROVE s.rows[r] # "unencodable"
    <3>1. r \in DOMAIN s.rows
      BY <1>1, <2>2
    <3>2. r \notin bad
      BY <1>1, <1>2, <2>2, <3>1
    <3> QED
      BY <3>1, <3>2
  <2>4. n = Len(s.rows) \/ s.rows[n + 1] = "unencodable"
    <3>1. CASE bad = {}
      BY <3>1
    <3>2. CASE bad # {}
      <4>1. s.rows[first] = "unencodable" /\ first \in Nat
        BY <1>1, <1>2, <3>2
      <4>2. n + 1 = first
        BY <3>2, <4>1
      <4> QED
        BY <4>1, <4>2
    <3> QED
      BY <3>1, <3>2
  <2>5. \A r \in 1 .. n : Row(k, r) \in Places
    <3> SUFFICES ASSUME NEW r \in 1 .. n PROVE Row(k, r) \in Places
      OBVIOUS
    <3>1. r \in Nat
      OBVIOUS
    <3> QED
      BY <1>1, <3>1 DEF Row, Places
  <2> HIDE DEF n
  <2>6. Printable(k) \in Seq(Places)
    BY <2>1, <2>2, <2>5
  <2> QED
    BY <1>4, <2>1, <2>2, <2>3, <2>4, <2>6
<1> QED
  BY <1>1, <1>3, <1>4

LEMMA UptoSteps ==
  ASSUME CountersInv
  PROVE  /\ Upto(0) = <<>>
         /\ \A n \in 0 .. N : Upto(n) \in Seq(Places)
         /\ \A n \in 1 .. N : Upto(n) = Upto(n - 1) \o Printable(n)
<1> DEFINE s == [k \in 1 .. N |-> Printable(k)]
<1>1. N \in Nat
  BY WorldTypes
<1>2. s \in Seq(Seq(Places)) /\ Len(s) = N
  <2>1. \A k \in 1 .. N : Printable(k) \in Seq(Places)
    BY PrintableIs
  <2> QED
    BY <1>1, <2>1
<1>3. \A n \in 0 .. N : [k \in 1 .. n |-> s[k]] = [k \in 1 .. n |-> Printable(k)]
  BY <1>1
<1>4. \A n \in 1 .. N : s[n] = Printable(n)
  OBVIOUS
<1> DEFINE F(n) == FlattenSeq([k \in 1 .. n |-> s[k]])
<1>5. \A n \in 0 .. N : F(n) = Upto(n)
  BY <1>3 DEF Upto
<1> HIDE DEF s
<1>6. /\ F(0) = <<>>
      /\ \A n \in 0 .. N : F(n) \in Seq(Places)
      /\ \A n \in 1 .. N : F(n) = F(n - 1) \o s[n]
  BY <1>2, FlattenBySteps
<1>7. \A n \in 1 .. N : n \in 0 .. N /\ n - 1 \in 0 .. N
  BY <1>1
<1> HIDE DEF F
<1>8. Upto(0) = <<>>
  BY <1>1, <1>5, <1>6
<1>9. \A n \in 0 .. N : Upto(n) \in Seq(Places)
  BY <1>5, <1>6
<1>10. ASSUME NEW n \in 1 .. N PROVE Upto(n) = Upto(n - 1) \o Printable(n)
  <2>1. F(n) = Upto(n) /\ F(n - 1) = Upto(n - 1)
    BY <1>5, <1>7
  <2>2. F(n) = F(n - 1) \o s[n] /\ s[n] = Printable(n)
    BY <1>4, <1>6
  <2> QED
    BY <2>1, <2>2
<1> QED
  BY <1>8, <1>9, <1>10

LEMMA UptoGrows ==
  ASSUME CountersInv, NEW a \in 0 .. N, NEW b \in a .. N
  PROVE  \E u \in Seq(Places) : Upto(b) = Upto(a) \o u
<1> DEFINE G == [k \in 0 .. N |-> Upto(k)]
           s == [k \in 1 .. N |-> Printable(k)]
<1>1. N \in Nat /\ b \in 0 .. N
  BY WorldTypes
<1>2. \A k \in 0 .. N : G[k] \in Seq(Places)
  BY UptoSteps
<1>3. \A k \in 1 .. N : s[k] \in Seq(Places) /\ G[k] = G[k - 1] \o s[k]
  <2>1. \A k \in 1 .. N : k \in 0 .. N /\ k - 1 \in 0 .. N
    BY <1>1
  <2>2. \A k \in 1 .. N : s[k] \in Seq(Places)
    BY PrintableIs
  <2>3. ASSUME NEW k \in 1 .. N PROVE G[k] = G[k - 1] \o s[k]
    <3>1. Upto(k) = Upto(k - 1) \o Printable(k)
      BY UptoSteps
    <3>2. G[k] = Upto(k) /\ G[k - 1] = Upto(k - 1) /\ s[k] = Printable(k)
      BY <2>1
    <3> HIDE DEF G, s
    <3> QED
      BY <3>1, <3>2
  <2> QED
    BY <2>2, <2>3
<1>4. G[a] = Upto(a) /\ G[b] = Upto(b)
  BY <1>1
<1> HIDE DEF G, s
<1>5. \E u \in Seq(Places) : G[b] = G[a] \o u
  <2>1. Sums(G, s, N, Places)
    BY <1>2, <1>3 DEF Sums
  <2>2. Extends(G[a], G[b], Places)
    BY <1>1, <2>1, SumsGrow
  <2> QED
    BY <2>2 DEF Extends
<1> QED
  BY <1>4, <1>5

-----------------------------------------------------------------------------
(* What is expected, and how far the output has come.                       *)

(* What output with room for n lines takes of a sequence.                   *)
Cut(t, n) == SubSeq(t, 1, IF n < Len(t) THEN n ELSE Len(t))

LEMMA CutReached ==
  ASSUME NEW T, NEW s \in Seq(T), NEW u \in Seq(T), NEW n \in Nat,
         Len(s) <= n, u = <<>> \/ Len(s) = n
  PROVE  Cut(s \o u, n) = s
<1> DEFINE t == s \o u
           m == IF n < Len(t) THEN n ELSE Len(t)
<1>1. t \in Seq(T) /\ Len(t) = Len(s) + Len(u) /\ Len(s) \in Nat /\ Len(u) \in Nat
  BY ConcatProperties
<1>2. \A i \in 1 .. Len(s) : t[i] = s[i]
  BY ConcatProperties
<1>3. m = Len(s)
  <2>1. CASE u = <<>>
    <3>1. Len(u) = 0
      BY <2>1
    <3> HIDE DEF t
    <3> QED
      BY <1>1, <3>1
  <2>2. CASE Len(s) = n
    <3> HIDE DEF t
    <3> QED
      BY <1>1, <2>2
  <2> QED
    BY <2>1, <2>2
<1> HIDE DEF t
<1>4. \A i \in 1 .. Len(s) : t[i] \in T
  BY <1>1
<1>5. SubSeq(t, 1, Len(s)) = s
  BY <1>1, <1>2, <1>4
<1> QED
  BY <1>3, <1>5 DEF Cut, t

LEMMA CutBegins ==
  ASSUME NEW T, NEW s \in Seq(T), NEW u \in Seq(T), NEW n \in Nat, Len(s) <= n
  PROVE  IsPrefix(s, Cut(s \o u, n))
<1> DEFINE t == s \o u
           m == IF n < Len(t) THEN n ELSE Len(t)
           c == SubSeq(t, 1, m)
<1>1. t \in Seq(T) /\ Len(t) = Len(s) + Len(u) /\ Len(s) \in Nat /\ Len(u) \in Nat
  BY ConcatProperties
<1>2. \A i \in 1 .. Len(s) : t[i] = s[i]
  BY ConcatProperties
<1> HIDE DEF t
<1>3. m \in Nat /\ Len(s) <= m /\ m <= Len(t)
  BY <1>1
<1>4. c \in Seq(T) /\ Len(c) = m /\ \A i \in 1 .. m : c[i] = t[i]
  <2> HIDE DEF m
  <2> QED
    BY <1>1, <1>3
<1> HIDE DEF m, c
<1>5. Len(s) <= Len(c) /\ \A i \in 1 .. Len(s) : c[i] = s[i]
  BY <1>1, <1>2, <1>3, <1>4
<1>6. SubSeq(c, 1, Len(s)) = s
  BY <1>1, <1>4, <1>5
<1>7. SubSeq(s, 1, Len(s)) = s
  OBVIOUS
<1>8. Cut(s \o u, n) = c
  BY DEF Cut, c, m, t
<1> QED
  BY <1>5, <1>6, <1>7, <1>8 DEF IsPrefix

(* The iterator that ends the dump, or the last one.                        *)
LastRanged == IF \E k \in 1 .. N : Ends(k)
        THEN CHOOSE k \in 1 .. N : Ends(k) /\ \A j \in 1 .. k - 1 : ~Ends(j) ELSE N

All == CapabilityLine \o Upto(LastRanged)

LEMMA LastRangedIs ==
  ASSUME CountersInv
  PROVE  /\ LastRanged \in 0 .. N
         /\ \A j \in 1 .. LastRanged - 1 : ~Ends(j)
         /\ (\A k \in 1 .. N : ~Ends(k)) => LastRanged = N
         /\ (\E k \in 1 .. N : Ends(k)) => LastRanged \in 1 .. N /\ Ends(LastRanged)
<1> DEFINE E == {k \in 1 .. N : Ends(k)}
<1>1. N \in Nat
  BY WorldTypes
<1>2. CASE \E k \in 1 .. N : Ends(k)
  <2>1. \E k \in 1 .. N : Ends(k) /\ \A j \in 1 .. k - 1 : ~Ends(j)
    <3>1. E \in SUBSET Nat /\ E # {}
      BY <1>1, <1>2
    <3>2. PICK m \in E : \A k \in E : m <= k
      <4> HIDE DEF E
      <4> QED
        BY <3>1, LeastNatural
    <3>3. ASSUME NEW j \in 1 .. m - 1 PROVE ~Ends(j)
      <4>1. j \in 1 .. N /\ ~(m <= j)
        BY <1>1, <3>2
      <4> QED
        BY <3>2, <4>1
    <3> QED
      BY <3>2, <3>3
  <2>2. LastRanged \in 1 .. N /\ Ends(LastRanged) /\ \A j \in 1 .. LastRanged - 1 : ~Ends(j)
    BY <1>2, <2>1 DEF LastRanged
  <2> QED
    BY <1>1, <1>2, <2>2
<1>3. CASE ~ \E k \in 1 .. N : Ends(k)
  <2>1. LastRanged = N
    BY <1>3 DEF LastRanged
  <2>2. \A j \in 1 .. N - 1 : j \in 1 .. N
    BY <1>1
  <2> QED
    BY <1>1, <1>3, <2>1, <2>2
<1> QED
  BY <1>2, <1>3

LEMMA ExpectedIs ==
  ASSUME CountersInv
  PROVE  /\ Opened => Expected = Cut(All, world.room)
         /\ ~Opened => Expected = <<>>
  BY Zenon DEF Expected, Cut, All, LastRanged, CapabilityLine, Upto, N

(* While no iterator before k has ended the dump, what is expected goes on    *)
(* with what k has yet to yield.                                           *)
LEMMA Ahead ==
  ASSUME CountersInv, NEW k \in 1 .. N, \A j \in 1 .. k - 1 : ~Ends(j),
         NEW p \in Seq(Places), NEW q \in Seq(Places), Printable(k) = p \o q
  PROVE  \E u \in Seq(Places) :
           /\ All = ((CapabilityLine \o Upto(k - 1) \o p) \o q) \o u
           /\ Ends(k) => u = <<>>
<1>1. N \in Nat /\ \A n \in 0 .. N : Upto(n) \in Seq(Places)
  BY WorldTypes, UptoSteps
<1>2. k \in 0 .. N /\ k - 1 \in 0 .. N
  BY <1>1
<1>3. LastRanged \in k .. N /\ (Ends(k) => LastRanged = k)
  <2>1. CASE Ends(k)
    <3>1. LastRanged \in 1 .. N /\ Ends(LastRanged) /\ \A j \in 1 .. LastRanged - 1 : ~Ends(j)
      BY <2>1, LastRangedIs
    <3>2. ~(LastRanged < k) /\ ~(k < LastRanged)
      BY <1>1, <2>1, <3>1
    <3> QED
      BY <1>1, <2>1, <3>1, <3>2
  <2>2. CASE ~Ends(k)
    <3>1. CASE \E j \in 1 .. N : Ends(j)
      <4>1. LastRanged \in 1 .. N /\ Ends(LastRanged)
        BY <3>1, LastRangedIs
      <4>2. ~(LastRanged < k)
        BY <1>1, <4>1
      <4> QED
        BY <1>1, <2>2, <4>1, <4>2
    <3>2. CASE ~ \E j \in 1 .. N : Ends(j)
      <4>1. LastRanged = N
        BY <3>2, LastRangedIs
      <4> QED
        BY <1>1, <2>2, <4>1
    <3> QED
      BY <3>1, <3>2
  <2> QED
    BY <2>1, <2>2
<1>4. PICK u \in Seq(Places) : Upto(LastRanged) = Upto(k) \o u /\ (Ends(k) => u = <<>>)
  <2>1. CASE Ends(k)
    <3>1. Upto(LastRanged) = Upto(k) \o <<>> /\ <<>> \in Seq(Places)
      BY <1>1, <1>2, <1>3, <2>1, ConcatEmptySeq
    <3> QED
      BY <3>1
  <2>2. CASE ~Ends(k)
    <3>1. \E u \in Seq(Places) : Upto(LastRanged) = Upto(k) \o u
      BY <1>2, <1>3, UptoGrows
    <3> QED
      BY <2>2, <3>1
  <2> QED
    BY <2>1, <2>2
<1> DEFINE a == CapabilityLine
           b == Upto(k - 1)
<1>5. a \in Seq(Places) /\ b \in Seq(Places)
  <2>1. <<0, 0, FALSE>> \in Places
    BY DEF Places
  <2> QED
    BY <1>1, <1>2, <2>1 DEF CapabilityLine
<1> HIDE DEF a, b
<1>6. Upto(k) = b \o (p \o q)
  BY UptoSteps, Zenon DEF b
<1>7. All = Nested(a, b, p, q, u)
  BY <1>4, <1>6, Zenon DEF All, Nested, a
<1>8. All = Joined(a, b, p, q) \o u
  <2>1. Nested(a, b, p, q, u) = Joined(a, b, p, q) \o u
    BY <1>5, FiveParts
  <2> QED
    BY <1>7, <2>1, Zenon
<1>9. Joined(a, b, p, q) = (CapabilityLine \o Upto(k - 1) \o p) \o q
  BY Zenon DEF Joined, a, b
<1> QED
  BY <1>4, <1>8, <1>9, Zenon

-----------------------------------------------------------------------------
(* The steps of the dump.                                                  *)

(* What is to be printed does not change.                                   *)
LEMMA WorldStays ==
  ASSUME UNCHANGED world
  PROVE  /\ UNCHANGED <<N, Opened, Expected, Whole>>
         /\ (CapabilityLine \o Upto(stream - 1))' = CapabilityLine \o Upto(stream' - 1)
         /\ Yielded(stream, row)' = Yielded(stream', row')
         /\ (\A j \in 1 .. stream - 1 : ~Ends(j))' <=> \A j \in 1 .. stream' - 1 : ~Ends(j)
<1>1. UNCHANGED <<N, Opened>>
  BY DEF N, Opened
<1>2. UNCHANGED Expected
  <2>1. UNCHANGED LastRanged
    BY DEF LastRanged, N, Ends
  <2>2. UNCHANGED All
    BY <2>1 DEF All, CapabilityLine, Upto, Printable, Row
  <2>3. Expected = IF Opened THEN Cut(All, world.room) ELSE <<>>
    BY Zenon DEF Expected, Cut, All, LastRanged, CapabilityLine, Upto, N
  <2>4. Expected' = IF Opened' THEN Cut(All', world'.room) ELSE <<>>
    BY Zenon DEF Expected, Cut, All, LastRanged, CapabilityLine, Upto, N
  <2> QED
    BY <1>1, <2>1, <2>2, <2>3, <2>4, Zenon
<1>3. UNCHANGED Whole
  BY Zenon DEF Whole, N, Opened, Ends, Upto, Printable, Row
<1>4. (CapabilityLine \o Upto(stream - 1))' = CapabilityLine \o Upto(stream' - 1)
  BY Zenon DEF CapabilityLine, Upto, Printable, Row
<1>5. Yielded(stream, row)' = Yielded(stream', row')
  BY Zenon DEF Yielded, Row
<1>6. (\A j \in 1 .. stream - 1 : ~Ends(j))' <=> \A j \in 1 .. stream' - 1 : ~Ends(j)
  BY Zenon DEF Ends
<1> QED
  BY <1>1, <1>2, <1>3, <1>4, <1>5, <1>6

LEMMA LinesType ==
  ASSUME CountersInv
  PROVE  Lines \in Seq(Places) /\ Len(Lines) = Len(out) /\ Len(out) \in Nat
<1>1. out \in Seq(OutLines)
  BY DEF CountersInv
<1>2. ASSUME NEW k \in 1 .. Len(out)
      PROVE  <<out[k].stream, out[k].row, out[k].type = "row_error">> \in Places
  <2>1. out[k] \in OutLines
    BY <1>1, ElementOfSeq
  <2>2. out[k].stream \in Nat /\ out[k].row \in Nat
    BY <2>1 DEF OutLines
  <2> QED
    BY <2>2 DEF Places
<1>3. DOMAIN out = 1 .. Len(out) /\ Len(out) \in Nat
  BY <1>1
<1> QED
  BY <1>2, <1>3 DEF Lines

LEMMA LinesGrow ==
  ASSUME CountersInv, NEW type \in LineTypes \cup {"note", "unavailable"},
         NEW k \in Nat, NEW r \in Nat, out' = Append(out, Line(type, k, r))
  PROVE  /\ out' \in Seq(OutLines) /\ Len(out') = Len(out) + 1
         /\ <<k, r, type = "row_error">> \in Places
         /\ Lines' = Lines \o <<<<k, r, type = "row_error">>>>
<1> DEFINE l == Line(type, k, r)
           x == <<k, r, type = "row_error">>
<1>1. l \in OutLines /\ l.stream = k /\ l.row = r /\ l.type = type
  BY DEF Line, OutLines
<1>2. x \in Places
  BY DEF Places
<1>3. out \in Seq(OutLines)
  BY DEF CountersInv
<1> HIDE DEF l
<1>4. /\ out' \in Seq(OutLines) /\ Len(out') = Len(out) + 1 /\ Len(out) \in Nat
      /\ DOMAIN out = 1 .. Len(out) /\ DOMAIN out' = 1 .. Len(out) + 1
      /\ \A i \in 1 .. Len(out) : out'[i] = out[i]
      /\ out'[Len(out) + 1] = l
  BY <1>1, <1>3 DEF l
<1> DEFINE place(e) == <<e.stream, e.row, e.type = "row_error">>
<1>5. Lines = [i \in 1 .. Len(out) |-> place(out[i])]
  BY <1>4 DEF Lines
<1>6. Lines' = [i \in 1 .. Len(out) + 1 |-> place(out'[i])]
  BY <1>4 DEF Lines
<1>7. place(l) = x
  BY <1>1
<1>8. Lines \in Seq(Places) /\ Len(Lines) = Len(out)
  BY LinesType
<1> HIDE DEF place, x
<1>9. Lines \o <<x>> = [i \in 1 .. Len(out) + 1 |-> IF i <= Len(out) THEN Lines[i] ELSE x]
  BY <1>2, <1>4, <1>8
<1>10. ASSUME NEW i \in 1 .. Len(out) + 1
       PROVE  place(out'[i]) = IF i <= Len(out) THEN Lines[i] ELSE x
  <2>1. CASE i <= Len(out)
    BY <1>4, <1>5, <2>1
  <2>2. CASE ~(i <= Len(out))
    <3>1. i = Len(out) + 1
      BY <1>4, <2>2
    <3> QED
      BY <1>4, <1>7, <2>2, <3>1
  <2> QED
    BY <2>1, <2>2
<1>11. Lines' = Lines \o <<x>>
  BY <1>6, <1>9, <1>10
<1> QED
  BY <1>2, <1>4, <1>11 DEF x

LEMMA CapabilityFirst ==
  /\ CapabilityLine \in Seq(Places)
  /\ \A s \in Seq(Places) :
       /\ CapabilityLine \o s \in Seq(Places)
       /\ Len(CapabilityLine \o s) = 1 + Len(s) /\ Len(s) \in Nat
<1>1. CapabilityLine \in Seq(Places) /\ Len(CapabilityLine) = 1
  <2>1. <<0, 0, FALSE>> \in Places
    BY DEF Places
  <2> QED
    BY <2>1 DEF CapabilityLine
<1>2. ASSUME NEW s \in Seq(Places)
      PROVE  /\ CapabilityLine \o s \in Seq(Places)
             /\ Len(CapabilityLine \o s) = 1 + Len(s) /\ Len(s) \in Nat
  <2>1. CapabilityLine \o s \in Seq(Places)
    BY <1>1, ConcatProperties
  <2>2. Len(CapabilityLine \o s) = Len(CapabilityLine) + Len(s)
    BY <1>1, ConcatProperties
  <2>3. Len(s) \in Nat
    OBVIOUS
  <2> QED
    BY <1>1, <2>1, <2>2, <2>3
<1> QED
  BY <1>1, <1>2

(* One more line, or the output takes none and what is out is what was to be.  *)
LEMMA Prints ==
  ASSUME CountersInv, Opened, NEW next,
         NEW type \in LineTypes \cup {"note", "unavailable"}, NEW k \in Nat, NEW r \in Nat,
         Encode(Line(type, k, r), next),
         NEW u \in Seq(Places),
         All = (Lines \o <<<<k, r, type = "row_error">>>>) \o u
  PROVE  \/ /\ pc' = next /\ UNCHANGED exit
            /\ out' \in Seq(OutLines) /\ Len(out') <= world.room
            /\ Lines' = Lines \o <<<<k, r, type = "row_error">>>>
         \/ /\ pc' = "return" /\ exit' = 1 /\ UNCHANGED out
            /\ Lines = Expected /\ ~Whole
<1> DEFINE x == <<k, r, type = "row_error">>
<1>1. world.room \in Nat /\ Lines \in Seq(Places) /\ Len(Lines) = Len(out) /\ Len(out) \in Nat
  BY WorldTypes, LinesType
<1>2. CASE Len(out) < world.room
  <2>1. out' = Append(out, Line(type, k, r)) /\ pc' = next /\ UNCHANGED exit
    BY <1>2 DEF Encode
  <2>2. /\ out' \in Seq(OutLines) /\ Len(out') = Len(out) + 1
        /\ Lines' = Lines \o <<<<k, r, type = "row_error">>>>
    BY <2>1, LinesGrow
  <2>3. Len(out') <= world.room
    BY <1>1, <1>2, <2>2
  <2> QED
    BY <2>1, <2>2, <2>3
<1>3. CASE ~(Len(out) < world.room)
  <2>1. pc' = "return" /\ exit' = 1 /\ UNCHANGED out
    BY <1>3 DEF Encode, Return
  <2>2. Len(Lines) = world.room
    BY <1>1, <1>3 DEF CountersInv
  <2>3. x \in Places
    BY DEF Places
  <2> HIDE DEF x
  <2> DEFINE v == <<x>> \o u
  <2>4. v \in Seq(Places) /\ Len(v) = 1 + Len(u) /\ Len(u) \in Nat
    BY <2>3
  <2>5. All = Lines \o v
    <3>1. <<x>> \in Seq(Places)
      BY <2>3
    <3>2. (Lines \o <<x>>) \o u = Lines \o (<<x>> \o u)
      BY <1>1, <3>1, ConcatRegroups
    <3> QED
      BY <3>2, Zenon DEF x
  <2> HIDE DEF v
  <2>6. Lines = Expected
    <3>1. Cut(Lines \o v, world.room) = Lines
      BY <1>1, <2>2, <2>4, CutReached
    <3> QED
      BY <2>5, <3>1, ExpectedIs
  <2>7. ASSUME Whole PROVE FALSE
    <3>1. LastRanged = N /\ Len(Upto(N)) < world.room
      BY <2>7, LastRangedIs DEF Whole
    <3>2. N \in 0 .. N
      BY WorldTypes
    <3>3. Upto(N) \in Seq(Places)
      BY <3>2, UptoSteps
    <3>4. Len(All) = 1 + Len(Upto(N)) /\ Len(Upto(N)) \in Nat
      <4>1. All = CapabilityLine \o Upto(N)
        BY <3>1 DEF All
      <4>2. Len(CapabilityLine \o Upto(N)) = 1 + Len(Upto(N)) /\ Len(Upto(N)) \in Nat
        BY <3>3, CapabilityFirst
      <4> QED
        BY <4>1, <4>2
    <3>5. Len(All) = Len(Lines) + Len(v)
      BY <1>1, <2>4, <2>5, ConcatProperties
    <3> QED
      BY <1>1, <2>2, <2>4, <3>1, <3>4, <3>5
  <2> QED
    BY <2>1, <2>6, <2>7
<1> QED
  BY <1>2, <1>3

(* What makes the invariant hold after a step: one that returns...           *)
LEMMA Returning ==
  ASSUME CountersInv, UNCHANGED <<world, out>>, pc' = "return",
         stream' \in 1 .. N + 1, row' \in Nat,
         Lines = Expected, exit' \in {0, 1, 2}, exit' = 0 <=> Whole
  PROVE  PrintInv'
<1>1. UNCHANGED <<N, Expected, Whole>>
  BY WorldStays
<1>2. UNCHANGED Lines
  BY DEF Lines
<1>3. CountersInv'
  BY <1>1 DEF CountersInv
<1>4. RunningInv'
  BY DEF RunningInv
<1>5. ReturnedInv'
  BY <1>1, <1>2 DEF ReturnedInv
<1> QED
  BY <1>3, <1>4, <1>5 DEF PrintInv

(* ... one after which the next iterator begins...                          *)
LEMMA Beginning ==
  ASSUME CountersInv, UNCHANGED world, pc' = "begin",
         stream' \in 1 .. N + 1, row' = 0, Opened, exit' = None,
         out' \in Seq(OutLines), Len(out') <= world.room,
         \A j \in 1 .. stream' - 1 : ~Ends(j),
         Lines' = CapabilityLine \o Upto(stream' - 1)
  PROVE  PrintInv'
<1>1. UNCHANGED <<N, Opened>> /\ (\A j \in 1 .. stream - 1 : ~Ends(j))'
  BY WorldStays
<1>2. (CapabilityLine \o Upto(stream - 1))' = CapabilityLine \o Upto(stream' - 1)
  BY WorldStays
<1>3. Seen' = <<>>
  BY DEF Seen
<1>4. Upto(stream' - 1) \in Seq(Places)
  <2>0. N \in Nat
    BY WorldTypes
  <2>3. \A n \in 1 .. N + 1 : n - 1 \in 0 .. N
    BY <2>0
  <2>1. stream' - 1 \in 0 .. N
    BY <2>3
  <2>2. \A n \in 0 .. N : Upto(n) \in Seq(Places)
    BY UptoSteps
  <2> QED
    BY <2>1, <2>2
<1>5. Lines' = (CapabilityLine \o Upto(stream - 1) \o Seen)'
  <2>1. CapabilityLine \o Upto(stream' - 1) \in Seq(Places)
    BY <1>4, CapabilityFirst
  <2>2. (CapabilityLine \o Upto(stream' - 1)) \o <<>> = CapabilityLine \o Upto(stream' - 1)
    BY <2>1, ConcatEmptySeq
  <2> QED
    BY <1>2, <1>3, <2>2, Zenon
<1>6. CountersInv'
  BY <1>1 DEF CountersInv
<1>7. RunningInv'
  BY <1>1, <1>5 DEF RunningInv
<1>8. ReturnedInv'
  BY DEF ReturnedInv
<1> QED
  BY <1>6, <1>7, <1>8 DEF PrintInv

(* ... and one after which it is ranged over.                                *)
LEMMA Ranging ==
  ASSUME CountersInv, UNCHANGED <<world, stream>>, pc' = "range",
         stream \in 1 .. N, row' \in Nat, Opened, exit' = None,
         out' \in Seq(OutLines), Len(out') <= world.room,
         \A j \in 1 .. stream - 1 : ~Ends(j),
         Lines' = CapabilityLine \o Upto(stream - 1) \o Yielded(stream, row'),
         world.streams[stream].refused => row' = 0,
         row' <= Len(world.streams[stream].rows),
         \A r \in 1 .. row' : world.streams[stream].rows[r] # "unencodable"
  PROVE  PrintInv'
<1>1. UNCHANGED <<N, Opened>> /\ (\A j \in 1 .. stream - 1 : ~Ends(j))'
  BY WorldStays
<1>2. /\ (CapabilityLine \o Upto(stream - 1))' = CapabilityLine \o Upto(stream - 1)
      /\ Yielded(stream, row)' = Yielded(stream, row')
  BY WorldStays
<1>3. Seen' = Yielded(stream, row')
  BY <1>2 DEF Seen
<1>4. Lines' = (CapabilityLine \o Upto(stream - 1) \o Seen)'
  BY <1>2, <1>3, Zenon
<1>5. CountersInv'
  BY <1>1, WorldTypes DEF CountersInv
<1>6. RunningInv'
  BY <1>1, <1>4 DEF RunningInv
<1>7. ReturnedInv'
  BY DEF ReturnedInv
<1> QED
  BY <1>5, <1>6, <1>7 DEF PrintInv

(* An iterator that is ranged over.                                         *)
LEMMA Dumped ==
  ASSUME CountersInv, Opened
  PROVE  /\ N = Len(Dump)
         /\ \A k \in 1 .. N :
              /\ Dump[k].record \in LineTypes /\ Dump[k].record # "row_error"
              /\ world.streams[k].refused =>
                   Dump[k].unavailable \in {"note", "unavailable"}
<1>1. world.domain \in DOMAIN Dumps
  BY DEF Opened
<1>2. /\ Len(world.streams) = Len(Dumps[world.domain])
      /\ \A k \in 1 .. Len(world.streams) :
           world.streams[k].refused => Dumps[world.domain][k].record \in MayRefuse
  <2>1. world \in Worlds
    BY DEF CountersInv
  <2> QED
    BY <2>1, DumpAssumption DEF Opened
<1> QED
  BY <1>1, <1>2, DumpTypes DEF N, Dump

(* Its rows that are out, and the next.                                     *)
LEMMA NextRow ==
  ASSUME CountersInv, NEW k \in 1 .. N, ~world.streams[k].refused,
         NEW m \in 0 .. Len(world.streams[k].rows),
         \A r \in 1 .. m : world.streams[k].rows[r] # "unencodable"
  PROVE  LET s == world.streams[k] IN
         /\ Yielded(k, m) \in Seq(Places)
         /\ m = Len(s.rows) => Printable(k) = Yielded(k, m)
         /\ m < Len(s.rows) =>
              /\ s.rows[m + 1] = "unencodable" => Printable(k) = Yielded(k, m)
              /\ s.rows[m + 1] # "unencodable" =>
                   /\ Row(k, m + 1) \in Places
                   /\ Yielded(k, m + 1) = Yielded(k, m) \o <<Row(k, m + 1)>>
                   /\ \E q \in Seq(Places) : Printable(k) = Yielded(k, m + 1) \o q
<1> DEFINE s == world.streams[k]
           Y(n) == [r \in 1 .. n |-> Row(k, r)]
<1>1. Len(s.rows) \in Nat /\ N \in Nat /\ k \in Nat
  BY WorldTypes
<1>2. PICK n \in 0 .. Len(s.rows) :
        /\ Printable(k) = Y(n)
        /\ \A r \in 1 .. n : s.rows[r] # "unencodable"
        /\ n = Len(s.rows) \/ s.rows[n + 1] = "unencodable"
  BY PrintableIs
<1>3. \A j \in Nat : Row(k, j) \in Places
  BY <1>1 DEF Row, Places
<1>4. \A j : Yielded(k, j) = Y(j)
  BY Zenon DEF Yielded
<1>5. m <= n
  <2> SUFFICES ASSUME n < m PROVE FALSE
    BY <1>1
  <2>1. n + 1 \in 1 .. m /\ n # Len(s.rows)
    BY <1>1
  <2> QED
    BY <1>2, <2>1
<1>6. Y(m) \in Seq(Places)
  BY <1>1, <1>3
<1>7. m = Len(s.rows) => n = m
  BY <1>1, <1>5
<1>8. ASSUME m < Len(s.rows), s.rows[m + 1] = "unencodable"
      PROVE  n = m
  <2>1. m + 1 \notin 1 .. n
    BY <1>2, <1>8
  <2> QED
    BY <1>1, <1>5, <2>1
<1>9. ASSUME m < Len(s.rows), s.rows[m + 1] # "unencodable"
      PROVE  /\ Row(k, m + 1) \in Places
             /\ Y(m + 1) = Y(m) \o <<Row(k, m + 1)>>
             /\ \E q \in Seq(Places) : Y(n) = Y(m + 1) \o q
  <2>1. Row(k, m + 1) \in Places
    BY <1>1, <1>3
  <2>2. Y(m + 1) = Y(m) \o <<Row(k, m + 1)>>
    BY <1>1, <2>1
  <2>3. m + 1 <= n
    <3>1. m # n
      BY <1>2, <1>9
    <3> QED
      BY <1>1, <1>5, <3>1
  <2> DEFINE q == [i \in 1 .. n - (m + 1) |-> Row(k, m + 1 + i)]
  <2>4. q \in Seq(Places)
    <3>1. n - (m + 1) \in Nat
      BY <1>1, <2>3
    <3>2. \A i \in 1 .. n - (m + 1) : Row(k, m + 1 + i) \in Places
      BY <1>1, <1>3
    <3> QED
      BY <3>1, <3>2
  <2>5. Y(n) = Y(m + 1) \o q
    BY <1>1, <1>3, <2>3
  <2> HIDE DEF q
  <2> QED
    BY <2>1, <2>2, <2>4, <2>5
<1> HIDE DEF Y
<1> QED
  BY <1>2, <1>4, <1>6, <1>7, <1>8, <1>9

USE DEF PrintInv

LEMMA PrintInitially == Init => PrintInv
<1> SUFFICES ASSUME Init PROVE PrintInv
  OBVIOUS
<1>1. world \in Worlds /\ pc = "main" /\ stream = 1 /\ row = 0 /\ out = <<>> /\ exit = None
  BY DEF Init
<1>2. Len(world.streams) \in Nat /\ world.room \in Nat
  BY <1>1, DumpAssumption
<1>3. CountersInv
  BY <1>1, <1>2 DEF CountersInv, N
<1>4. RunningInv
  BY <1>1 DEF RunningInv
<1>5. ReturnedInv
  BY <1>1 DEF ReturnedInv
<1> QED
  BY <1>3, <1>4, <1>5

LEMMA MainPrints ==
  ASSUME PrintInv, Main
  PROVE  PrintInv'
<1>1. pc = "main" /\ UNCHANGED <<world, stream, row, out>>
  BY DEF Main
<1>2. CountersInv /\ out = <<>> /\ stream = 1 /\ row = 0 /\ exit = None
  BY <1>1 DEF RunningInv
<1>3. CASE \/ ~world.root /\ Return(2)
           \/ ~world.tree /\ Return(1)
  <2>1. ~Opened /\ pc' = "return" /\ exit' \in {1, 2}
    BY <1>3 DEF Opened, Return
  <2>2. Lines = Expected
    BY <1>2, <2>1, ExpectedIs DEF Lines
  <2>3. ~Whole
    BY <2>1 DEF Whole
  <2>4. stream' \in 1 .. N + 1 /\ row' \in Nat
    BY <1>1, <1>2 DEF CountersInv
  <2> QED
    BY <1>1, <1>2, <2>1, <2>2, <2>3, <2>4, Returning
<1>4. CASE world.root /\ world.tree /\ pc' = "open" /\ UNCHANGED exit
  <2>1. UNCHANGED N
    BY <1>1, WorldStays
  <2>2. CountersInv'
    BY <1>1, <1>2, <1>4, <2>1 DEF CountersInv
  <2>3. RunningInv'
    BY <1>1, <1>2, <1>4 DEF RunningInv
  <2>4. ReturnedInv'
    BY <1>4 DEF ReturnedInv
  <2> QED
    BY <2>2, <2>3, <2>4
<1> QED
  BY <1>3, <1>4 DEF Main

LEMMA OpenPrints ==
  ASSUME PrintInv, Open
  PROVE  PrintInv'
<1>1. pc = "open" /\ UNCHANGED <<world, stream, row, out>>
  BY DEF Open
<1>2. CountersInv /\ out = <<>> /\ stream = 1 /\ row = 0 /\ exit = None /\ world.root /\ world.tree
  BY <1>1 DEF RunningInv
<1>3. CASE (world.domain \notin DOMAIN Dumps \/ ~world.opens) /\ Return(1)
  <2>1. ~Opened /\ pc' = "return" /\ exit' = 1
    BY <1>3 DEF Opened, Return
  <2>2. Lines = Expected
    BY <1>2, <2>1, ExpectedIs DEF Lines
  <2>3. ~Whole
    BY <2>1 DEF Whole
  <2>4. stream' \in 1 .. N + 1 /\ row' \in Nat
    BY <1>1, <1>2 DEF CountersInv
  <2> QED
    BY <1>1, <1>2, <2>1, <2>2, <2>3, <2>4, Returning
<1>4. CASE world.domain \in DOMAIN Dumps /\ world.opens /\ pc' = "capability" /\ UNCHANGED exit
  <2>1. UNCHANGED <<N, Opened>> /\ Opened
    BY <1>1, <1>2, <1>4, WorldStays DEF Opened
  <2>2. CountersInv'
    BY <1>1, <1>2, <1>4, <2>1 DEF CountersInv
  <2>3. RunningInv'
    BY <1>1, <1>2, <1>4, <2>1 DEF RunningInv
  <2>4. ReturnedInv'
    BY <1>4 DEF ReturnedInv
  <2> QED
    BY <2>2, <2>3, <2>4
<1> QED
  BY <1>3, <1>4 DEF Open

LEMMA CapabilityPrints ==
  ASSUME PrintInv, Capability
  PROVE  PrintInv'
<1>1. pc = "capability" /\ UNCHANGED <<world, stream, row>>
  BY DEF Capability
<1>2. CountersInv /\ Opened /\ out = <<>> /\ stream = 1 /\ row = 0 /\ exit = None
  BY <1>1 DEF RunningInv
<1>3. Lines = <<>>
  BY <1>2 DEF Lines
<1>4. Upto(0) = <<>> /\ \A n \in 0 .. N : Upto(n) \in Seq(Places)
  BY <1>2, UptoSteps
<1>5. CapabilityLine \o <<>> = CapabilityLine /\ <<>> \o CapabilityLine = CapabilityLine
  BY CapabilityFirst, ConcatEmptySeq
<1>6. PICK u \in Seq(Places) : All = CapabilityLine \o u
  BY <1>2, <1>4, LastRangedIs DEF All
<1>7. "capability" \in LineTypes \cup {"note", "unavailable"} /\ ("capability" = "row_error") = FALSE
  BY DEF LineTypes
<1>8. Encode(Line("capability", 0, 0), "begin")
  BY DEF Capability
<1>9. All = (Lines \o <<<<0, 0, "capability" = "row_error">>>>) \o u
  BY <1>3, <1>5, <1>6, <1>7, Zenon DEF CapabilityLine
<1>10. \/ /\ pc' = "begin" /\ UNCHANGED exit
          /\ out' \in Seq(OutLines) /\ Len(out') <= world.room
          /\ Lines' = Lines \o <<<<0, 0, "capability" = "row_error">>>>
       \/ /\ pc' = "return" /\ exit' = 1 /\ UNCHANGED out
          /\ Lines = Expected /\ ~Whole
  BY <1>2, <1>7, <1>8, <1>9, Prints
<1>11. stream' \in 1 .. N + 1 /\ row' \in Nat /\ stream' = 1
  BY <1>1, <1>2 DEF CountersInv
<1>12. CASE pc' = "return"
  BY <1>1, <1>2, <1>10, <1>11, <1>12, Returning
<1>13. CASE pc' = "begin"
  <2>1. Lines' = CapabilityLine
    BY <1>3, <1>5, <1>7, <1>10, <1>13, Zenon DEF CapabilityLine
  <2>2. stream' - 1 = 0
    BY <1>11
  <2>3. Lines' = CapabilityLine \o Upto(stream' - 1)
    BY <1>4, <1>5, <2>1, <2>2
  <2>4. \A j \in 1 .. stream' - 1 : ~Ends(j)
    BY <2>2
  <2> QED
    BY <1>1, <1>2, <1>10, <1>11, <1>13, <2>3, <2>4, Beginning
<1> QED
  BY <1>10, <1>12, <1>13

(* The lines before an iterator's, with some of its own and more.             *)
LEMMA LinesJoin ==
  ASSUME CountersInv, NEW k \in 1 .. N
  PROVE  /\ CapabilityLine \o Upto(k - 1) \in Seq(Places)
         /\ \A y, z \in Seq(Places) :
              (CapabilityLine \o Upto(k - 1) \o y) \o z = CapabilityLine \o Upto(k - 1) \o (y \o z)
         /\ CapabilityLine \o Upto(k - 1) \o Printable(k) = CapabilityLine \o Upto(k)
         /\ Yielded(k, 0) = <<>>
<1> DEFINE b == CapabilityLine \o Upto(k - 1)
<1>1. Upto(k - 1) \in Seq(Places)
  <2>1. k - 1 \in 0 .. N
    BY WorldTypes
  <2>2. \A n \in 0 .. N : Upto(n) \in Seq(Places)
    BY UptoSteps
  <2> QED
    BY <2>1, <2>2
<1>2. b \in Seq(Places)
  BY <1>1, CapabilityFirst
<1> HIDE DEF b
<1>3. ASSUME NEW y \in Seq(Places), NEW z \in Seq(Places)
      PROVE  (b \o y) \o z = b \o (y \o z)
  BY <1>2, ConcatRegroups
<1>4. CapabilityLine \o Upto(k - 1) \o Printable(k) = CapabilityLine \o Upto(k)
  <2> DEFINE c == CapabilityLine
             d == Upto(k - 1)
             e == Printable(k)
  <2>1. c \in Seq(Places) /\ d \in Seq(Places) /\ e \in Seq(Places)
    BY <1>1, CapabilityFirst, PrintableIs
  <2>2. Upto(k) = d \o e
    BY UptoSteps, Zenon
  <2> HIDE DEF c, d, e
  <2>3. (c \o d) \o e = c \o (d \o e)
    BY <2>1, ConcatRegroups
  <2> QED
    BY <2>2, <2>3, Zenon DEF c, d, e
<1>5. Yielded(k, 0) = <<>>
  BY DEF Yielded
<1> QED
  BY <1>2, <1>3, <1>4, <1>5, Zenon DEF b

(* When all that is to be printed is out.                                   *)
LEMMA AllOut ==
  ASSUME CountersInv, Opened, All = Lines
  PROVE  Lines = Expected
<1>1. Lines \in Seq(Places) /\ Len(Lines) <= world.room /\ world.room \in Nat
  BY LinesType, WorldTypes DEF CountersInv
<1> DEFINE l == Lines
<1>2. l \in Seq(Places) /\ Len(l) <= world.room /\ world.room \in Nat
  BY <1>1
<1> HIDE DEF l
<1>3. l \o <<>> = l /\ <<>> \in Seq(Places)
  BY <1>2, ConcatEmptySeq
<1>4. Cut(l \o <<>>, world.room) = l
  BY <1>2, <1>3, CutReached
<1> QED
  BY <1>3, <1>4, ExpectedIs DEF l

(* While the dump is among its iterators.                                   *)
LEMMA Running ==
  ASSUME PrintInv, pc \in {"begin", "range"}
  PROVE  /\ CountersInv /\ Opened /\ exit = None /\ stream \in 1 .. N + 1
         /\ out \in Seq(OutLines) /\ Len(out) <= world.room
         /\ \A j \in 1 .. stream - 1 : ~Ends(j)
         /\ pc = "begin" => row = 0 /\ Lines = CapabilityLine \o Upto(stream - 1)
         /\ pc = "range" =>
              /\ stream \in 1 .. N
              /\ row \in 0 .. Len(world.streams[stream].rows)
              /\ world.streams[stream].refused => row = 0
              /\ \A r \in 1 .. row : world.streams[stream].rows[r] # "unencodable"
              /\ Lines = CapabilityLine \o Upto(stream - 1) \o Yielded(stream, row)
<1>1. /\ CountersInv /\ Opened /\ exit = None /\ stream \in 1 .. N + 1 /\ row \in Nat
      /\ out \in Seq(OutLines) /\ Len(out) <= world.room
      /\ \A j \in 1 .. stream - 1 : ~Ends(j)
      /\ Lines = CapabilityLine \o Upto(stream - 1) \o Seen
  BY DEF RunningInv, CountersInv
<1>2. CASE pc = "begin"
  <2>1. CapabilityLine \o Upto(stream - 1) \in Seq(Places)
    <3>0. N \in Nat /\ \A n \in 0 .. N : Upto(n) \in Seq(Places)
      BY <1>1, WorldTypes, UptoSteps
    <3>1. stream - 1 \in 0 .. N
      BY <1>1, <3>0
    <3>2. Upto(stream - 1) \in Seq(Places)
      BY <3>0, <3>1
    <3> QED
      BY <3>2, CapabilityFirst
  <2>2. Seen = <<>>
    BY <1>2 DEF Seen
  <2>3. (CapabilityLine \o Upto(stream - 1)) \o <<>> = CapabilityLine \o Upto(stream - 1)
    BY <2>1, ConcatEmptySeq
  <2>4. Lines = CapabilityLine \o Upto(stream - 1)
    BY <1>1, <2>2, <2>3, Zenon
  <2>5. row = 0
    BY <1>2 DEF RunningInv
  <2> QED
    BY <1>1, <1>2, <2>4, <2>5
<1>3. CASE pc = "range"
  <2>1. /\ stream \in 1 .. N /\ (Current.refused => row = 0)
        /\ row <= Len(Current.rows)
        /\ \A r \in 1 .. row : Current.rows[r] # "unencodable"
    BY <1>3 DEF RunningInv
  <2>2. Seen = Yielded(stream, row)
    BY <1>3 DEF Seen
  <2>3. Len(world.streams[stream].rows) \in Nat
    BY <1>1, <2>1, WorldTypes
  <2>4. Lines = CapabilityLine \o Upto(stream - 1) \o Yielded(stream, row)
    BY <1>1, <2>2
  <2>5. row \in 0 .. Len(world.streams[stream].rows)
    BY <1>1, <2>1, <2>3
  <2>6. /\ world.streams[stream].refused => row = 0
        /\ \A r \in 1 .. row : world.streams[stream].rows[r] # "unencodable"
    BY <2>1
  <2>7. stream \in 1 .. N /\ pc # "begin"
    BY <1>3, <2>1
  <2> QED
    BY <1>1, <2>4, <2>5, <2>6, <2>7
<1> QED
  BY <1>2, <1>3

LEMMA BeginPrints ==
  ASSUME PrintInv, Begin
  PROVE  PrintInv'
<1>1. pc = "begin" /\ UNCHANGED <<world, stream, row, out>>
  BY DEF Begin
<1>2. /\ CountersInv /\ Opened /\ exit = None /\ stream \in 1 .. N + 1
      /\ out \in Seq(OutLines) /\ Len(out) <= world.room
      /\ \A j \in 1 .. stream - 1 : ~Ends(j)
      /\ row = 0 /\ Lines = CapabilityLine \o Upto(stream - 1)
  BY <1>1, Running
<1>3. N = Len(Dump) /\ N \in Nat /\ world.room \in Nat
  BY <1>2, Dumped, WorldTypes
<1>4. CASE stream > Len(Dump) /\ Return(0)
  <2>1. stream - 1 = N
    BY <1>2, <1>3, <1>4
  <2>2. \A k \in 1 .. N : ~Ends(k)
    BY <1>2, <2>1
  <2>3. LastRanged = N
    BY <1>2, <2>2, LastRangedIs
  <2>4. Lines = CapabilityLine \o Upto(N)
    BY <1>2, <2>1
  <2>5. Lines = Expected
    <3>1. All = Lines
      BY <2>3, <2>4 DEF All
    <3> QED
      BY <1>2, <3>1, AllOut
  <2>6. Whole
    <3>1. Upto(N) \in Seq(Places)
      <4>1. N \in 0 .. N
        BY <1>3
      <4> QED
        BY <1>2, <4>1, UptoSteps
    <3>2. Len(CapabilityLine \o Upto(N)) = 1 + Len(Upto(N)) /\ Len(Upto(N)) \in Nat
      BY <3>1, CapabilityFirst
    <3>3. Len(Lines) = Len(out) /\ Len(out) \in Nat
      BY <1>2, LinesType
    <3>4. Len(out) = 1 + Len(Upto(N))
      BY <2>4, <3>2, <3>3
    <3> QED
      BY <1>2, <1>3, <2>2, <3>2, <3>4 DEF Whole
  <2>7. pc' = "return" /\ exit' = 0
    BY <1>4 DEF Return
  <2>8. stream' \in 1 .. N + 1 /\ row' \in Nat
    BY <1>1, <1>2
  <2> QED
    BY <1>1, <1>2, <2>5, <2>6, <2>7, <2>8, Returning
<1>5. CASE stream <= Len(Dump) /\ pc' = "range" /\ UNCHANGED exit
  <2>1. stream \in 1 .. N
    BY <1>2, <1>3, <1>5
  <2>2. Yielded(stream, 0) = <<>> /\ CapabilityLine \o Upto(stream - 1) \in Seq(Places)
    BY <1>2, <2>1, LinesJoin
  <2>3. (CapabilityLine \o Upto(stream - 1)) \o <<>> = CapabilityLine \o Upto(stream - 1)
    BY <2>2, ConcatEmptySeq
  <2>4. row' = 0 /\ row' \in Nat
    BY <1>1, <1>2
  <2>5. UNCHANGED Lines
    BY <1>1 DEF Lines
  <2>6. Lines' = CapabilityLine \o Upto(stream - 1) \o Yielded(stream, row')
    BY <1>2, <2>2, <2>3, <2>4, <2>5, Zenon
  <2>7. row' <= Len(world.streams[stream].rows)
    BY <1>2, <2>1, <2>4, WorldTypes
  <2>8. \A r \in 1 .. row' : world.streams[stream].rows[r] # "unencodable"
    BY <2>4
  <2> QED
    BY <1>1, <1>2, <1>5, <2>1, <2>4, <2>6, <2>7, <2>8, Ranging
<1> QED
  BY <1>4, <1>5 DEF Begin

(* An iterator that ends the dump, all its lines out.                       *)
LEMMA Stops ==
  ASSUME CountersInv, Opened, NEW k \in 1 .. N, \A j \in 1 .. k - 1 : ~Ends(j), Ends(k),
         Printable(k) \in Seq(Places),
         Lines = CapabilityLine \o Upto(k - 1) \o Printable(k)
  PROVE  Lines = Expected /\ ~Whole
<1> DEFINE p == Printable(k)
<1>1. p \in Seq(Places) /\ p = p \o <<>> /\ <<>> \in Seq(Places)
  BY ConcatEmptySeq
<1>2. Lines \in Seq(Places)
  BY LinesType
<1> DEFINE l == Lines
<1>3. l = CapabilityLine \o Upto(k - 1) \o p
  BY Zenon
<1>4. Printable(k) = p \o <<>>
  BY <1>1, Zenon
<1> HIDE DEF p
<1>5. \E u \in Seq(Places) :
        /\ All = ((CapabilityLine \o Upto(k - 1) \o p) \o <<>>) \o u
        /\ Ends(k) => u = <<>>
  BY <1>1, <1>4, Ahead
<1>6. All = (l \o <<>>) \o <<>>
  BY <1>3, <1>5
<1>7. l \in Seq(Places)
  BY <1>2
<1> HIDE DEF l
<1>8. All = l
  BY <1>6, <1>7, ConcatEmptySeq
<1>9. Lines = Expected
  BY <1>8, AllOut DEF l
<1> QED
  BY <1>9 DEF Whole

LEMMA UnavailablePrints ==
  ASSUME PrintInv, Unavailable
  PROVE  PrintInv'
<1> DEFINE k == stream
           type == Dump[k].unavailable
           b == CapabilityLine \o Upto(k - 1)
           x == <<k, 0, type = "row_error">>
<1>1. /\ pc = "range" /\ world.streams[k].refused
      /\ stream' = k + 1 /\ UNCHANGED <<world, row>>
  BY DEF Unavailable
<1>2. /\ CountersInv /\ Opened /\ exit = None /\ k \in 1 .. N
      /\ out \in Seq(OutLines) /\ Len(out) <= world.room
      /\ \A j \in 1 .. k - 1 : ~Ends(j)
      /\ row = 0 /\ Lines = b \o Yielded(k, row)
  BY <1>1, Running
<1>3. type \in {"note", "unavailable"} /\ N \in Nat
  BY <1>1, <1>2, Dumped, WorldTypes
<1>4. Encode(Line(type, k, 0), "begin")
  <2>1. type # None
    BY <1>3, DumpAssumption
  <2> QED
    BY <2>1 DEF Unavailable
<1>5. Printable(k) = <<x>> /\ x \in Places /\ k \in Nat
  <2>0. \A n \in 1 .. N : world.streams[n].refused => Printable(n) = <<<<n, 0, FALSE>>>>
    BY <1>2, PrintableIs
  <2>3. k \in Nat
    BY <1>2, <1>3
  <2>4. Printable(k) = <<<<k, 0, FALSE>>>>
    BY <1>1, <1>2, <2>0
  <2>1. Printable(k) = <<<<k, 0, FALSE>>>> /\ k \in Nat
    BY <2>3, <2>4, Zenon
  <2>2. (type = "row_error") = FALSE
    BY <1>3
  <2> QED
    BY <2>1, <2>2 DEF Places
<1>6. ~Ends(k)
  BY <1>1 DEF Ends
<1>7. /\ b \in Seq(Places) /\ b \o Printable(k) = CapabilityLine \o Upto(k)
      /\ Yielded(k, 0) = <<>>
  BY <1>2, LinesJoin, Zenon
<1> HIDE DEF x
<1>8. Lines = b
  <2>1. b \o <<>> = b
    BY <1>7, ConcatEmptySeq
  <2> QED
    BY <1>2, <1>7, <2>1, Zenon
<1>9. PICK u \in Seq(Places) : All = (Lines \o <<x>>) \o u
  <2>1. <<x>> \in Seq(Places) /\ <<>> \in Seq(Places)
    BY <1>5
  <2>2. <<>> \o <<x>> = <<x>>
    BY <2>1, ConcatEmptySeq
  <2>3. Printable(k) = <<>> \o <<x>>
    BY <1>5, <2>2
  <2>4. \E u \in Seq(Places) :
          /\ All = ((CapabilityLine \o Upto(k - 1) \o <<>>) \o <<x>>) \o u
          /\ Ends(k) => u = <<>>
    BY <1>2, <2>1, <2>3, Ahead
  <2>5. CapabilityLine \o Upto(k - 1) \o <<>> = Lines
    BY <1>2, <1>7, Zenon
  <2> QED
    BY <2>4, <2>5
<1>10. \/ /\ pc' = "begin" /\ UNCHANGED exit
          /\ out' \in Seq(OutLines) /\ Len(out') <= world.room
          /\ Lines' = Lines \o <<x>>
       \/ /\ pc' = "return" /\ exit' = 1 /\ UNCHANGED out
          /\ Lines = Expected /\ ~Whole
  <2>1. type \in LineTypes \cup {"note", "unavailable"}
    BY <1>3
  <2>2. All = (Lines \o <<<<k, 0, type = "row_error">>>>) \o u
    BY <1>9 DEF x
  <2> HIDE DEF type
  <2>3. \/ /\ pc' = "begin" /\ UNCHANGED exit
           /\ out' \in Seq(OutLines) /\ Len(out') <= world.room
           /\ Lines' = Lines \o <<<<k, 0, type = "row_error">>>>
        \/ /\ pc' = "return" /\ exit' = 1 /\ UNCHANGED out
           /\ Lines = Expected /\ ~Whole
    BY <1>2, <1>4, <1>5, <2>1, <2>2, Prints
  <2> QED
    BY <2>3 DEF x
<1>11. stream' \in 1 .. N + 1 /\ row' \in Nat /\ row' = 0 /\ stream' - 1 = k
  BY <1>1, <1>2, <1>3
<1>12. CASE pc' = "return"
  BY <1>1, <1>2, <1>10, <1>11, <1>12, Returning
<1>13. CASE pc' = "begin"
  <2>1. Lines' = CapabilityLine \o Upto(k)
    BY <1>5, <1>7, <1>8, <1>10, <1>13, Zenon
  <2>2. Lines' = CapabilityLine \o Upto(stream' - 1)
    BY <1>11, <2>1
  <2>3. \A j \in 1 .. stream' - 1 : ~Ends(j)
    <3>1. \A j \in 1 .. k : j = k \/ j \in 1 .. k - 1
      BY <1>2, <1>3
    <3> QED
      BY <1>2, <1>6, <1>11, <3>1
  <2> QED
    BY <1>1, <1>2, <1>10, <1>11, <1>13, <2>2, <2>3, Beginning
<1> QED
  BY <1>10, <1>12, <1>13

LEMMA ItemPrints ==
  ASSUME PrintInv, Item
  PROVE  PrintInv'
<1> DEFINE k == stream
           m == row
           s == world.streams[k]
           b == CapabilityLine \o Upto(k - 1)
           x == Row(k, m + 1)
<1>1. /\ pc = "range" /\ ~s.refused /\ m < Len(s.rows)
      /\ UNCHANGED <<world, stream>> /\ row' = m + 1
  BY DEF Item
<1>2. /\ CountersInv /\ Opened /\ exit = None /\ k \in 1 .. N
      /\ out \in Seq(OutLines) /\ Len(out) <= world.room
      /\ \A j \in 1 .. k - 1 : ~Ends(j)
      /\ m \in 0 .. Len(s.rows)
      /\ \A r \in 1 .. m : s.rows[r] # "unencodable"
      /\ Lines = b \o Yielded(k, m)
  BY <1>1, Running
<1>3. /\ N \in Nat /\ Len(s.rows) \in Nat /\ k \in Nat /\ m + 1 \in Nat
      /\ m + 1 \in DOMAIN s.rows
  <2>1. N \in Nat
    BY <1>2, WorldTypes
  <2>2. Len(s.rows) \in Nat /\ DOMAIN s.rows = 1 .. Len(s.rows)
    BY <1>2, WorldTypes
  <2> QED
    BY <1>1, <1>2, <2>1, <2>2
<1>4. stream' \in 1 .. N + 1 /\ row' \in Nat
  BY <1>1, <1>2, <1>3
<1>5. /\ Yielded(k, m) \in Seq(Places)
      /\ s.rows[m + 1] = "unencodable" => Printable(k) = Yielded(k, m)
      /\ s.rows[m + 1] # "unencodable" =>
           /\ x \in Places
           /\ Yielded(k, m + 1) = Yielded(k, m) \o <<x>>
           /\ \E q \in Seq(Places) : Printable(k) = Yielded(k, m + 1) \o q
  BY <1>1, <1>2, NextRow
<1>6. CASE s.rows[m + 1] = "unencodable" /\ Return(1) /\ UNCHANGED out
  <2>1. Ends(k)
    BY <1>1, <1>3, <1>6 DEF Ends
  <2>2. Printable(k) \in Seq(Places) /\ Lines = b \o Printable(k)
    BY <1>2, <1>5, <1>6
  <2>3. Lines = Expected /\ ~Whole
    BY <1>2, <2>1, <2>2, Stops
  <2>4. pc' = "return" /\ exit' = 1
    BY <1>6 DEF Return
  <2> QED
    BY <1>1, <1>2, <1>4, <1>6, <2>3, <2>4, Returning
<1>7. ASSUME NEW type \in LineTypes \cup {"note", "unavailable"},
             (type = "row_error") = (s.rows[m + 1] = "RowError"),
             s.rows[m + 1] # "unencodable",
             Encode(Line(type, k, m + 1), "range")
      PROVE  PrintInv'
  <2>1. x = <<k, m + 1, type = "row_error">>
    BY <1>7 DEF Row
  <2>2. x \in Places /\ Yielded(k, m + 1) = Yielded(k, m) \o <<x>>
    BY <1>5, <1>7
  <2>3. b \o Yielded(k, m + 1) = Lines \o <<x>>
    <3> DEFINE y == Yielded(k, m)
               z == <<x>>
    <3>1. y \in Seq(Places) /\ z \in Seq(Places)
      BY <1>5, <2>2
    <3>2. \A f, g \in Seq(Places) : (b \o f) \o g = b \o (f \o g)
      BY <1>2, LinesJoin
    <3> HIDE DEF y, z, b, x
    <3>3. (b \o y) \o z = b \o (y \o z)
      BY <3>1, <3>2
    <3> QED
      BY <1>2, <2>2, <3>3, Zenon DEF y, z
  <2>4. PICK u \in Seq(Places) : All = (Lines \o <<x>>) \o u
    <3> DEFINE p == Yielded(k, m + 1)
               l == Lines \o <<x>>
    <3>1. p \in Seq(Places)
      <4>1. m + 1 \in 0 .. Len(s.rows) /\ \A r \in 1 .. m + 1 : s.rows[r] # "unencodable"
        BY <1>1, <1>2, <1>3, <1>7
      <4> QED
        BY <1>1, <1>2, <4>1, NextRow
    <3>2. PICK q \in Seq(Places) : Printable(k) = p \o q
      BY <1>5, <1>7
    <3> HIDE DEF p
    <3>3. PICK u \in Seq(Places) : All = ((b \o p) \o q) \o u
      BY <1>2, <3>1, <3>2, Ahead
    <3>4. b \o p = l
      BY <2>3, Zenon DEF p
    <3>5. l \in Seq(Places)
      <4>1. Lines \in Seq(Places) /\ <<x>> \in Seq(Places)
        BY <1>2, <2>2, LinesType
      <4> QED
        BY <4>1, ConcatType
    <3> HIDE DEF l
    <3>6. (l \o q) \o u = l \o (q \o u)
      BY <3>5, ConcatRegroups
    <3>7. q \o u \in Seq(Places)
      BY ConcatType
    <3>8. All = l \o (q \o u)
      BY <3>3, <3>4, <3>6, Zenon
    <3> QED
      BY <3>7, <3>8, Zenon DEF l
  <2> HIDE DEF x
  <2>5. \/ /\ pc' = "range" /\ UNCHANGED exit
           /\ out' \in Seq(OutLines) /\ Len(out') <= world.room
           /\ Lines' = Lines \o <<x>>
        \/ /\ pc' = "return" /\ exit' = 1 /\ UNCHANGED out
           /\ Lines = Expected /\ ~Whole
    <3>1. All = (Lines \o <<<<k, m + 1, type = "row_error">>>>) \o u
      BY <2>1, <2>4
    <3>2. \/ /\ pc' = "range" /\ UNCHANGED exit
             /\ out' \in Seq(OutLines) /\ Len(out') <= world.room
             /\ Lines' = Lines \o <<<<k, m + 1, type = "row_error">>>>
          \/ /\ pc' = "return" /\ exit' = 1 /\ UNCHANGED out
             /\ Lines = Expected /\ ~Whole
      BY <1>2, <1>3, <1>7, <3>1, Prints
    <3> QED
      BY <2>1, <3>2
  <2>6. CASE pc' = "return"
    BY <1>1, <1>2, <1>4, <2>5, <2>6, Returning
  <2>7. CASE pc' = "range"
    <3>1. Lines' = CapabilityLine \o Upto(stream - 1) \o Yielded(stream, row')
      BY <1>1, <2>3, <2>5, <2>7, Zenon
    <3>2. /\ row' <= Len(world.streams[stream].rows)
          /\ \A r \in 1 .. row' : world.streams[stream].rows[r] # "unencodable"
      BY <1>1, <1>2, <1>3, <1>7
    <3>3. world.streams[stream].refused => row' = 0
      BY <1>1
    <3>4. exit' = None
      BY <1>2, <2>5, <2>7
    <3> QED
      BY <1>1, <1>2, <1>4, <2>5, <2>7, <3>1, <3>2, <3>3, <3>4, Ranging
  <2> QED
    BY <2>5, <2>6, <2>7
<1>8. CASE s.rows[m + 1] = "record" /\ Encode(Line(Dump[k].record, k, m + 1), "range")
  <2> DEFINE t == Dump[k].record
  <2>1. t \in LineTypes \cup {"note", "unavailable"} /\ t # "row_error"
    BY <1>2, Dumped
  <2>2. Encode(Line(t, k, m + 1), "range")
    BY <1>8
  <2> HIDE DEF t
  <2> QED
    BY <1>7, <1>8, <2>1, <2>2
<1>9. CASE s.rows[m + 1] = "RowError" /\ Encode(Line("row_error", k, m + 1), "range")
  <2>1. "row_error" \in LineTypes
    BY DEF LineTypes
  <2> QED
    BY <1>7, <1>9, <2>1
<1> QED
  <2>1. \/ s.rows[m + 1] = "record" /\ Encode(Line(Dump[k].record, k, m + 1), "range")
        \/ s.rows[m + 1] = "unencodable" /\ Return(1) /\ UNCHANGED out
        \/ s.rows[m + 1] = "RowError" /\ Encode(Line("row_error", k, m + 1), "range")
    BY Zenon DEF Item, RowError
  <2> QED
    BY <1>6, <1>8, <1>9, <2>1

LEMMA EndOfItemsPrints ==
  ASSUME PrintInv, EndOfItems
  PROVE  PrintInv'
<1> DEFINE k == stream
           s == world.streams[k]
           b == CapabilityLine \o Upto(k - 1)
<1>1. /\ pc = "range" /\ ~s.refused /\ row = Len(s.rows)
      /\ UNCHANGED <<world, out>> /\ stream' = k + 1 /\ row' = 0
  BY DEF EndOfItems
<1>2. /\ CountersInv /\ Opened /\ exit = None /\ k \in 1 .. N
      /\ out \in Seq(OutLines) /\ Len(out) <= world.room
      /\ \A j \in 1 .. k - 1 : ~Ends(j)
      /\ row \in 0 .. Len(s.rows)
      /\ \A r \in 1 .. row : s.rows[r] # "unencodable"
      /\ Lines = b \o Yielded(k, row)
  BY <1>1, Running
<1>3. Yielded(k, row) \in Seq(Places) /\ Printable(k) = Yielded(k, row)
  BY <1>1, <1>2, NextRow
<1>4. Lines = b \o Printable(k) /\ Printable(k) \in Seq(Places)
  BY <1>2, <1>3
<1>5. N \in Nat /\ DOMAIN s.rows = 1 .. Len(s.rows)
  BY <1>2, WorldTypes
<1>6. stream' \in 1 .. N + 1 /\ row' \in Nat /\ stream' - 1 = k
  BY <1>1, <1>2, <1>5
<1>7. CASE s.fails /\ Return(1)
  <2>1. Ends(k)
    BY <1>1, <1>7 DEF Ends
  <2>2. Lines = Expected /\ ~Whole
    BY <1>2, <1>4, <2>1, Stops
  <2>3. pc' = "return" /\ exit' = 1
    BY <1>7 DEF Return
  <2> QED
    BY <1>1, <1>2, <1>6, <2>2, <2>3, Returning
<1>8. CASE ~s.fails /\ pc' = "begin" /\ UNCHANGED exit
  <2>1. ~Ends(k)
    BY <1>1, <1>2, <1>5, <1>8 DEF Ends
  <2>2. \A j \in 1 .. stream' - 1 : ~Ends(j)
    <3>1. \A j \in 1 .. k : j = k \/ j \in 1 .. k - 1
      BY <1>2, <1>5
    <3> QED
      BY <1>2, <1>6, <2>1, <3>1
  <2>3. UNCHANGED Lines
    BY <1>1 DEF Lines
  <2>4. Lines = CapabilityLine \o Upto(k)
    <3>1. b \o Printable(k) = CapabilityLine \o Upto(k)
      BY <1>2, LinesJoin, Zenon
    <3> QED
      BY <1>4, <3>1, Zenon
  <2>5. Lines' = CapabilityLine \o Upto(stream' - 1)
    BY <1>6, <2>3, <2>4
  <2> QED
    BY <1>1, <1>2, <1>6, <1>8, <2>2, <2>5, Beginning
<1> QED
  BY <1>7, <1>8 DEF EndOfItems, StreamError

(* The closes of the deferred calls print nothing.                           *)
LEMMA ClosingPrints ==
  ASSUME PrintInv, UNCHANGED <<world, stream, row, out, exit>>, pc = "return",
         pc' \in {"return", "exited"}
  PROVE  PrintInv'
<1>1. UNCHANGED <<N, Expected, Whole>>
  BY WorldStays
<1>2. UNCHANGED Lines
  BY DEF Lines
<1>3. CountersInv'
  BY <1>1 DEF CountersInv
<1>4. RunningInv'
  BY DEF RunningInv
<1>5. ReturnedInv'
  BY <1>1, <1>2 DEF ReturnedInv
<1> QED
  BY <1>3, <1>4, <1>5

(* Wherever the dump is killed, what is out begins what was to be printed.     *)
LEMMA AlwaysBegins ==
  ASSUME PrintInv
  PROVE  IsPrefix(Lines, Expected) /\ exit \in {None, 0, 1, 2}
<1>1. CountersInv
  OBVIOUS
<1>2. Lines \in Seq(Places) /\ Len(Lines) <= world.room /\ world.room \in Nat
  BY <1>1, LinesType, WorldTypes DEF CountersInv
<1>3. ASSUME NEW l, l \in Seq(Places), NEW u \in Seq(Places), Opened, Len(l) <= world.room,
             All = l \o u
      PROVE  IsPrefix(l, Expected)
  <2>1. IsPrefix(l, Cut(l \o u, world.room))
    BY <1>2, <1>3, CutBegins
  <2> QED
    BY <1>1, <1>3, <2>1, ExpectedIs
<1>4. CASE pc \in {"main", "open", "capability"}
  <2>1. Lines = <<>> /\ exit = None
    BY <1>4 DEF RunningInv, Lines
  <2>2. Expected \in Seq(Places)
    <3>1. CASE Opened
      <4>1. LastRanged \in 0 .. N /\ \A n \in 0 .. N : Upto(n) \in Seq(Places)
        BY <1>1, LastRangedIs, UptoSteps
      <4>2. All \in Seq(Places)
        BY <4>1, CapabilityFirst DEF All
      <4>3. Cut(All, world.room) \in Seq(Places)
        BY <1>2, <4>2 DEF Cut
      <4> QED
        BY <1>1, <3>1, <4>3, ExpectedIs
    <3>2. CASE ~Opened
      <4>1. Expected = <<>>
        BY <1>1, <3>2, ExpectedIs
      <4> QED
        BY <4>1
    <3> QED
      BY <3>1, <3>2
  <2>3. IsPrefix(<<>>, Expected)
    <3> DEFINE e == Expected
    <3>1. e \in Seq(Places)
      BY <2>2
    <3> HIDE DEF e
    <3>2. Len(<<>>) <= Len(e) /\ SubSeq(<<>>, 1, Len(<<>>)) = SubSeq(e, 1, Len(<<>>))
      BY <3>1
    <3> QED
      BY <3>2 DEF IsPrefix, e
  <2> QED
    BY <2>1, <2>3
<1>5. CASE pc = "begin"
  <2>1. /\ Opened /\ exit = None /\ stream \in 1 .. N + 1
        /\ \A j \in 1 .. stream - 1 : ~Ends(j)
        /\ Lines = CapabilityLine \o Upto(stream - 1)
    BY <1>5, Running
  <2>2. N \in Nat /\ \A n \in 0 .. N : Upto(n) \in Seq(Places)
    BY <1>1, WorldTypes, UptoSteps
  <2>3. LastRanged \in stream - 1 .. N
    <3>1. CASE \E j \in 1 .. N : Ends(j)
      <4>1. LastRanged \in 1 .. N /\ Ends(LastRanged)
        BY <1>1, <3>1, LastRangedIs
      <4>2. ~(LastRanged <= stream - 1)
        BY <2>1, <2>2, <4>1
      <4> QED
        BY <2>1, <2>2, <4>1, <4>2
    <3>2. CASE ~ \E j \in 1 .. N : Ends(j)
      <4>1. LastRanged = N
        BY <1>1, <3>2, LastRangedIs
      <4> QED
        BY <2>1, <2>2, <4>1
    <3> QED
      BY <3>1, <3>2
  <2> DEFINE a == stream - 1
             c == CapabilityLine
  <2>4. a \in 0 .. N /\ LastRanged \in a .. N
    BY <2>1, <2>2, <2>3
  <2>5. Lines = c \o Upto(a)
    BY <2>1
  <2> HIDE DEF a
  <2>6. PICK u \in Seq(Places) : Upto(LastRanged) = Upto(a) \o u
    BY <1>1, <2>4, UptoGrows
  <2> DEFINE d == Upto(a)
  <2>7. c \in Seq(Places) /\ d \in Seq(Places)
    BY <2>2, <2>4, CapabilityFirst
  <2> HIDE DEF c, d
  <2>8. (c \o d) \o u = c \o (d \o u)
    BY <2>7, ConcatRegroups
  <2>9. All = Lines \o u
    BY <2>5, <2>6, <2>8, Zenon DEF All, c, d
  <2> QED
    BY <1>2, <1>3, <2>1, <2>9
<1>6. CASE pc = "range"
  <2> DEFINE k == stream
             p == Yielded(k, row)
  <2>1. /\ Opened /\ exit = None /\ k \in 1 .. N
        /\ \A j \in 1 .. k - 1 : ~Ends(j)
        /\ row \in 0 .. Len(world.streams[k].rows)
        /\ world.streams[k].refused => row = 0
        /\ \A r \in 1 .. row : world.streams[k].rows[r] # "unencodable"
        /\ Lines = CapabilityLine \o Upto(k - 1) \o p
    BY <1>6, Running
  <2>2. p \in Seq(Places) /\ \E q \in Seq(Places) : Printable(k) = p \o q
    <3>0. Printable(k) \in Seq(Places)
      BY <1>1, <2>1, PrintableIs
    <3>1. CASE world.streams[k].refused
      <4>1. p = <<>> /\ <<>> \in Seq(Places)
        BY <1>1, <2>1, <3>1, LinesJoin
      <4>2. Printable(k) = <<>> \o Printable(k)
        BY <3>0, ConcatEmptySeq
      <4> HIDE DEF p
      <4> QED
        BY <3>0, <4>1, <4>2
    <3>2. CASE ~world.streams[k].refused
      <4>0. p \in Seq(Places)
        BY <1>1, <2>1, <3>2, NextRow
      <4>1. CASE Printable(k) = p
        <5> HIDE DEF p
        <5>1. p = p \o <<>> /\ <<>> \in Seq(Places)
          BY <4>0, ConcatEmptySeq
        <5> QED
          BY <4>0, <4>1, <5>1
      <4>2. CASE Printable(k) # p
        <5> DEFINE x == <<Row(k, row + 1)>>
        <5>1. row < Len(world.streams[k].rows) /\ world.streams[k].rows[row + 1] # "unencodable"
          <6>1. Len(world.streams[k].rows) \in Nat
            BY <1>1, <2>1, WorldTypes
          <6>2. row # Len(world.streams[k].rows)
            BY <1>1, <2>1, <3>2, <4>2, NextRow
          <6>3. row < Len(world.streams[k].rows)
            BY <2>1, <6>1, <6>2
          <6> QED
            BY <1>1, <2>1, <3>2, <4>2, <6>3, NextRow
        <5>2. /\ Row(k, row + 1) \in Places
              /\ Yielded(k, row + 1) = p \o x
              /\ \E q \in Seq(Places) : Printable(k) = Yielded(k, row + 1) \o q
          BY <1>1, <2>1, <3>2, <5>1, NextRow
        <5>3. x \in Seq(Places)
          BY <5>2
        <5> HIDE DEF p, x
        <5>4. PICK q \in Seq(Places) : Printable(k) = (p \o x) \o q
          BY <5>2
        <5>5. (p \o x) \o q = p \o (x \o q)
          BY <4>0, <5>3, ConcatRegroups
        <5>6. x \o q \in Seq(Places)
          BY <5>3, ConcatType
        <5> QED
          BY <4>0, <5>4, <5>5, <5>6, Zenon
      <4> QED
        BY <4>1, <4>2
    <3> QED
      BY <3>1, <3>2
  <2>3. PICK q \in Seq(Places) : Printable(k) = p \o q
    BY <2>2
  <2> HIDE DEF p
  <2> DEFINE l == CapabilityLine \o Upto(k - 1) \o p
  <2>4. l = Lines
    BY <2>1, Zenon
  <2>5. PICK u \in Seq(Places) : All = (l \o q) \o u
    BY <1>1, <2>1, <2>2, <2>3, Ahead
  <2> HIDE DEF l
  <2>6. l \in Seq(Places)
    BY <1>2, <2>4
  <2>7. (l \o q) \o u = l \o (q \o u)
    BY <2>6, ConcatRegroups
  <2>8. q \o u \in Seq(Places)
    BY ConcatType
  <2> DEFINE v == q \o u
  <2>9. v \in Seq(Places) /\ All = l \o v
    BY <2>5, <2>7, <2>8, Zenon
  <2> HIDE DEF v
  <2> QED
    BY <1>2, <1>3, <2>1, <2>4, <2>6, <2>9
<1>7. CASE pc \in {"return", "exited"}
  <2>1. Lines = Expected /\ exit \in {0, 1, 2}
    BY <1>7 DEF ReturnedInv
  <2> QED
    BY <1>2, <2>1 DEF IsPrefix
<1>8. CASE pc = "killed"
  BY <1>8 DEF ReturnedInv
<1>9. pc \in {"main", "open", "capability", "begin", "range", "return", "exited", "killed"}
  BY <1>1 DEF CountersInv
<1> QED
  BY <1>4, <1>5, <1>6, <1>7, <1>8, <1>9

LEMMA KilledPrints ==
  ASSUME PrintInv, Killed
  PROVE  PrintInv'
<1>1. pc' = "killed" /\ UNCHANGED <<world, stream, row, out, exit>>
  BY DEF Killed
<1>2. UNCHANGED <<N, Expected>>
  BY <1>1, WorldStays
<1>3. UNCHANGED Lines
  BY <1>1 DEF Lines
<1>4. CountersInv'
  BY <1>1, <1>2 DEF CountersInv
<1>5. RunningInv'
  BY <1>1 DEF RunningInv
<1>6. ReturnedInv'
  BY <1>1, <1>2, <1>3, AlwaysBegins DEF ReturnedInv
<1> QED
  BY <1>4, <1>5, <1>6

LEMMA PrintInductive == PrintInv /\ [Next]_vars => PrintInv'
<1> SUFFICES ASSUME PrintInv, [Next]_vars PROVE PrintInv'
  OBVIOUS
<1>1. CASE Deferred
  BY <1>1, ClosingPrints DEF Deferred
<1>2. CASE Exit
  BY <1>2, ClosingPrints DEF Exit
<1>3. CASE UNCHANGED vars
  <2>1. UNCHANGED <<world, pc, stream, row, out, exit>>
    BY <1>3 DEF vars
  <2>2. /\ UNCHANGED <<N, Opened, Expected, Whole>>
        /\ (CapabilityLine \o Upto(stream - 1))' = CapabilityLine \o Upto(stream - 1)
        /\ Yielded(stream, row)' = Yielded(stream, row)
        /\ (\A j \in 1 .. stream - 1 : ~Ends(j))' <=> \A j \in 1 .. stream - 1 : ~Ends(j)
    BY <2>1, WorldStays
  <2>3. UNCHANGED <<Lines, Seen>>
    BY <2>1, <2>2 DEF Lines, Seen
  <2>4. CountersInv'
    BY <2>1, <2>2 DEF CountersInv
  <2>5. RunningInv'
    BY <2>1, <2>2, <2>3 DEF RunningInv
  <2>6. ReturnedInv'
    BY <2>1, <2>2, <2>3 DEF ReturnedInv
  <2> QED
    BY <2>4, <2>5, <2>6
<1> QED
  BY <1>1, <1>2, <1>3, MainPrints, OpenPrints, CapabilityPrints, BeginPrints,
     UnavailablePrints, ItemPrints, EndOfItemsPrints, KilledPrints DEF Next, Work

LEMMA PrintAlways == Spec => []PrintInv
  BY PrintInitially, PrintInductive, PTL DEF Spec

(* Wherever it is, the dump knows which iterator it is ranging over, every     *)
(* line it prints has a type, and a process that exits has a code to exit with. *)
THEOREM Typing == Spec => []TypeOK
<1>1. PrintInv /\ IInv => TypeOK
  <2> SUFFICES ASSUME PrintInv, IInv PROVE TypeOK
    OBVIOUS
  <2>1. /\ pc \in {"main", "open", "capability", "begin", "range", "return", "exited", "killed"}
        /\ stream \in 1 .. Len(world.streams) + 1 /\ row \in Nat
        /\ out \in Seq(OutLines)
    BY DEF CountersInv, N
  <2>2. resources \subseteq {"fs", "copies", "handle", "cursor"}
    OBVIOUS
  <2>3. exit \in {None, 0, 1, 2}
    BY AlwaysBegins
  <2>4. pc = "exited" => exit # None
    BY DumpAssumption DEF ReturnedInv
  <2>5. ASSUME NEW k \in DOMAIN out PROVE out[k].type # None
    <3>1. out[k] \in OutLines
      BY <2>1
    <3> QED
      BY <3>1, DumpAssumption DEF OutLines
  <2> QED
    BY <2>1, <2>2, <2>3, <2>4, <2>5 DEF TypeOK
<1>2. Spec => []IInv
  BY Initially, Inductive, PTL DEF Spec
<1> QED
  BY <1>1, <1>2, PrintAlways, PTL

(* The dump prints what the iterators yield, in their order, and nothing else: *)
(* at every step, and where a signal stops it, a beginning of it; if it exits,  *)
(* all of it up to the first failure, of a stream, a record or the output.     *)
THEOREM PrintsTheStreams == Spec => []OutputIsTheStreams
<1>1. PrintInv => OutputIsTheStreams
  BY AlwaysBegins DEF OutputIsTheStreams, ReturnedInv
<1> QED
  BY <1>1, PrintAlways, PTL

(* A dump that exits with code 0 has printed everything the backup's iterators  *)
(* yield, none of which failed; every other dump that exits says that it did    *)
(* not.                                                                    *)
THEOREM ExitCodesTell == Spec => []ExitCodeTells
<1>1. PrintInv => ExitCodeTells
  <2> SUFFICES ASSUME PrintInv, pc = "exited"
               PROVE  exit = 0 <=> /\ Opened
                                   /\ \A k \in DOMAIN world.streams : ~Ends(k)
                                   /\ Len(FlattenSeq([k \in DOMAIN world.streams |-> Printable(k)]))
                                        < world.room
    BY Zenon DEF ExitCodeTells
  <2>1. exit = 0 <=> Whole
    BY DEF ReturnedInv
  <2>2. DOMAIN world.streams = 1 .. N
    BY WorldTypes
  <2>3. FlattenSeq([k \in DOMAIN world.streams |-> Printable(k)]) = Upto(N)
    BY <2>2 DEF Upto
  <2> QED
    BY <2>1, <2>2, <2>3 DEF Whole
<1> QED
  BY <1>1, PrintAlways, PTL
=============================================================================
