-------------------------- MODULE ChatSafariProofs --------------------------
(***************************************************************************)
(* Proofs about the readers that count on Cocoa's dates.                    *)
(*                                                                         *)
(* About Cocoa, for every value of the constants; about ChatPaging, for      *)
(* conversations of any finite number of rows, any dates and defects, and    *)
(* pages of any limits; about Safari, for databases with any columns.       *)
(***************************************************************************)
EXTENDS ChatPaging, Safari, Lemmas

(***************************************************************************)
(* Cocoa and ChatPaging                                                    *)
(***************************************************************************)

(* Division by a positive number rounds down and leaves a remainder.         *)
LEMMA DivMod ==
  ASSUME NEW n \in Int, NEW d \in Nat \ {0}
  PROVE  /\ n \div d \in Int /\ n % d \in 0 .. d - 1
         /\ n = d * (n \div d) + (n % d)
OBVIOUS

(* A wrapped number is off by a multiple of the range of an int64.           *)
LEMMA WrapIsCongruent ==
  ASSUME NEW n \in Int
  PROVE  /\ Wrap(n) \in Int64
         /\ \E k \in Int : Wrap(n) = n + k * (2 * HalfRange)
<1> DEFINE d == 2 * HalfRange
           q == (n + HalfRange) \div d
           m == (n + HalfRange) % d
<1>1. d \in Nat \ {0} /\ n + HalfRange \in Int  BY CocoaAssumption
<1>2. q \in Int /\ m \in 0 .. d - 1 /\ n + HalfRange = d * q + m  BY <1>1, DivMod
<1>3. Wrap(n) = m - HalfRange  BY DEF Wrap
<1> HIDE DEF q, m
<1>4. m - HalfRange = n + (-q) * d  BY <1>1, <1>2, CocoaAssumption
<1>5. Wrap(n) \in Int64  BY <1>2, <1>3, CocoaAssumption DEF Int64
<1>6. -q \in Int  BY <1>2
<1> QED  BY <1>3, <1>4, <1>5, <1>6

(* Two numbers of an int64 that differ by a multiple of its range are one.    *)
LEMMA CongruentIsEqual ==
  ASSUME NEW a \in Int64, NEW b \in Int64, NEW k \in Int,
         a = b + k * (2 * HalfRange)
  PROVE  a = b
<1>1. HalfRange \in Nat \ {0}  BY CocoaAssumption
<1>2. CASE k = 0  BY <1>1, <1>2 DEF Int64
<1>3. CASE k >= 1
  <2>1. k * (2 * HalfRange) >= 2 * HalfRange  BY <1>1, <1>3
  <2> QED  BY <1>1, <2>1 DEF Int64
<1>4. CASE k <= -1
  <2>1. k * (2 * HalfRange) <= -(2 * HalfRange)  BY <1>1, <1>4
  <2> QED  BY <1>1, <2>1 DEF Int64
<1> QED  BY <1>2, <1>3, <1>4

(* A message's date, as a time.Time and back in a cursor, is the stored date, *)
(* whatever the date: the products that overflow on the way wrap back.        *)
THEOREM CursorRoundTrip ==
  ASSUME NEW n \in Int64
  PROVE  ToNanoseconds(FromNanoseconds(n)) = n
<1> DEFINE P == PerSecond
           M == 2 * HalfRange
           q == n \div P
           r == n % P
           sec == Wrap(UnixDelta + q)
<1>1. /\ P \in Nat \ {0} /\ HalfRange \in Nat \ {0} /\ UnixDelta \in Int
      /\ n \in Int /\ M \in Int
  BY CocoaAssumption DEF Int64
<1>2. q \in Int /\ r \in Int /\ n = P * q + r  BY <1>1, DivMod
<1>3. /\ FromNanoseconds(n).sec = sec /\ FromNanoseconds(n).nsec = r
  BY DEF FromNanoseconds, Unix
<1> HIDE DEF P, M, q, r
<1>4. PICK i \in Int : sec = UnixDelta + q + i * M
  <2>1. UnixDelta + q \in Int  BY <1>1, <1>2
  <2> QED  BY <2>1, WrapIsCongruent DEF M
<1>5. sec \in Int /\ sec * P \in Int /\ UnixDelta * P \in Int
  BY <1>1, <1>2, <1>4
<1> DEFINE a == Wrap(sec * P)
           b == Wrap(UnixDelta * P)
           c == Wrap(a - b)
           e == Wrap(c + r)
<1>6. ToNanoseconds(FromNanoseconds(n)) = e
  BY <1>3 DEF ToNanoseconds, P
<1> HIDE DEF sec
<1>7. PICK j \in Int : a = sec * P + j * M  BY <1>5, WrapIsCongruent DEF M
<1>8. PICK k \in Int : b = UnixDelta * P + k * M  BY <1>5, WrapIsCongruent DEF M
<1>9. a \in Int /\ b \in Int /\ a - b \in Int  BY <1>1, <1>5, <1>7, <1>8
<1> HIDE DEF a, b
<1>10. PICK l \in Int : c = a - b + l * M  BY <1>9, WrapIsCongruent DEF M
<1>11. c \in Int /\ c + r \in Int  BY <1>1, <1>2, <1>9, <1>10
<1> HIDE DEF c
<1>12. PICK m \in Int : e = c + r + m * M  BY <1>11, WrapIsCongruent DEF M
<1>13. e \in Int64  BY <1>11, WrapIsCongruent
<1> HIDE DEF e
<1>14. sec * P = UnixDelta * P + q * P + (i * P) * M
  BY <1>1, <1>2, <1>4
<1>15. e = n + (i * P + j - k + l + m) * M
  <2>1. e = UnixDelta * P + q * P + (i * P) * M + j * M - UnixDelta * P - k * M + l * M + r + m * M
    BY <1>1, <1>2, <1>5, <1>7, <1>8, <1>9, <1>10, <1>11, <1>12, <1>14
  <2> QED  BY <2>1, <1>1, <1>2, <1>5
<1>16. i * P + j - k + l + m \in Int  BY <1>1
<1>17. e = n  BY <1>13, <1>15, <1>16, CongruentIsEqual DEF M
<1> QED  BY <1>6, <1>17

(* An int64 wraps to itself.                                               *)
LEMMA WrapFits ==
  ASSUME NEW n \in Int64
  PROVE  Wrap(n) = n
<1>1. n \in Int  BY DEF Int64
<1>2. PICK k \in Int : Wrap(n) = n + k * (2 * HalfRange)  BY <1>1, WrapIsCongruent
<1>3. Wrap(n) \in Int64  BY <1>1, WrapIsCongruent
<1> QED  BY <1>2, <1>3, CongruentIsEqual

(* int64(num / den) is off by less than one, towards zero.                  *)
LEMMA TruncatedNear ==
  ASSUME NEW num \in Int, NEW den \in Nat \ {0}
  PROVE  LET off == num - Truncated(num, den) * den IN
         /\ Truncated(num, den) \in Int
         /\ -den < off /\ off < den
         /\ num >= 0 => off >= 0
         /\ num < 0 => off <= 0
<1>1. CASE num >= 0
  <2>1. Truncated(num, den) = num \div den  BY <1>1 DEF Truncated
  <2>2. /\ num \div den \in Int /\ num % den \in 0 .. den - 1
        /\ num = den * (num \div den) + (num % den)  BY DivMod
  <2>3. num - (num \div den) * den = num % den  BY <2>2
  <2> QED  BY <1>1, <2>1, <2>2, <2>3
<1>2. CASE num < 0
  <2> DEFINE q == (-num) \div den
             r == (-num) % den
  <2>1. Truncated(num, den) = -q  BY <1>2 DEF Truncated
  <2> -num \in Int  OBVIOUS
  <2>2. q \in Int /\ r \in 0 .. den - 1 /\ -num = den * q + r  BY DivMod
  <2> HIDE DEF q, r
  <2>3. num - (-q) * den = -r  BY <2>2
  <2> QED  BY <1>2, <2>1, <2>2, <2>3
<1> QED  BY <1>1, <1>2

(* time.Unix of at most a second's nanoseconds, of either sign, is a time      *)
(* with the same count of them.                                            *)
LEMMA UnixNormalises ==
  ASSUME NEW sec \in Int, NEW nsec \in Int,
         -PerSecond < nsec, nsec < PerSecond,
         sec \in Int64, sec - 1 \in Int64
  PROVE  /\ Unix(sec, nsec) \in Times
         /\ Unix(sec, nsec).sec * PerSecond + Unix(sec, nsec).nsec = sec * PerSecond + nsec
<1> DEFINE q == nsec \div PerSecond
           r == nsec % PerSecond
<1>1. PerSecond \in Nat \ {0}  BY CocoaAssumption
<1>2. q \in Int /\ r \in 0 .. PerSecond - 1 /\ nsec = PerSecond * q + r  BY <1>1, DivMod
<1>3. Unix(sec, nsec) = [sec |-> Wrap(sec + q), nsec |-> r]  BY DEF Unix
<1> HIDE DEF q, r
<1>4. q \in {-1, 0}
  <2>1. CASE q >= 1
    <3>1. PerSecond * q >= PerSecond  BY <1>1, <1>2, <2>1
    <3> QED  BY <1>1, <1>2, <3>1
  <2>2. CASE q <= -2
    <3>1. PerSecond * q <= -(2 * PerSecond)  BY <1>1, <1>2, <2>2
    <3> QED  BY <1>1, <1>2, <3>1
  <2> QED  BY <1>2, <2>1, <2>2
<1>5. sec + q \in Int64  BY <1>4
<1>6. Wrap(sec + q) = sec + q  BY <1>5, WrapFits
<1>7. (sec + q) * PerSecond + r = sec * PerSecond + nsec  BY <1>1, <1>2
<1> QED  BY <1>2, <1>3, <1>5, <1>6, <1>7 DEF Times

(* The part of a second that int64 drops, in nanoseconds, is less than a      *)
(* second and within one of what it stands for.                            *)
LEMMA FractionNear ==
  ASSUME NEW num \in Int, NEW den \in Nat \ {0}, NEW sec \in Int,
         -den < num - sec * den, num - sec * den < den
  PROVE  LET nsec == Truncated((num - sec * den) * PerSecond, den) IN
         /\ nsec \in Int /\ -PerSecond < nsec /\ nsec < PerSecond
         /\ -den < num * PerSecond - (sec * PerSecond + nsec) * den
         /\ num * PerSecond - (sec * PerSecond + nsec) * den < den
<1> DEFINE f == num - sec * den
           P == PerSecond
           nsec == Truncated(f * P, den)
<1>1. P \in Nat \ {0} /\ f \in Int /\ f * P \in Int /\ sec * den \in Int  BY CocoaAssumption
<1>2. /\ nsec \in Int /\ -den < f * P - nsec * den /\ f * P - nsec * den < den
      /\ f * P >= 0 => f * P - nsec * den >= 0
      /\ f * P < 0 => f * P - nsec * den <= 0
  BY <1>1, TruncatedNear
<1>3. f * P = num * P - sec * den * P  BY <1>1
<1>4. -den < f /\ f < den  OBVIOUS
<1> HIDE DEF f, nsec
<1>5. f * P <= (den - 1) * P /\ -((den - 1) * P) <= f * P
  <2>1. f <= den - 1 /\ -(den - 1) <= f  BY <1>1, <1>4
  <2> QED  BY <1>1, <2>1
<1>6. (den - 1) * P = P * den - P  BY <1>1
<1>7. ASSUME f >= 0 PROVE -P < nsec /\ nsec < P
  <2>1. f * P >= 0  BY <1>1, <1>7
  <2>2. f * P - nsec * den >= 0  BY <1>2, <2>1
  <2>3. nsec < P
    <3>1. SUFFICES ASSUME nsec >= P PROVE FALSE  BY <1>1, <1>2
    <3>2. nsec * den >= P * den  BY <1>1, <1>2, <3>1
    <3> QED  BY <1>1, <1>2, <1>5, <1>6, <2>2, <3>2
  <2>4. -P < nsec
    <3>1. SUFFICES ASSUME nsec <= -1 PROVE FALSE  BY <1>1, <1>2
    <3>2. nsec * den <= -den  BY <1>1, <1>2, <3>1
    <3> QED  BY <1>1, <1>2, <2>1, <3>2
  <2> QED  BY <2>3, <2>4
<1>8. ASSUME f < 0 PROVE -P < nsec /\ nsec < P
  <2>1. f * P < 0  BY <1>1, <1>8
  <2>2. f * P - nsec * den <= 0  BY <1>2, <2>1
  <2>3. -P < nsec
    <3>1. SUFFICES ASSUME nsec <= -P PROVE FALSE  BY <1>1, <1>2
    <3>2. nsec * den <= (-P) * den  BY <1>1, <1>2, <3>1
    <3>3. (-P) * den = -(P * den)  BY <1>1
    <3> QED  BY <1>1, <1>2, <1>5, <1>6, <2>2, <3>2, <3>3
  <2>4. nsec < P
    <3>1. SUFFICES ASSUME nsec >= 1 PROVE FALSE  BY <1>1, <1>2
    <3>2. nsec * den >= den  BY <1>1, <1>2, <3>1
    <3> QED  BY <1>1, <1>2, <2>1, <3>2
  <2> QED  BY <2>3, <2>4
<1>9. -P < nsec /\ nsec < P  BY <1>1, <1>7, <1>8
<1>10. num * P - (sec * P + nsec) * den = f * P - nsec * den  BY <1>1, <1>2, <1>3
<1> QED  BY <1>2, <1>9, <1>10 DEF f, nsec, P

(* A date with a fraction, before 2001 or after it, is a proper time.Time      *)
(* within a nanosecond of the stored number num / den, whatever the number:     *)
(* neither the truncation towards zero nor the negative nanoseconds that it     *)
(* leaves before 2001 move it by a second.                                 *)
THEOREM FractionalSecondsNear ==
  ASSUME NEW num \in Int, NEW den \in Nat \ {0},
         Truncated(num, den) + UnixDelta \in Int64,
         Truncated(num, den) + UnixDelta - 1 \in Int64
  PROVE  LET t == FromSecondsFloat(num, den)
             nanoseconds == (t.sec - UnixDelta) * PerSecond + t.nsec
         IN  /\ t \in Times
             /\ -den < num * PerSecond - nanoseconds * den
             /\ num * PerSecond - nanoseconds * den < den
<1> DEFINE sec == Truncated(num, den)
           nsec == Truncated((num - sec * den) * PerSecond, den)
           t == FromSecondsFloat(num, den)
<1>1. /\ sec \in Int /\ UnixDelta \in Int /\ PerSecond \in Nat \ {0}
      /\ -den < num - sec * den /\ num - sec * den < den
  BY TruncatedNear, CocoaAssumption
<1>2. t = Unix(Wrap(sec + UnixDelta), nsec)  BY DEF FromSecondsFloat
<1>3. Wrap(sec + UnixDelta) = sec + UnixDelta  BY WrapFits
<1> HIDE DEF sec
<1>4. /\ nsec \in Int /\ -PerSecond < nsec /\ nsec < PerSecond
      /\ -den < num * PerSecond - (sec * PerSecond + nsec) * den
      /\ num * PerSecond - (sec * PerSecond + nsec) * den < den
  BY <1>1, FractionNear
<1> HIDE DEF nsec, t
<1>5. sec + UnixDelta \in Int64 /\ sec + UnixDelta - 1 \in Int64  BY DEF sec
<1>6. sec + UnixDelta \in Int  BY <1>1
<1>7. /\ t \in Times
      /\ t.sec * PerSecond + t.nsec = (sec + UnixDelta) * PerSecond + nsec
  <2>1. t = Unix(sec + UnixDelta, nsec)  BY <1>2, <1>3
  <2> DEFINE s == sec + UnixDelta
  <2>2. s \in Int /\ s \in Int64 /\ s - 1 \in Int64  BY <1>1, <1>5, <1>6 DEF s
  <2> HIDE DEF s
  <2>3. /\ Unix(s, nsec) \in Times
        /\ Unix(s, nsec).sec * PerSecond + Unix(s, nsec).nsec = s * PerSecond + nsec
    BY <1>4, <2>2, UnixNormalises
  <2> QED  BY <2>1, <2>3 DEF s
<1>8. t.sec \in Int /\ t.nsec \in Int  BY <1>1, <1>7 DEF Times, Int64
<1>9. (t.sec - UnixDelta) * PerSecond + t.nsec = sec * PerSecond + nsec
  BY <1>1, <1>4, <1>7, <1>8
<1> QED  BY <1>4, <1>7, <1>9 DEF t

(* The same for safari's bookmarks, which count from 1970.                  *)
THEOREM UnixFractionNear ==
  ASSUME NEW num \in Int, NEW den \in Nat \ {0},
         Truncated(num, den) \in Int64, Truncated(num, den) - 1 \in Int64
  PROVE  LET t == UnixFromFloat(num, den)
             nanoseconds == t.sec * PerSecond + t.nsec
         IN  /\ t \in Times
             /\ -den < num * PerSecond - nanoseconds * den
             /\ num * PerSecond - nanoseconds * den < den
<1> DEFINE sec == Truncated(num, den)
           nsec == Truncated((num - sec * den) * PerSecond, den)
           t == UnixFromFloat(num, den)
<1>1. sec \in Int /\ -den < num - sec * den /\ num - sec * den < den  BY TruncatedNear
<1>2. t = Unix(sec, nsec)  BY DEF UnixFromFloat
<1>3. sec \in Int64 /\ sec - 1 \in Int64  OBVIOUS
<1> HIDE DEF sec
<1>4. /\ nsec \in Int /\ -PerSecond < nsec /\ nsec < PerSecond
      /\ -den < num * PerSecond - (sec * PerSecond + nsec) * den
      /\ num * PerSecond - (sec * PerSecond + nsec) * den < den
  BY <1>1, FractionNear
<1> HIDE DEF nsec, t
<1>5. t \in Times /\ t.sec * PerSecond + t.nsec = sec * PerSecond + nsec
  BY <1>1, <1>2, <1>3, <1>4, UnixNormalises
<1> QED  BY <1>4, <1>5 DEF t

(* A column of whole seconds is read alike as INTEGER and as REAL.            *)
THEOREM WholeSecondsAgree ==
  ASSUME NEW n \in Int
  PROVE  FromSecondsFloat(n, 1) = FromSeconds(n)
<1>1. Truncated(n, 1) = n
  <2>1. CASE n >= 0  BY <2>1 DEF Truncated
  <2>2. CASE n < 0  BY <2>2 DEF Truncated
  <2> QED  BY <2>1, <2>2
<1>2. (n - n * 1) * PerSecond = 0  BY CocoaAssumption
<1>3. Truncated(0, 1) = 0  BY DEF Truncated
<1> QED  BY <1>1, <1>2, <1>3 DEF FromSecondsFloat, FromSeconds

-----------------------------------------------------------------------------
(* Conversations.                                                          *)

ChatRows == [id : Ids, date : Dates, defect : Defects]

(* A conversation: rows that differ in their ids.                          *)
Conversation(S) ==
  /\ S \subseteq ChatRows /\ IsFiniteSet(S)
  /\ \A r, s \in S : r.id = s.id => r = s

-----------------------------------------------------------------------------
(* The order of a conversation.                                            *)

LEMMA RowTypes ==
  ASSUME NEW r \in ChatRows
  PROVE  r.id \in Nat \ {0} /\ r.id \in Ids /\ (r.date \in Int64 \/ r.date = Null) /\ r.date \in Dates
BY PagingAssumption DEF ChatRows

LEMMA NewerOrders ==
  ASSUME NEW r \in ChatRows, NEW s \in ChatRows
  PROVE  /\ ~Newer(r, r)
         /\ ~(Newer(r, s) /\ Newer(s, r))
         /\ \A t \in ChatRows : Newer(r, s) /\ Newer(s, t) => Newer(r, t)
         /\ r.id # s.id => Newer(r, s) \/ Newer(s, r)
<1>1. \A t \in ChatRows : t.id \in Int /\ (t.date \in Int \/ t.date = Null)
  BY RowTypes DEF Int64
<1>2. Null \notin Int
  BY PagingAssumption
<1> QED
  BY <1>1, <1>2 DEF Newer, Later

LEMMA NewestFirstOrders ==
  ASSUME NEW S, Conversation(S)
  PROVE  /\ OrderOn(NewestFirst(S), S)
         /\ \A r, s \in S : <<s, r>> \in NewestFirst(S) <=> Newer(s, r)
<1>1. \A r, s \in S : <<s, r>> \in NewestFirst(S) <=> Newer(s, r)
  BY DEF NewestFirst
<1>2. \A r, s \in S : r # s => r.id # s.id
  BY DEF Conversation
<1> QED
  BY <1>1, <1>2, NewerOrders DEF OrderOn, Conversation

LEMMA RankBound ==
  ASSUME NEW S, Conversation(S), NEW r \in S
  PROVE  LET B == {s \in S : Newer(s, r)} IN
         /\ Rank(r, S) \in 0 .. Cardinality(S) - 1
         /\ IsFiniteSet(B) /\ Rank(r, S) = Cardinality(B)
<1>1. OrderOn(NewestFirst(S), S) /\ \A s \in S : <<s, r>> \in NewestFirst(S) <=> Newer(s, r)
  BY NewestFirstOrders
<1>2. {s \in S : <<s, r>> \in NewestFirst(S)} = {s \in S : Newer(s, r)}
  BY <1>1
<1> QED
  BY <1>1, <1>2, PlaceBound DEF Rank, PlaceIn

LEMMA RankIsNat ==
  ASSUME NEW S, Conversation(S), NEW r \in S
  PROVE  Rank(r, S) \in Nat
BY NewestFirstOrders, PlaceIsNat DEF Rank

LEMMA RankOrders ==
  ASSUME NEW S, Conversation(S), NEW r \in S, NEW s \in S
  PROVE  /\ Newer(r, s) <=> Rank(r, S) < Rank(s, S)
         /\ Rank(r, S) = Rank(s, S) => r = s
BY NewestFirstOrders, PlaceOrders DEF Rank

(* Every place in the order is taken.                                      *)
LEMMA RankTaken ==
  ASSUME NEW S, Conversation(S), NEW k \in 0 .. Cardinality(S) - 1
  PROVE  \E r \in S : Rank(r, S) = k
BY NewestFirstOrders, PlaceTaken DEF Rank

(* InOrder lists the rows of a conversation, the newest first.             *)
LEMMA InOrderLists ==
  ASSUME NEW S, Conversation(S)
  PROVE  /\ InOrder(S) \in Seq(S) /\ Len(InOrder(S)) = Cardinality(S)
         /\ \A k \in 1 .. Cardinality(S) : InOrder(S)[k] \in S /\ Rank(InOrder(S)[k], S) = k - 1
         /\ \A r \in S : /\ Rank(r, S) + 1 \in 1 .. Cardinality(S)
                         /\ r = InOrder(S)[Rank(r, S) + 1]
         /\ InOrder(S) = <<>> <=> S = {}
BY NewestFirstOrders, ListedInOrder DEF Rank, InOrder

-----------------------------------------------------------------------------
(* Where a walk stands.                                                    *)

(* The cursor is the zero one or comes from the last message, a row.        *)
CursorInv ==
  IF walked = <<>>
  THEN cursor = ZeroCursor
  ELSE \E r \in rows : /\ walked[Len(walked)] = r.id
                       /\ cursor = [time |-> Time(r.date), id |-> r.id]

(* The conversation can be walked: every row is a message with a date.      *)
Clean == \A r \in rows : ~r.defect /\ r.date # Null

(* The walk so far is the beginning of the conversation, all of it at the    *)
(* end.                                                                    *)
PrefixInv ==
  Clean => /\ Len(walked) <= Cardinality(rows)
           /\ \A j \in 1 .. Len(walked) : walked[j] = InOrder(rows)[j].id
           /\ done => Len(walked) = Cardinality(rows)

PagingInv == Conversation(rows) /\ TypeOK /\ CursorInv /\ NeverBack

LEMMA InitConversation == PagingInit => Conversation(rows)
<1> SUFFICES ASSUME PagingInit PROVE Conversation(rows)
  OBVIOUS
<1>0. PICK I \in {J \in SUBSET Ids : IsFiniteSet(J)} :
      \E date \in [I -> Dates], defect \in [I -> Defects] :
        rows = {[id |-> i, date |-> date[i], defect |-> defect[i]] : i \in I}
  BY DEF PagingInit
<1>1. PICK date \in [I -> Dates], defect \in [I -> Defects] :
        rows = {[id |-> i, date |-> date[i], defect |-> defect[i]] : i \in I}
  BY <1>0
<1> DEFINE f == [i \in I |-> [id |-> i, date |-> date[i], defect |-> defect[i]]]
<1>2. f \in Surjection(I, rows)
  BY <1>1 DEF Surjection
<1>3. IsFiniteSet(rows)
  <2> HIDE DEF f
  <2> QED
    BY <1>2, FS_Surjection
<1>4. rows \subseteq ChatRows
  BY <1>1 DEF ChatRows
<1>5. \A r, s \in rows : r.id = s.id => r = s
  BY <1>1
<1> QED
  BY <1>3, <1>4, <1>5 DEF Conversation

LEMMA PartOfConversation ==
  ASSUME NEW S, NEW T, Conversation(T), S \subseteq T
  PROVE  Conversation(S)
BY FS_Subset DEF Conversation

(* The time a message shows is proper, and gives its date back.             *)
LEMMA TimeOfRow ==
  ASSUME NEW r \in ChatRows
  PROVE  /\ Time(r.date) \in Times
         /\ ToNanoseconds(Time(r.date)) = IF r.date = Null THEN Ancient ELSE r.date
<1>1. CASE r.date = Null
  <2>1. ZeroTime \in Times
    BY CocoaAssumption DEF ZeroTime, Times, Int64
  <2> QED
    BY <1>1, <2>1 DEF Time, Ancient
<1>2. CASE r.date # Null
  <2>1. r.date \in Int64 /\ r.date \in Int
    BY <1>2, RowTypes DEF Int64
  <2>2. PerSecond \in Nat \ {0} /\ UnixDelta \in Int
    BY CocoaAssumption
  <2>3. r.date \div PerSecond \in Int /\ r.date % PerSecond \in 0 .. PerSecond - 1
    BY <2>1, <2>2, DivMod
  <2>4. Wrap(UnixDelta + r.date \div PerSecond) \in Int64
    BY <2>2, <2>3, WrapIsCongruent
  <2>5. FromNanoseconds(r.date) \in Times
    BY <2>3, <2>4 DEF FromNanoseconds, Unix, Times
  <2> QED
    BY <1>2, <2>1, <2>5, CursorRoundTrip DEF Time
<1> QED
  BY <1>1, <1>2

(* A cursor selects rows older than the message it was made of, and all of   *)
(* these that have a date when that message has one.                        *)
LEMMA SelectsOlder ==
  ASSUME NEW r \in ChatRows, NEW s \in ChatRows
  PROVE  LET c == [time |-> Time(r.date), id |-> r.id] IN
         /\ Selects(c, s) => Newer(r, s)
         /\ r.date # Null /\ s.date # Null => (Selects(c, s) <=> Newer(r, s))
<1> DEFINE c == [time |-> Time(r.date), id |-> r.id]
           at == ToNanoseconds(c.time)
<1>1. /\ r.id \in Nat \ {0} /\ s.id \in Nat \ {0}
      /\ r.date \in Int \/ r.date = Null
      /\ s.date \in Int \/ s.date = Null
      /\ s.date # Null => Ancient < s.date
      /\ Null \notin Int
  BY RowTypes, PagingAssumption DEF Int64
<1>2. c # ZeroCursor
  BY <1>1 DEF ZeroCursor
<1>3. at = IF r.date = Null THEN Ancient ELSE r.date
  BY TimeOfRow
<1>4. Selects(c, s) <=> s.date # Null /\ (s.date < at \/ (s.date = at /\ s.id < r.id))
  BY <1>2 DEF Selects
<1>5. Ancient \in Int
  <2>1. ZeroTime.sec * PerSecond \in Int /\ UnixDelta * PerSecond \in Int /\ ZeroTime.nsec \in Int
    BY CocoaAssumption DEF ZeroTime
  <2>2. Wrap(ZeroTime.sec * PerSecond) \in Int /\ Wrap(UnixDelta * PerSecond) \in Int
    BY <2>1, WrapIsCongruent DEF Int64
  <2>3. Wrap(Wrap(ZeroTime.sec * PerSecond) - Wrap(UnixDelta * PerSecond)) \in Int
    <3> DEFINE d == Wrap(ZeroTime.sec * PerSecond) - Wrap(UnixDelta * PerSecond)
    <3>1. d \in Int
      BY <2>2
    <3> HIDE DEF d
    <3>2. Wrap(d) \in Int
      BY <3>1, WrapIsCongruent DEF Int64
    <3> QED
      BY <3>2 DEF d
  <2> DEFINE e == Wrap(Wrap(ZeroTime.sec * PerSecond) - Wrap(UnixDelta * PerSecond)) + ZeroTime.nsec
  <2>4. e \in Int
    BY <2>1, <2>3
  <2> HIDE DEF e
  <2>5. Wrap(e) \in Int
    BY <2>4, WrapIsCongruent DEF Int64
  <2> QED
    BY <2>5 DEF Ancient, ToNanoseconds, e
<1> HIDE DEF c, at
<1>6. Selects(c, s) => Newer(r, s)
  BY <1>1, <1>3, <1>4, <1>5 DEF Newer, Later
<1>7. r.date # Null /\ s.date # Null => (Selects(c, s) <=> Newer(r, s))
  BY <1>1, <1>3, <1>4, <1>5 DEF Newer, Later
<1> QED
  BY <1>6, <1>7 DEF c

(* A page: selected rows without a defect, the newest first.                *)
LEMMA PageLists ==
  ASSUME Conversation(rows), NEW limit
  PROVE  LET page == MessagesOf(ChatMessages(cursor, limit)) IN
         /\ page \in Seq(rows) /\ page \in Seq(ChatRows)
         /\ \A j \in 1 .. Len(page) : page[j] \in rows /\ Selects(cursor, page[j])
         /\ \A j, k \in 1 .. Len(page) : j < k => Newer(page[j], page[k])
<1> DEFINE V == {r \in ChatMessages(cursor, limit) : ~r.defect}
           page == InOrder(V)
<1>1. V \subseteq rows /\ rows \subseteq ChatRows /\ \A r \in V : Selects(cursor, r)
  BY DEF ChatMessages, Conversation
<1>2. Conversation(V)
  BY <1>1, PartOfConversation
<1>3. MessagesOf(ChatMessages(cursor, limit)) = page
  BY DEF MessagesOf
<1> HIDE DEF V
<1>4. /\ page \in Seq(V) /\ Len(page) = Cardinality(V)
      /\ \A k \in 1 .. Len(page) : page[k] \in V /\ Rank(page[k], V) = k - 1
  BY <1>2, InOrderLists
<1> HIDE DEF page
<1>5. ASSUME NEW j \in 1 .. Len(page), NEW k \in 1 .. Len(page), j < k
      PROVE  Newer(page[j], page[k])
  <2>1. page[j] \in V /\ page[k] \in V /\ Rank(page[j], V) < Rank(page[k], V)
    BY <1>4, <1>5
  <2> QED
    BY <1>2, <2>1, RankOrders
<1>6. page \in Seq(rows) /\ page \in Seq(ChatRows)
  BY <1>1, <1>4, SeqMonotonic
<1> QED
  BY <1>1, <1>3, <1>4, <1>5, <1>6

(* What a walk becomes when a consumer takes k messages of a page.           *)
LEMMA TakesFromPage ==
  ASSUME NEW w \in Seq(Ids), NEW page \in Seq(ChatRows), NEW k \in 1 .. Len(page)
  PROVE  LET x == w \o IdsOf(SubSeq(page, 1, k)) IN
         /\ x \in Seq(Ids) /\ Len(w) \in Nat /\ Len(x) = Len(w) + k
         /\ \A j \in 1 .. Len(w) : x[j] = w[j]
         /\ \A j \in 1 .. k : x[Len(w) + j] = page[j].id
<1> DEFINE t == SubSeq(page, 1, k)
           ids == IdsOf(t)
           x == w \o IdsOf(SubSeq(page, 1, k))
<1>1. Len(page) \in Nat /\ Len(w) \in Nat /\ k \in Nat /\ k <= Len(page)
  BY LenProperties
<1>2. /\ t \in Seq(ChatRows) /\ Len(t) = k
      /\ \A j \in 1 .. k : t[j] = page[j]
  BY <1>1
<1> HIDE DEF t
<1>3. /\ ids \in Seq(Ids) /\ Len(ids) = k
      /\ \A j \in 1 .. k : ids[j] = page[j].id
  <2>0. \A j \in 1 .. k : page[j] \in ChatRows
    BY <1>1
  <2>1. \A j \in 1 .. k : t[j].id = page[j].id /\ page[j].id \in Ids
    BY <1>2, <2>0 DEF ChatRows
  <2>2. ids = [j \in 1 .. k |-> t[j].id]
    BY <1>2 DEF IdsOf
  <2> HIDE DEF ids
  <2>3. ids \in [1 .. k -> Ids]
    BY <2>1, <2>2
  <2>4. ids \in Seq(Ids) /\ Len(ids) = k
    BY <1>1, <2>3
  <2> QED
    BY <2>1, <2>2, <2>4
<1>4. x = w \o ids
  BY DEF t, x
<1> HIDE DEF ids, x
<1>5. /\ x \in Seq(Ids) /\ Len(x) = Len(w) + k
      /\ \A i \in 1 .. Len(w) + k : x[i] = IF i <= Len(w) THEN w[i] ELSE ids[i - Len(w)]
  <2>1. /\ w \o ids \in Seq(Ids) /\ Len(w \o ids) = Len(w) + Len(ids)
        /\ \A i \in 1 .. Len(w) + Len(ids) :
             (w \o ids)[i] = IF i <= Len(w) THEN w[i] ELSE ids[i - Len(w)]
    BY <1>3, ConcatProperties
  <2> QED
    BY <1>3, <1>4, <2>1
<1>6. ASSUME NEW j \in 1 .. k
      PROVE  x[Len(w) + j] = page[j].id
  <2>1. Len(w) + j \in 1 .. Len(w) + k /\ ~(Len(w) + j <= Len(w)) /\ (Len(w) + j) - Len(w) = j
    BY <1>1
  <2> QED
    BY <1>3, <1>5, <2>1
<1> QED
  BY <1>1, <1>5, <1>6 DEF x

-----------------------------------------------------------------------------
(* What holds of every walk.                                               *)

LEMMA InitInv == PagingInit => PagingInv /\ PrefixInv
<1> SUFFICES ASSUME PagingInit PROVE PagingInv /\ PrefixInv
  OBVIOUS
<1>1. Conversation(rows)
  BY InitConversation
<1>2. walked = <<>> /\ Len(walked) = 0 /\ cursor = ZeroCursor /\ ~done
  BY DEF PagingInit
<1>3. TypeOK
  <2>1. ZeroCursor \in [time : Times, id : Ids \cup {0}]
    BY CocoaAssumption DEF ZeroCursor, ZeroTime, Times, Int64
  <2>2. rows \subseteq [id : Ids, date : Dates, defect : Defects]
    BY <1>1 DEF Conversation, ChatRows
  <2>3. walked \in Seq(Ids) /\ done \in BOOLEAN
    BY EmptySeq DEF PagingInit
  <2> QED
    BY <1>2, <2>1, <2>2, <2>3 DEF TypeOK
<1>4. Cardinality(rows) \in Nat
  BY <1>1, FS_CardinalityType DEF Conversation
<1>5. NeverBack /\ CursorInv
  BY <1>2 DEF NeverBack, CursorInv
<1>6. PrefixInv
  BY <1>2, <1>4 DEF PrefixInv
<1> QED
  BY <1>1, <1>3, <1>5, <1>6 DEF PagingInv

(* Whatever a cursor selects is older than the last message seen.            *)
LEMMA SelectedOlder ==
  ASSUME PagingInv, walked # <<>>
  PROVE  \E r \in rows : /\ r.id = walked[Len(walked)]
                         /\ cursor = [time |-> Time(r.date), id |-> r.id]
                         /\ \A s \in rows : Selects(cursor, s) => Newer(r, s)
<1>1. PICK r \in rows : /\ walked[Len(walked)] = r.id
                        /\ cursor = [time |-> Time(r.date), id |-> r.id]
  BY DEF PagingInv, CursorInv
<1>2. rows \subseteq ChatRows
  BY DEF PagingInv, Conversation
<1> QED
  BY <1>1, <1>2, SelectsOlder

(* A page and the k messages of it that are taken.                         *)
LEMMA PageStep ==
  ASSUME PagingInv, NEW limit \in Limits, ReadPage(limit)
  PROVE  PagingInv'
<1> DEFINE page == MessagesOf(ChatMessages(cursor, limit))
           m == Len(walked)
<1>1. PICK k \in 1 .. Len(page) :
        /\ walked' = walked \o IdsOf(SubSeq(page, 1, k))
        /\ cursor' = [time |-> Time(page[k].date), id |-> page[k].id]
  BY DEF ReadPage
<1>2. rows' = rows /\ done' = done
  BY DEF ReadPage
<1>3. /\ page \in Seq(rows) /\ page \in Seq(ChatRows)
      /\ \A j \in 1 .. Len(page) : page[j] \in rows /\ Selects(cursor, page[j])
      /\ \A j, i \in 1 .. Len(page) : j < i => Newer(page[j], page[i])
  BY PageLists DEF PagingInv
<1> HIDE DEF page
<1>4. walked \in Seq(Ids) /\ done \in BOOLEAN /\ Conversation(rows) /\ rows \subseteq ChatRows
  BY DEF PagingInv, TypeOK, Conversation
<1>5. /\ walked' \in Seq(Ids) /\ m \in Nat /\ Len(walked') = m + k
      /\ \A j \in 1 .. m : walked'[j] = walked[j]
      /\ \A j \in 1 .. k : walked'[m + j] = page[j].id
  <2> DEFINE x == walked \o IdsOf(SubSeq(page, 1, k))
  <2>1. /\ x \in Seq(Ids) /\ m \in Nat /\ Len(x) = m + k
        /\ \A j \in 1 .. m : x[j] = walked[j]
        /\ \A j \in 1 .. k : x[m + j] = page[j].id
    BY <1>3, <1>4, TakesFromPage
  <2> QED
    BY <1>1, <2>1
<1>6. k \in Nat /\ Len(page) \in Nat /\ k <= Len(page) /\ 1 <= k
  BY <1>3
<1>7. page[k] \in rows /\ page[k] \in ChatRows
  BY <1>3, <1>4
<1>8. TypeOK'
  <2>1. cursor' \in [time : Times, id : Ids \cup {0}]
    BY <1>1, <1>7, TimeOfRow, RowTypes
  <2> QED
    BY <1>2, <1>4, <1>5, <2>1 DEF TypeOK, ChatRows
<1>9. CursorInv'
  <2>1. walked' # <<>> /\ walked'[Len(walked')] = page[k].id
    BY <1>5, <1>6
  <2> QED
    BY <1>1, <1>2, <1>7, <2>1 DEF CursorInv
<1>10. NeverBack'
  <2> SUFFICES ASSUME NEW j \in 1 .. m + k, NEW i \in 1 .. m + k, j < i
               PROVE  \E r, s \in rows : r.id = walked'[j] /\ s.id = walked'[i] /\ Newer(r, s)
    BY <1>2, <1>5 DEF NeverBack
  <2>1. CASE i <= m
    <3>1. \E r, s \in rows : r.id = walked[j] /\ s.id = walked[i] /\ Newer(r, s)
      BY <1>5, <1>6, <2>1 DEF PagingInv, NeverBack
    <3> QED
      BY <1>5, <1>6, <2>1, <3>1
  <2>2. CASE j > m
    <3>1. PICK a \in 1 .. k, b \in 1 .. k : j = m + a /\ i = m + b /\ a < b
      <4>1. j - m \in 1 .. k /\ i - m \in 1 .. k /\ j = m + (j - m) /\ i = m + (i - m) /\ j - m < i - m
        BY <1>5, <1>6, <2>2
      <4> QED
        BY <4>1
    <3>2. a \in 1 .. Len(page) /\ b \in 1 .. Len(page)
      BY <1>6
    <3>3. page[a] \in rows /\ page[b] \in rows /\ Newer(page[a], page[b])
      BY <1>3, <3>1, <3>2
    <3>4. walked'[j] = page[a].id /\ walked'[i] = page[b].id
      BY <1>5, <3>1
    <3> QED
      BY <3>3, <3>4
  <2>3. CASE j <= m /\ i > m
    <3>1. PICK b \in 1 .. k : i = m + b
      <4>1. i - m \in 1 .. k /\ i = m + (i - m)
        BY <1>5, <1>6, <2>3
      <4> QED
        BY <4>1
    <3>2. b \in 1 .. Len(page) /\ walked'[i] = page[b].id /\ page[b] \in rows
      BY <1>3, <1>5, <1>6, <3>1
    <3>3. walked # <<>> /\ m \in 1 .. m /\ j \in 1 .. m
      BY <1>4, <1>5, <1>6, <2>3
    <3>4. PICK r \in rows : r.id = walked[m] /\ \A s \in rows : Selects(cursor, s) => Newer(r, s)
      BY <3>3, SelectedOlder
    <3>5. Newer(r, page[b])
      BY <1>3, <3>2, <3>4
    <3>6. CASE j = m
      BY <1>5, <3>2, <3>3, <3>4, <3>5, <3>6
    <3>7. CASE j < m
      <4>1. PICK p \in rows, q \in rows : p.id = walked[j] /\ q.id = walked[m] /\ Newer(p, q)
        BY <3>3, <3>7 DEF PagingInv, NeverBack
      <4>2. q = r
        BY <1>4, <3>4, <4>1 DEF Conversation
      <4>3. Newer(p, page[b])
        BY <1>4, <3>2, <3>5, <4>1, <4>2, NewerOrders
      <4> QED
        BY <1>5, <3>2, <3>3, <4>1, <4>3
    <3> QED
      BY <1>5, <2>3, <3>6, <3>7
  <2> QED
    BY <1>5, <1>6, <2>1, <2>2, <2>3
<1> QED
  BY <1>2, <1>4, <1>8, <1>9, <1>10 DEF PagingInv

LEMMA InvStep == PagingInv /\ [PagingNext]_pagingVars => PagingInv'
<1> SUFFICES ASSUME PagingInv, [PagingNext]_pagingVars PROVE PagingInv'
  OBVIOUS
<1>1. ASSUME NEW limit \in Limits, ReadPage(limit) PROVE PagingInv'
  BY <1>1, PageStep
<1>2. CASE UNCHANGED <<rows, cursor, walked>> /\ done' \in BOOLEAN
  BY <1>2 DEF PagingInv, TypeOK, CursorInv, NeverBack
<1>3. ASSUME NEW limit \in Limits, LastPage(limit) PROVE PagingInv'
  BY <1>2, <1>3 DEF LastPage
<1>4. CASE UNCHANGED pagingVars
  BY <1>2, <1>4 DEF pagingVars, PagingInv, TypeOK
<1> QED
  BY <1>1, <1>3, <1>4 DEF PagingNext, Walk

LEMMA InvHolds == PagingSpec => []PagingInv
BY InitInv, InvStep, PTL DEF PagingSpec

(* Every cursor is a proper time and the id of a row; every message seen is  *)
(* one of the conversation.                                                *)
THEOREM Typing == PagingSpec => []TypeOK
BY InvHolds, PTL DEF PagingInv

(* For any dates an int64 holds: the cursor made of a message holds that    *)
(* message's date to the nanosecond, whatever overflows on the way.          *)
THEOREM CursorsAreExact == PagingSpec => []CursorExact
<1>1. PagingInv => CursorExact
  <2> SUFFICES ASSUME PagingInv, walked # <<>>
               PROVE  \E r \in rows :
                        /\ r.id = walked[Len(walked)] /\ cursor.id = r.id
                        /\ ToNanoseconds(cursor.time) = IF r.date = Null THEN Ancient ELSE r.date
    BY DEF CursorExact
  <2>1. PICK r \in rows : walked[Len(walked)] = r.id /\ cursor = [time |-> Time(r.date), id |-> r.id]
    BY DEF PagingInv, CursorInv
  <2>2. r \in ChatRows
    BY DEF PagingInv, Conversation
  <2> QED
    BY <2>1, <2>2, TimeOfRow
<1> QED
  BY InvHolds, <1>1, PTL

(* For any conversation, limits and places to break out: no message comes    *)
(* twice and none comes after an older one.                                *)
THEOREM PagesNeverGoBack == PagingSpec => []NeverBack
BY InvHolds, PTL DEF PagingInv

-----------------------------------------------------------------------------
(* A conversation of messages with dates is walked to its end.              *)

(* As many rows have a rank below m as there are ranks.                     *)
LEMMA RowsBefore ==
  ASSUME NEW T, Conversation(T), NEW m \in 0 .. Cardinality(T)
  PROVE  LET B == {s \in T : Rank(s, T) < m} IN IsFiniteSet(B) /\ Cardinality(B) = m
<1> DEFINE B == {s \in T : Rank(s, T) < m}
<1>1. IsFiniteSet(T) /\ Cardinality(T) \in Nat /\ m \in Nat
  BY FS_CardinalityType DEF Conversation
<1>2. \A s \in T : Rank(s, T) \in Nat
  BY RankIsNat
<1>3. CASE m = 0
  <2>1. B = {}
    BY <1>2, <1>3
  <2> QED
    BY <1>3, <2>1, FS_EmptySet
<1>4. CASE m # 0
  <2>1. m - 1 \in 0 .. Cardinality(T) - 1
    BY <1>1, <1>4
  <2>2. PICK last \in T : Rank(last, T) = m - 1
    BY <2>1, RankTaken
  <2> DEFINE N == {s \in T : Newer(s, last)}
  <2>3. ASSUME NEW s \in T
        PROVE  s \in B <=> s \in N \cup {last}
    <3>1. Newer(s, last) <=> Rank(s, T) < m - 1
      BY <2>2, RankOrders
    <3>2. Rank(s, T) = m - 1 <=> s = last
      BY <2>2, RankOrders
    <3>3. Rank(s, T) < m <=> Rank(s, T) < m - 1 \/ Rank(s, T) = m - 1
      BY <1>1, <1>2
    <3> QED
      BY <3>1, <3>2, <3>3
  <2>4. B = N \cup {last}
    BY <2>3
  <2>5. last \notin N
    BY NewerOrders DEF Conversation
  <2>6. IsFiniteSet(N) /\ Cardinality(N) = m - 1
    BY <2>2, RankBound DEF Rank
  <2> HIDE DEF N, B
  <2>7. IsFiniteSet(B) /\ Cardinality(B) = (m - 1) + 1
    BY <2>4, <2>5, <2>6, FS_AddElement
  <2> QED
    BY <1>1, <2>7 DEF B
<1> QED
  BY <1>3, <1>4

(* The rank of a row among those from rank m on, or the first of them.       *)
LEMMA RankAmongRest ==
  ASSUME NEW T, Conversation(T), NEW m \in 0 .. Cardinality(T),
         NEW V \in SUBSET T,
         \A r \in V : m <= Rank(r, T),
         \A r \in V, s \in T : Newer(s, r) /\ m <= Rank(s, T) => s \in V,
         NEW r \in V
  PROVE  Rank(r, T) = m + Rank(r, V)
<1> DEFINE B == {s \in T : Rank(s, T) < m}
           N == {s \in V : Newer(s, r)}
           A == {s \in T : Newer(s, r)}
<1>1. Conversation(V) /\ m \in Nat
  BY PartOfConversation, FS_CardinalityType DEF Conversation
<1>2. IsFiniteSet(B) /\ Cardinality(B) = m
  BY RowsBefore
<1>3. IsFiniteSet(N) /\ Cardinality(N) = Rank(r, V) /\ Rank(r, V) \in Nat
  BY <1>1, RankBound, RankIsNat DEF Rank
<1>4. \A s \in T : Rank(s, T) \in Nat
  BY RankIsNat
<1>5. ASSUME NEW s \in T
      PROVE  s \in A <=> s \in B \cup N
  <2>1. Newer(s, r) <=> Rank(s, T) < Rank(r, T)
    BY RankOrders
  <2>2. Rank(s, T) < m \/ m <= Rank(s, T)
    BY <1>1, <1>4
  <2>3. Rank(s, T) < m => Rank(s, T) < Rank(r, T)
    BY <1>1, <1>4
  <2> QED
    BY <2>1, <2>2, <2>3
<1>6. A = B \cup N
  BY <1>5
<1>7. B \cap N = {}
  BY <1>1, <1>4
<1>8. Rank(r, T) = Cardinality(A)
  BY RankBound
<1> HIDE DEF A, B, N
<1>9. Cardinality(B \cup N) = Cardinality(B) + Cardinality(N) - Cardinality(B \cap N)
  BY <1>2, <1>3, FS_Union
<1>10. Cardinality(B \cap N) = 0
  BY <1>7, FS_EmptySet
<1> QED
  BY <1>1, <1>2, <1>3, <1>6, <1>8, <1>9, <1>10

(* The cursor selects what the walk has not seen.                           *)
LEMMA CleanSelects ==
  ASSUME PagingInv, PrefixInv, Clean, NEW s \in rows
  PROVE  Selects(cursor, s) <=> Len(walked) <= Rank(s, rows)
<1> DEFINE m == Len(walked)
<1>1. Conversation(rows) /\ rows \subseteq ChatRows /\ walked \in Seq(Ids) /\ m \in Nat
  BY DEF PagingInv, Conversation, TypeOK
<1>2. Cardinality(rows) \in Nat /\ Rank(s, rows) \in Nat
  <2>1. Cardinality(rows) \in Nat
    BY <1>1, FS_CardinalityType DEF Conversation
  <2>2. Rank(s, rows) \in Nat
    BY <1>1, RankIsNat
  <2> QED
    BY <2>1, <2>2
<1>3. CASE walked = <<>>
  <2>1. cursor = ZeroCursor /\ m = 0
    BY <1>3 DEF PagingInv, CursorInv
  <2> QED
    BY <1>2, <2>1 DEF Selects
<1>4. CASE walked # <<>>
  <2>1. PICK r \in rows : walked[m] = r.id /\ cursor = [time |-> Time(r.date), id |-> r.id]
    BY <1>4 DEF PagingInv, CursorInv
  <2>2. m \in 1 .. m /\ m \in 1 .. Cardinality(rows)
    BY <1>1, <1>2, <1>4, EmptySeq DEF PrefixInv
  <2>3. InOrder(rows)[m].id = r.id
    BY <2>1, <2>2 DEF PrefixInv
  <2>4. InOrder(rows)[m] \in rows /\ Rank(InOrder(rows)[m], rows) = m - 1
    BY <1>1, <2>2, InOrderLists
  <2>5. Rank(r, rows) = m - 1
    BY <1>1, <2>3, <2>4 DEF Conversation
  <2>6. Selects(cursor, s) <=> Newer(r, s)
    BY <1>1, <2>1, SelectsOlder DEF Clean
  <2>7. Newer(r, s) <=> Rank(r, rows) < Rank(s, rows)
    BY <1>1, RankOrders
  <2> QED
    BY <1>1, <1>2, <2>5, <2>6, <2>7
<1> QED
  BY <1>3, <1>4

(* A page goes on where the walk stands; an empty one is the end.            *)
LEMMA CleanPage ==
  ASSUME PagingInv, PrefixInv, Clean, NEW limit \in Limits
  PROVE  LET page == MessagesOf(ChatMessages(cursor, limit)) IN
         /\ \A i \in 1 .. Len(page) : /\ Len(walked) + i \in 1 .. Cardinality(rows)
                                      /\ page[i] = InOrder(rows)[Len(walked) + i]
         /\ page = <<>> => Len(walked) = Cardinality(rows)
<1> DEFINE m == Len(walked)
           S == {r \in rows : Selects(cursor, r)}
           V == {r \in S : limit > 0 => Rank(r, S) < limit}
           page == InOrder(V)
<1>1. /\ Conversation(rows) /\ Cardinality(rows) \in Nat /\ m \in Nat
      /\ m \in 0 .. Cardinality(rows) /\ limit \in Nat
  <2>1. Conversation(rows) /\ walked \in Seq(Ids)
    BY DEF PagingInv, TypeOK
  <2>2. Cardinality(rows) \in Nat /\ m \in Nat
    BY <2>1, FS_CardinalityType DEF Conversation
  <2> QED
    BY <2>1, <2>2, PagingAssumption DEF PrefixInv
<1>2. V \subseteq rows /\ S \subseteq rows
  OBVIOUS
<1>3. Conversation(S) /\ Conversation(V)
  BY <1>1, <1>2, PartOfConversation
<1>4. MessagesOf(ChatMessages(cursor, limit)) = page
  <2>1. ChatMessages(cursor, limit) = V
    BY DEF ChatMessages
  <2>2. {r \in V : ~r.defect} = V
    BY <1>2 DEF Clean
  <2> HIDE DEF V
  <2> QED
    BY <2>1, <2>2 DEF MessagesOf
<1>5. \A s \in rows : s \in S <=> m <= Rank(s, rows)
  BY CleanSelects
<1>6. ASSUME NEW r \in V, NEW s \in rows, Newer(s, r), m <= Rank(s, rows)
      PROVE  s \in V
  <2>1. s \in S /\ r \in S
    BY <1>5, <1>6
  <2>2. Rank(s, S) < Rank(r, S)
    BY <1>3, <1>6, <2>1, RankOrders
  <2>3. Rank(s, S) \in Nat /\ Rank(r, S) \in Nat
    BY <1>3, <2>1, RankIsNat
  <2> QED
    BY <1>1, <2>1, <2>2, <2>3
<1>7. \A r \in V : m <= Rank(r, rows)
  BY <1>2, <1>5
<1>8. \A r \in V : Rank(r, rows) = m + Rank(r, V)
  <2> HIDE DEF V, S, m
  <2> QED
    BY <1>1, <1>2, <1>6, <1>7, RankAmongRest
<1>9. ASSUME V = {} PROVE m = Cardinality(rows)
  <2> SUFFICES ASSUME m # Cardinality(rows) PROVE FALSE
    OBVIOUS
  <2>1. m \in 0 .. Cardinality(rows) - 1
    BY <1>1
  <2>2. PICK r \in rows : Rank(r, rows) = m
    BY <1>1, <2>1, RankTaken
  <2>3. r \in S
    BY <1>1, <1>5, <2>2
  <2>4. \A s \in S : ~Newer(s, r)
    <3> SUFFICES ASSUME NEW s \in S, Newer(s, r) PROVE FALSE
      OBVIOUS
    <3>1. Rank(s, rows) < m /\ m <= Rank(s, rows)
      BY <1>1, <1>2, <1>5, <2>2, RankOrders
    <3>2. Rank(s, rows) \in Nat
      BY <1>1, <1>2, RankIsNat
    <3> QED
      BY <1>1, <3>1, <3>2
  <2>5. Rank(r, S) = 0
    <3>1. {s \in S : Newer(s, r)} = {}
      BY <2>4
    <3> QED
      BY <1>3, <2>3, <3>1, RankBound, FS_EmptySet
  <2>6. r \in V
    BY <2>3, <2>5
  <2> QED
    BY <1>9, <2>6
<1> HIDE DEF V, S
<1>10. /\ Len(page) = Cardinality(V) /\ Cardinality(V) \in Nat
       /\ \A i \in 1 .. Cardinality(V) : page[i] \in V /\ Rank(page[i], V) = i - 1
       /\ page = <<>> <=> V = {}
  BY <1>3, InOrderLists, FS_CardinalityType DEF Conversation
<1>11. ASSUME NEW i \in 1 .. Len(page)
       PROVE  /\ m + i \in 1 .. Cardinality(rows)
              /\ page[i] = InOrder(rows)[m + i]
  <2> DEFINE r == page[i]
  <2>1. r \in V /\ r \in rows /\ Rank(r, V) = i - 1 /\ i \in Nat
    BY <1>2, <1>10, <1>11
  <2> HIDE DEF page, r
  <2>2. Rank(r, rows) = m + (i - 1)
    BY <1>8, <2>1
  <2>3. Rank(r, rows) + 1 \in 1 .. Cardinality(rows) /\ r = InOrder(rows)[Rank(r, rows) + 1]
    BY <1>1, <2>1, InOrderLists
  <2>4. Rank(r, rows) + 1 = m + i
    BY <1>1, <2>1, <2>2
  <2> QED
    BY <2>3, <2>4 DEF r
<1> QED
  BY <1>4, <1>9, <1>10, <1>11

LEMMA PrefixStep == PagingInv /\ PrefixInv /\ [PagingNext]_pagingVars => PrefixInv'
<1> SUFFICES ASSUME PagingInv, PrefixInv, [PagingNext]_pagingVars, Clean'
             PROVE  /\ Len(walked') <= Cardinality(rows')
                    /\ \A j \in 1 .. Len(walked') : walked'[j] = InOrder(rows)'[j].id
                    /\ done' => Len(walked') = Cardinality(rows')
  BY DEF PrefixInv
<1>1. rows' = rows
  BY DEF PagingNext, Walk, ReadPage, LastPage, pagingVars
<1>2. Clean /\ InOrder(rows)' = InOrder(rows)
  BY <1>1 DEF Clean, InOrder, Rank
<1> DEFINE m == Len(walked)
<1>3. /\ m <= Cardinality(rows)
      /\ \A j \in 1 .. m : walked[j] = InOrder(rows)[j].id
      /\ done => m = Cardinality(rows)
  BY <1>2 DEF PrefixInv
<1>4. walked \in Seq(Ids) /\ m \in Nat /\ Conversation(rows) /\ Cardinality(rows) \in Nat
  BY FS_CardinalityType DEF PagingInv, TypeOK, Conversation
<1>5. ASSUME NEW limit \in Limits, ReadPage(limit)
      PROVE  /\ Len(walked') <= Cardinality(rows)
             /\ \A j \in 1 .. Len(walked') : walked'[j] = InOrder(rows)[j].id
             /\ ~done'
  <2> DEFINE page == MessagesOf(ChatMessages(cursor, limit))
  <2>1. PICK k \in 1 .. Len(page) : walked' = walked \o IdsOf(SubSeq(page, 1, k))
    BY <1>5 DEF ReadPage
  <2>2. page \in Seq(ChatRows)
    BY <1>4, PageLists
  <2>3. \A i \in 1 .. Len(page) : /\ m + i \in 1 .. Cardinality(rows)
                                  /\ page[i] = InOrder(rows)[m + i]
    BY <1>2, CleanPage
  <2> HIDE DEF page
  <2>4. /\ Len(walked') = m + k
        /\ \A j \in 1 .. m : walked'[j] = walked[j]
        /\ \A j \in 1 .. k : walked'[m + j] = page[j].id
    <3> DEFINE x == walked \o IdsOf(SubSeq(page, 1, k))
    <3>1. /\ Len(x) = m + k
          /\ \A j \in 1 .. m : x[j] = walked[j]
          /\ \A j \in 1 .. k : x[m + j] = page[j].id
      BY <1>4, <2>2, TakesFromPage
    <3> QED
      BY <2>1, <3>1
  <2>5. k \in Nat /\ Len(page) \in Nat /\ k <= Len(page) /\ 1 <= k
    BY <2>2
  <2>6. m + k \in 1 .. Cardinality(rows)
    BY <2>3, <2>5
  <2>7. ASSUME NEW j \in 1 .. m + k
        PROVE  walked'[j] = InOrder(rows)[j].id
    <3>1. CASE j <= m
      <4>1. j \in 1 .. m
        BY <1>4, <2>5, <3>1
      <4> QED
        BY <1>3, <2>4, <4>1
    <3>2. CASE ~(j <= m)
      <4>1. PICK i \in 1 .. k : j = m + i
        <5>1. j - m \in 1 .. k /\ j = m + (j - m)
          BY <1>4, <2>5, <3>2
        <5> QED
          BY <5>1
      <4>2. i \in 1 .. Len(page)
        BY <2>5
      <4> QED
        BY <2>3, <2>4, <4>1, <4>2
    <3> QED
      BY <3>1, <3>2
  <2> QED
    BY <1>4, <1>5, <2>4, <2>6, <2>7 DEF ReadPage
<1>6. ASSUME NEW limit \in Limits, LastPage(limit)
      PROVE  walked' = walked /\ m = Cardinality(rows)
  BY <1>2, <1>6, CleanPage DEF LastPage
<1>7. CASE UNCHANGED pagingVars
  BY <1>2, <1>3, <1>7 DEF pagingVars
<1> QED
  BY <1>1, <1>2, <1>3, <1>5, <1>6, <1>7 DEF PagingNext, Walk

(* For any conversation of messages with dates, any limits and places to     *)
(* break out: the pages together are a beginning of what reading it in one   *)
(* go gives, and all of it when a page has no message.                      *)
THEOREM PagesMatchOneShot == PagingSpec => []CleanWalkMatchesOneShot
<1>1. PagingInv /\ PrefixInv => CleanWalkMatchesOneShot
  <2> SUFFICES ASSUME PagingInv, PrefixInv, Clean PROVE WalkMatchesOneShot
    BY DEF CleanWalkMatchesOneShot, Clean
  <2>1. Conversation(rows) /\ walked \in Seq(Ids) /\ rows \subseteq ChatRows /\ Cardinality(rows) \in Nat
    BY FS_CardinalityType DEF PagingInv, TypeOK, Conversation
  <2>2. OneShot = IdsOf(InOrder(rows))
    <3>1. ChatMessages(ZeroCursor, 0) = rows
      BY DEF ChatMessages, Selects
    <3>2. {r \in rows : ~r.defect} = rows
      BY DEF Clean
    <3> QED
      BY <3>1, <3>2 DEF OneShot, MessagesOf
  <2> DEFINE all == IdsOf(InOrder(rows))
             m == Len(walked)
  <2>3. /\ all \in Seq(Ids) /\ Len(all) = Cardinality(rows)
        /\ \A j \in 1 .. Cardinality(rows) : all[j] = InOrder(rows)[j].id
    <3>1. /\ Len(InOrder(rows)) = Cardinality(rows)
          /\ \A j \in 1 .. Cardinality(rows) : InOrder(rows)[j] \in rows
      BY <2>1, InOrderLists
    <3>2. all = [j \in 1 .. Cardinality(rows) |-> InOrder(rows)[j].id]
      BY <3>1 DEF IdsOf
    <3>3. \A j \in 1 .. Cardinality(rows) : InOrder(rows)[j].id \in Ids
      BY <2>1, <3>1 DEF ChatRows
    <3> HIDE DEF all
    <3>4. all \in [1 .. Cardinality(rows) -> Ids]
      BY <3>2, <3>3
    <3> QED
      BY <2>1, <3>2, <3>4
  <2> HIDE DEF all
  <2>4. /\ m \in Nat /\ m <= Len(all) /\ \A j \in 1 .. m : walked[j] = all[j]
        /\ done => m = Len(all)
    BY <2>1, <2>3 DEF PrefixInv
  <2>5. SubSeq(walked, 1, m) = SubSeq(all, 1, m)
    <3>1. /\ SubSeq(walked, 1, m) \in Seq(Ids) /\ Len(SubSeq(walked, 1, m)) = m
          /\ \A j \in 1 .. m : SubSeq(walked, 1, m)[j] = walked[j]
      BY <2>1, <2>4
    <3>2. /\ SubSeq(all, 1, m) \in Seq(Ids) /\ Len(SubSeq(all, 1, m)) = m
          /\ \A j \in 1 .. m : SubSeq(all, 1, m)[j] = all[j]
      BY <2>3, <2>4
    <3> QED
      BY <2>4, <3>1, <3>2, SeqEqual
  <2>6. IsPrefix(walked, all)
    BY <2>4, <2>5 DEF IsPrefix
  <2>7. ASSUME done PROVE walked = all
    BY <2>1, <2>3, <2>4, <2>7, SeqEqual
  <2> QED
    BY <2>2, <2>6, <2>7 DEF WalkMatchesOneShot, all
<1> QED
  BY InitInv, InvStep, PrefixStep, <1>1, PTL DEF PagingSpec

(***************************************************************************)
(* Safari                                                                  *)
(***************************************************************************)

BookmarksPrint == bookmarksSpec[1]
HistoryPrint == historySpec[1]

(* Whose handles are open at each step, and whether History.db is in use.    *)
HandleInv ==
  /\ phase \in {"closed", "bookmarks", "history", "detect", "idle", "failed", "released"}
  /\ history \in BOOLEAN
  /\ phase \notin {"idle", "released"} => ~history
  /\ phase \in {"closed", "failed", "released"} => handles = {}
  /\ phase \in {"bookmarks", "history"} => handles = {"bookmarks"}
  /\ phase = "detect" => handles = {"bookmarks", "history"}
  /\ phase = "idle" => handles = {"bookmarks"} \cup (IF history THEN {"history"} ELSE {})

(* What the capability says of the two databases once it is there.          *)
CapabilityInv ==
  /\ unavailable = missing
  /\ phase \in {"history", "detect", "idle", "released"} =>
       /\ Matches(BookmarksPrint, files.bookmarks)
       /\ unavailable = UnitsAbsent(BookmarksPrint, files.bookmarks)
                          \cup (IF phase \in {"idle", "released"} /\ ~history
                                THEN {"history"} ELSE {})
  /\ history => Matches(HistoryPrint, files.history)

(* What an iterator did is what it would do again: nothing it depends on      *)
(* changes after Open.                                                     *)
StreamInv ==
  /\ phase \notin {"idle", "released"} =>
       outcome = None /\ given = [s \in DOMAIN Iterators |-> NotRanged]
  /\ outcome \in {None, "complete", "ErrUnavailable"}
  /\ outcome # None => stream \in DOMAIN Iterators
  /\ outcome = "complete" => selected = Wanted(stream)
  /\ outcome = "ErrUnavailable" => Refused(stream)
  /\ DOMAIN given = DOMAIN Iterators
  /\ \A s \in DOMAIN Iterators :
       given[s] \in {NotRanged, IF Refused(s) THEN {} ELSE Rows(s)}

IInv == HandleInv /\ CapabilityInv /\ StreamInv

-----------------------------------------------------------------------------
LEMMA IteratorNames == DOMAIN Iterators = {"Bookmarks", "ReadingList", "History"}
BY DEF Iterators

LEMMA IteratorsAre ==
  /\ Iterators["Bookmarks"] = Bookmarks
  /\ Iterators["ReadingList"] = ReadingList
  /\ Iterators["History"] = History
BY DEF Iterators

(* History is no unit of Bookmarks.db, and History.db has no units.          *)
LEMMA Units ==
  /\ "history" \notin DOMAIN BookmarksPrint.optional
  /\ DOMAIN HistoryPrint.optional = {}
BY DEF BookmarksPrint, HistoryPrint, bookmarksSpec, historySpec

LEMMA AbsentIsUnit ==
  ASSUME NEW dbase
  PROVE  /\ "history" \notin UnitsAbsent(BookmarksPrint, dbase)
         /\ UnitsAbsent(HistoryPrint, dbase) = {}
BY Units DEF UnitsAbsent

(* A unit whose columns are those of the fingerprint, selected under itself.  *)
LEMMA UnitGuaranteed ==
  ASSUME NEW fp, NEW units, NEW u \in units \cap DOMAIN fp.optional, NEW c \in fp.optional[u]
  PROVE  Provides(Guaranteed(fp, units), c)
BY DEF Provides, Guaranteed

LEMMA RequiredGuaranteed ==
  ASSUME NEW fp, NEW units, NEW c \in fp.required
  PROVE  Provides(Guaranteed(fp, units), c)
BY DEF Provides, Guaranteed

LEMMA BookmarksCovered == QueryCovered(BookmarksPrint, {}, Bookmarks)
<1>1. Bookmarks.columns = BookmarksPrint.required
  BY DEF Bookmarks, BookmarksPrint, bookmarksSpec, Anchor
<1>2. Bookmarks.gated = BookmarksPrint.optional
  BY DEF Bookmarks, BookmarksPrint, bookmarksSpec, Anchor
<1>3. \A c \in Bookmarks.columns : Provides(Guaranteed(BookmarksPrint, {} \cup Bookmarks.needs), c)
  BY <1>1, RequiredGuaranteed
<1>4. ASSUME NEW u \in DOMAIN Bookmarks.gated, NEW c \in Bookmarks.gated[u]
      PROVE  Provides(Guaranteed(BookmarksPrint, {} \cup Bookmarks.needs \cup {u}), c)
  BY <1>2, UnitGuaranteed
<1> QED
  BY <1>3, <1>4 DEF QueryCovered

LEMMA ReadingListCovered == QueryCovered(BookmarksPrint, {}, ReadingList)
<1>1. /\ BookmarksPrint.required = Of("bookmarks", {"id", "parent", "type", "title", "url"})
      /\ "reading_list" \in DOMAIN BookmarksPrint.optional
      /\ BookmarksPrint.optional["reading_list"] = Of("bookmarks", {"read"})
      /\ "modified" \in DOMAIN BookmarksPrint.optional
      /\ BookmarksPrint.optional["modified"] = Of("bookmarks", {"last_modified"})
  BY DEF BookmarksPrint, bookmarksSpec
<1>2. /\ ReadingList.needs = {"reading_list"}
      /\ ReadingList.columns = Of("bookmarks", {"id", "parent", "title", "url", "read"})
      /\ ReadingList.gated = [modified |-> Of("bookmarks", {"last_modified"})]
  BY DEF ReadingList, Anchor
<1>3. ASSUME NEW c \in ReadingList.columns
      PROVE  Provides(Guaranteed(BookmarksPrint, {} \cup ReadingList.needs), c)
  <2>1. c \in BookmarksPrint.required \/ c \in BookmarksPrint.optional["reading_list"]
    BY <1>1, <1>2 DEF Of
  <2>2. "reading_list" \in ({} \cup ReadingList.needs) \cap DOMAIN BookmarksPrint.optional
    BY <1>1, <1>2
  <2> QED
    BY <2>1, <2>2, RequiredGuaranteed, UnitGuaranteed
<1>4. ASSUME NEW u \in DOMAIN ReadingList.gated, NEW c \in ReadingList.gated[u]
      PROVE  Provides(Guaranteed(BookmarksPrint, {} \cup ReadingList.needs \cup {u}), c)
  <2>1. u = "modified" /\ c \in BookmarksPrint.optional["modified"]
    BY <1>1, <1>2
  <2>2. u \in ({} \cup ReadingList.needs \cup {u}) \cap DOMAIN BookmarksPrint.optional
    BY <1>1, <2>1
  <2> QED
    BY <2>1, <2>2, UnitGuaranteed
<1> QED
  BY <1>3, <1>4 DEF QueryCovered

LEMMA HistoryCovered == QueryCovered(HistoryPrint, {}, History)
<1>1. History.columns \subseteq HistoryPrint.required
  BY DEF History, HistoryPrint, historySpec, Preload, Of
<1>2. DOMAIN History.gated = {}
  BY DEF History, Preload
<1>3. \A c \in History.columns : Provides(Guaranteed(HistoryPrint, {} \cup History.needs), c)
  BY <1>1, RequiredGuaranteed
<1> QED
  BY <1>2, <1>3 DEF QueryCovered

-----------------------------------------------------------------------------
(* The units of Bookmarks.db are those Missing tells of it.                 *)
LEMMA BookmarksDetected ==
  ASSUME NEW dbase, NEW i \in 1 .. Len(bookmarksSpec), Detects(bookmarksSpec, dbase, i)
  PROVE  /\ Matches(BookmarksPrint, dbase)
         /\ UnitsAbsent(bookmarksSpec[i], dbase) = UnitsAbsent(BookmarksPrint, dbase)
         /\ Missing(bookmarksSpec[i], dbase) = UnitsAbsent(BookmarksPrint, dbase)
<1>1. i = 1
  BY DEF bookmarksSpec
<1>2. bookmarksSpec[1].alwaysMissing = {}
  BY DEF bookmarksSpec
<1> QED
  BY <1>1, <1>2 DEF Detects, Missing, BookmarksPrint

LEMMA HistoryDetected ==
  ASSUME NEW dbase, Supported(historySpec, dbase)
  PROVE  Matches(HistoryPrint, dbase)
<1>1. PICK i \in 1 .. Len(historySpec) : Matches(historySpec[i], dbase)
  BY DEF Supported
<1>2. i = 1
  BY DEF historySpec
<1> QED
  BY <1>1, <1>2 DEF HistoryPrint

(* The iterators' guards and rows, one equation each.                        *)
LEMMA RefusedAre ==
  /\ Refused("Bookmarks") = FALSE
  /\ Refused("ReadingList") = ("reading_list" \in unavailable)
  /\ Refused("History") = (~history)
BY Zenon DEF Refused

LEMMA RowsAre ==
  /\ Rows("Bookmarks") = {"bookmark"} \cup (IF "reading_list" \in unavailable
                                           THEN {"reading item"} ELSE {})
  /\ Rows("ReadingList") = {"reading item"}
  /\ Rows("History") = {"visit"}
BY Zenon DEF Rows

(* The query of an iterator that is not refused finds every column it names. *)
LEMMA RangeWorks ==
  ASSUME IInv, phase = "idle", NEW s \in DOMAIN Iterators, ~Refused(s)
  PROVE  Unmet(Wanted(s), files[FileOf(s)]) = {}
<1>1. /\ Matches(BookmarksPrint, files.bookmarks)
      /\ UnitsAbsent(BookmarksPrint, files.bookmarks) \subseteq unavailable
  BY DEF IInv, CapabilityInv
<1>2. CASE s = "Bookmarks"
  <2>1. Bookmarks.needs = {}
    BY DEF Bookmarks, Anchor
  <2>2. Unmet(Names(Bookmarks, unavailable), files.bookmarks) = {}
    BY <1>1, <2>1, BookmarksCovered, CoveredWithMore
  <2> QED
    BY <1>2, <2>2, IteratorsAre DEF Wanted, FileOf
<1>3. CASE s = "ReadingList"
  <2>1. ReadingList.needs = {"reading_list"}
    BY DEF ReadingList, Anchor
  <2>2. "reading_list" \notin unavailable
    BY <1>3 DEF Refused
  <2>3. Unmet(Names(ReadingList, unavailable), files.bookmarks) = {}
    BY <1>1, <2>1, <2>2, ReadingListCovered, CoveredWithMore
  <2> QED
    BY <1>3, <2>3, IteratorsAre DEF Wanted, FileOf
<1>4. CASE s = "History"
  <2>1. history
    BY <1>4 DEF Refused
  <2>2. "history" \notin unavailable
    BY <2>1, AbsentIsUnit DEF IInv, CapabilityInv
  <2>3. Matches(HistoryPrint, files.history)
    BY <2>1 DEF IInv, CapabilityInv
  <2>4. History.needs = {"history"}
    BY DEF History, Preload
  <2>5. UnitsAbsent(HistoryPrint, files.history) \subseteq unavailable
    BY AbsentIsUnit
  <2>6. Unmet(Names(History, unavailable), files.history) = {}
    BY <2>2, <2>3, <2>4, <2>5, HistoryCovered, CoveredWithMore
  <2> QED
    BY <1>4, <2>6, IteratorsAre DEF Wanted, FileOf
<1> QED
  BY <1>2, <1>3, <1>4, IteratorNames

-----------------------------------------------------------------------------
LEMMA Initially == Init => IInv
<1> SUFFICES ASSUME Init
             PROVE  IInv
  OBVIOUS
<1>1. HandleInv /\ CapabilityInv
  BY DEF Init, HandleInv, CapabilityInv
<1>2. StreamInv
  BY DEF Init, StreamInv, None
<1> QED
  BY <1>1, <1>2 DEF IInv

(* Before the reader is open, no iterator has been ranged over: a step of     *)
(* Open keeps what there is to say of them.                                *)
LEMMA StreamUntouched ==
  ASSUME StreamInv, phase \notin {"idle", "released"}, UNCHANGED streamVars
  PROVE  StreamInv'
BY DEF StreamInv, streamVars, None

LEMMA Inductive == IInv /\ [Next]_vars => IInv'
<1> SUFFICES ASSUME IInv, [Next]_vars
             PROVE  IInv'
  OBVIOUS
<1> USE DEF IInv
<1>1. CASE OpenBookmarks
  BY <1>1, StreamUntouched DEF OpenBookmarks, HandleInv, CapabilityInv
<1>2. CASE DetectBookmarks
  <2>1. PICK i \in 1 .. Len(bookmarksSpec) :
          /\ Detects(bookmarksSpec, files.bookmarks, i)
          /\ unavailable' = UnitsAbsent(bookmarksSpec[i], files.bookmarks)
          /\ missing' = Missing(bookmarksSpec[i], files.bookmarks)
    BY <1>2 DEF DetectBookmarks
  <2>2. /\ Matches(BookmarksPrint, files.bookmarks)
        /\ unavailable' = UnitsAbsent(BookmarksPrint, files.bookmarks)
        /\ missing' = UnitsAbsent(BookmarksPrint, files.bookmarks)
    BY <2>1, BookmarksDetected
  <2>3. /\ phase = "bookmarks" /\ phase' = "history"
        /\ UNCHANGED <<files, handles, history, streamVars>>
    BY <1>2 DEF DetectBookmarks
  <2>4. HandleInv'
    BY <2>3 DEF HandleInv
  <2>5. CapabilityInv'
    BY <2>2, <2>3 DEF CapabilityInv, HandleInv
  <2>6. StreamInv'
    BY <2>3, StreamUntouched
  <2> QED
    BY <2>4, <2>5, <2>6
<1>3. CASE OpenFails
  BY <1>3, StreamUntouched DEF OpenFails, HandleInv, CapabilityInv
<1>4. CASE OpenHistory
  BY <1>4, StreamUntouched DEF OpenHistory, HandleInv, CapabilityInv
<1>5. CASE DetectHistory
  <2>1. Matches(HistoryPrint, files.history)
    BY <1>5, HistoryDetected DEF DetectHistory
  <2> QED
    BY <1>5, <2>1, StreamUntouched DEF DetectHistory, HandleInv, CapabilityInv
<1>6. CASE LoseHistory
  BY <1>6, StreamUntouched DEF LoseHistory, HandleInv, CapabilityInv
<1>7. CASE Close
  <2>1. /\ phase = "idle" /\ phase' = "released"
        /\ UNCHANGED <<files, history, unavailable, missing, streamVars>>
    BY <1>7 DEF Close
  <2>2. handles' = {}
    BY <1>7 DEF Close, HandleInv
  <2>3. HandleInv' /\ CapabilityInv'
    BY <2>1, <2>2 DEF HandleInv, CapabilityInv
  <2>4. \A t \in DOMAIN Iterators :
          /\ Refused(t)' = Refused(t) /\ Rows(t)' = Rows(t)
          /\ Wanted(t)' = Wanted(t)
    BY <2>1 DEF Refused, Rows, Wanted
  <2>5. StreamInv'
    BY <2>1, <2>4 DEF StreamInv, streamVars, None
  <2> QED
    BY <2>3, <2>5
<1>8. ASSUME NEW s \in DOMAIN Iterators, Refuse(s)
      PROVE  IInv'
  <2>1. HandleInv' /\ CapabilityInv'
    BY <1>8 DEF Refuse, HandleInv, CapabilityInv, readerVars
  <2>2. \A t \in DOMAIN Iterators : Refused(t)' = Refused(t) /\ Rows(t)' = Rows(t)
    BY <1>8 DEF Refuse, readerVars, Refused, Rows
  <2>3. StreamInv'
    BY <1>8, <2>2 DEF Refuse, StreamInv
  <2> QED
    BY <2>1, <2>3
<1>9. ASSUME NEW s \in DOMAIN Iterators, RangeOver(s)
      PROVE  IInv'
  <2>1. Unmet(Wanted(s), files[FileOf(s)]) = {}
    BY <1>9, RangeWorks DEF RangeOver
  <2>2. /\ phase = "idle" /\ ~Refused(s)
        /\ stream' = s /\ selected' = Wanted(s) /\ outcome' = "complete"
        /\ given' = [given EXCEPT ![s] = Rows(s)]
        /\ UNCHANGED <<files, phase, readerVars>>
    BY <1>9, <2>1 DEF RangeOver
  <2>3. HandleInv' /\ CapabilityInv'
    BY <2>2 DEF HandleInv, CapabilityInv, readerVars
  <2>4. \A t \in DOMAIN Iterators :
          /\ Refused(t)' = Refused(t) /\ Rows(t)' = Rows(t)
          /\ Wanted(t)' = Wanted(t)
    BY <2>2 DEF readerVars, Refused, Rows, Wanted
  <2>5. StreamInv'
    BY <2>2, <2>4 DEF StreamInv
  <2> QED
    BY <2>3, <2>5
<1>10. CASE UNCHANGED vars
  <2>1. HandleInv' /\ CapabilityInv'
    BY <1>10 DEF vars, readerVars, HandleInv, CapabilityInv
  <2>2. \A t \in DOMAIN Iterators :
          /\ Refused(t)' = Refused(t) /\ Rows(t)' = Rows(t)
          /\ Wanted(t)' = Wanted(t)
    BY <1>10 DEF vars, readerVars, Refused, Rows, Wanted
  <2>3. StreamInv'
    BY <1>10, <2>2 DEF vars, streamVars, StreamInv, None
  <2> QED
    BY <2>1, <2>3
<1> QED
  BY <1>1, <1>2, <1>3, <1>4, <1>5, <1>6, <1>7, <1>8, <1>9, <1>10 DEF Next

LEMMA Invariant == Spec => []IInv
BY Initially, Inductive, PTL DEF Spec

-----------------------------------------------------------------------------
(* Whatever becomes of History.db, the reader holds its handle exactly when  *)
(* the capability offers the history, and a reader that failed to open or is *)
(* closed holds none.                                                      *)
THEOREM HistoryIsAccounted == Spec => []HistoryAccounted
<1>1. IInv => HistoryAccounted
  BY AbsentIsUnit DEF IInv, HandleInv, CapabilityInv, HistoryAccounted
<1> QED
  BY <1>1, Invariant, PTL

(* Bookmarks and ReadingList divide the rows of their table between them.   *)
THEOREM BookmarksDivided == Spec => []EveryBookmarkOnce
<1>1. IInv => EveryBookmarkOnce
  <2> SUFFICES ASSUME IInv, given["Bookmarks"] # NotRanged, given["ReadingList"] # NotRanged
               PROVE  /\ given["Bookmarks"] \cup given["ReadingList"]
                           = {"bookmark", "reading item"}
                      /\ given["Bookmarks"] \cap given["ReadingList"] = {}
    BY DEF EveryBookmarkOnce
  <2>1. given["Bookmarks"] = Rows("Bookmarks")
    BY IteratorNames DEF IInv, StreamInv, Refused
  <2>2. given["ReadingList"] = IF "reading_list" \in unavailable THEN {} ELSE {"reading item"}
    BY IteratorNames DEF IInv, StreamInv, Refused, Rows
  <2> QED
    BY <2>1, <2>2 DEF Rows
<1> QED
  BY <1>1, Invariant, PTL

(* No query of an open reader fails for want of a column, and what an        *)
(* iterator leaves out is reported missing, whatever columns either database *)
(* has.                                                                    *)
THEOREM ReaderIsHonest == Spec => []HonestReader
<1>1. IInv => HonestReader
  <2> SUFFICES ASSUME IInv
               PROVE  HonestReader
    OBVIOUS
  <2>1. outcome # "SQLError" /\ missing = unavailable
    BY DEF IInv, StreamInv, CapabilityInv, None
  <2>2. ASSUME outcome = "complete"
        PROVE  LET q == Iterators[stream] IN
               /\ q.columns \subseteq selected
               /\ \A u \in DOMAIN q.gated : u \in missing \/ q.gated[u] \subseteq selected
    <3>1. selected = Names(Iterators[stream], unavailable)
      BY <2>2 DEF IInv, StreamInv, Wanted
    <3> QED
      BY <2>1, <3>1 DEF Names
  <2>3. ASSUME outcome = "ErrUnavailable"
        PROVE  Iterators[stream].needs \cap missing # {}
    <3>1. /\ stream \in {"ReadingList", "History"} /\ Refused(stream)
          /\ phase \in {"idle", "released"}
      BY <2>3, IteratorNames, RefusedAre DEF IInv, StreamInv, None
    <3>2. CASE stream = "ReadingList"
      <4>1. ReadingList.needs = {"reading_list"}
        BY DEF ReadingList, Anchor
      <4> QED
        BY <2>1, <3>1, <3>2, <4>1, IteratorsAre DEF Refused
    <3>3. CASE stream = "History"
      <4>1. History.needs = {"history"}
        BY DEF History, Preload
      <4>2. phase \in {"idle", "released"} /\ ~history
        BY <3>1, <3>3, RefusedAre
      <4>3. "history" \in unavailable
        BY <4>2 DEF IInv, CapabilityInv
      <4> QED
        BY <2>1, <3>3, <4>1, <4>3, IteratorsAre
    <3> QED
      BY <3>1, <3>2, <3>3
  <2> QED
    BY <2>1, <2>2, <2>3 DEF HonestReader
<1> QED
  BY <1>1, Invariant, PTL
=============================================================================
