------------------------------- MODULE Lemmas -------------------------------
(***************************************************************************)
(* What the operators do that several modules are built from, and what the   *)
(* proofs about them share: the least of a set of numbers and induction up   *)
(* to one, stated over sets; sets in order; FlattenSeq; and what matching a fingerprint      *)
(* guarantees a query.                                                     *)
(***************************************************************************)
EXTENDS SelectLists, Orders, SequencesExt, FiniteSetTheorems, SequenceTheorems, WellFoundedInduction, TLAPS

-----------------------------------------------------------------------------
(* Natural numbers.                                                        *)

(* A non-empty set of natural numbers has a least element: the initial      *)
(* segments it stands for have a minimal one under inclusion.              *)
LEMMA LeastNatural ==
  ASSUME NEW W \in SUBSET Nat, W # {}
  PROVE  \E m \in W : \A k \in W : m <= k
<1> DEFINE T == {1 .. n : n \in W}
<1>1. IsWellFoundedOn(StrictSubsetOrdering(Nat), FiniteSubsetsOf(Nat))
  BY FS_StrictSubsetOrderingWellFounded
<1>2. T \subseteq FiniteSubsetsOf(Nat) /\ T # {}
  <2>1. \A n \in W : IsFiniteSet(1 .. n) /\ 1 .. n \subseteq Nat
    BY FS_Interval
  <2> QED
    BY <2>1 DEF FiniteSubsetsOf
<1>3. PICK S \in T : \A R \in T : ~(<<R, S>> \in StrictSubsetOrdering(Nat))
  <2> HIDE DEF T
  <2> QED
    BY <1>1, <1>2, WFMin
<1>4. PICK m \in W : S = 1 .. m
  OBVIOUS
<1>5. ASSUME NEW k \in W, ~(m <= k)
      PROVE  FALSE
  <2>1. k \in Nat /\ m \in Nat /\ k < m
    BY <1>5
  <2>2. m \in 1 .. m /\ m \notin 1 .. k
    BY <2>1
  <2>3. 1 .. k \subseteq 1 .. m /\ 1 .. k # 1 .. m
    BY <2>1, <2>2
  <2>4. <<1 .. k, 1 .. m>> \in StrictSubsetOrdering(Nat)
    BY <2>1, <2>3 DEF StrictSubsetOrdering
  <2> QED
    BY <1>3, <1>4, <2>4
<1> QED
  BY <1>5

(* Induction up to a number, over the set where a formula holds.            *)
LEMMA UpTo ==
  ASSUME NEW n \in Nat, NEW W, 0 \in W, \A k \in 1 .. n : k - 1 \in W => k \in W
  PROVE  \A k \in 0 .. n : k \in W
<1> DEFINE V == {k \in 0 .. n : k \notin W}
<1> SUFFICES ASSUME V # {} PROVE FALSE
  OBVIOUS
<1>1. PICK m \in V : \A k \in V : m <= k
  <2>1. V \in SUBSET Nat
    OBVIOUS
  <2> HIDE DEF V
  <2> QED
    BY <2>1, LeastNatural
<1>2. m \in 1 .. n /\ m - 1 \in 0 .. n /\ ~(m <= m - 1)
  BY <1>1
<1>3. m - 1 \in W
  BY <1>1, <1>2
<1> QED
  BY <1>1, <1>2, <1>3

-----------------------------------------------------------------------------
(* Recursive functions.                                                    *)

(* How g is made into a better approximation of a recursive function on D     *)
(* with values in S: at each argument from what g is at those of less size.  *)
Recursion(step, size, D, S) ==
  /\ step \in [[D -> S] -> [D -> S]]
  /\ size \in [D -> Nat]
  /\ \A d \in D : \A g, h \in [D -> S] :
       (\A e \in D : size[e] < size[d] => g[e] = h[e]) => step[g][d] = step[h][d]

(* Such a function exists: recursion that always descends ends.             *)
LEMMA RecursionEnds ==
  ASSUME NEW D, NEW S, NEW step, NEW size, Recursion(step, size, D, S), S # {}
  PROVE  \E f \in [D -> S] : f = step[f]
<1> DEFINE Good(n, g) == g \in [D -> S] /\ \A d \in D : size[d] < n => g[d] = step[g][d]
           Exists == {n \in Nat : \E g : Good(n, g)}
<1>0. /\ \A g \in [D -> S] : step[g] \in [D -> S]
      /\ \A d \in D : size[d] \in Nat
      /\ \A d \in D : \A g, h \in [D -> S] :
           (\A e \in D : size[e] < size[d] => g[e] = h[e]) => step[g][d] = step[h][d]
  BY DEF Recursion
<1>1. 0 \in Exists
  <2>1. PICK s \in S : TRUE
    OBVIOUS
  <2>2. Good(0, [d \in D |-> s])
    BY <1>0
  <2> HIDE DEF Good
  <2> QED
    BY <2>2
<1>2. ASSUME NEW n \in Nat, n \in Exists PROVE n + 1 \in Exists
  <2>1. PICK g : Good(n, g)
    BY <1>2
  <2>2. step[g] \in [D -> S] /\ g \in [D -> S]
    BY <1>0, <2>1
  <2>3. ASSUME NEW d \in D, size[d] < n + 1
        PROVE  step[g][d] = step[step[g]][d]
    <3>1. \A e \in D : size[e] < size[d] => size[e] < n
      BY <1>0, <2>3
    <3>2. \A e \in D : size[e] < size[d] => g[e] = step[g][e]
      BY <2>1, <3>1
    <3> QED
      BY <1>0, <2>2, <3>2
  <2>4. Good(n + 1, step[g])
    BY <2>2, <2>3
  <2> HIDE DEF Good
  <2> QED
    BY <2>4
<1>3. \A n \in Nat : n \in Exists
  <2> HIDE DEF Exists
  <2> SUFFICES ASSUME NEW n \in Nat PROVE n \in Exists
    OBVIOUS
  <2>1. \A k \in 1 .. n : k - 1 \in Exists => k \in Exists
    <3> SUFFICES ASSUME NEW k \in 1 .. n, k - 1 \in Exists PROVE k \in Exists
      OBVIOUS
    <3>1. k - 1 \in Nat /\ (k - 1) + 1 = k
      OBVIOUS
    <3> QED
      BY <1>2, <3>1
  <2>2. \A k \in 0 .. n : k \in Exists
    BY <1>1, <2>1, UpTo
  <2> QED
    BY <2>2
<1>4. \A n \in Nat : \E g : Good(n, g)
  BY <1>3
<1>5. ASSUME NEW n \in Nat, NEW g, Good(n, g), NEW m \in Nat, NEW h, Good(m, h), n <= m
      PROVE  \A d \in D : size[d] < n => g[d] = h[d]
  <2> DEFINE Same == {k \in Nat : \A d \in D : size[d] < k /\ k <= n => g[d] = h[d]}
  <2>1. 0 \in Same
    BY <1>0
  <2>2. ASSUME NEW k \in 1 .. n, k - 1 \in Same PROVE k \in Same
    <3>0. \A d \in D : size[d] < k - 1 => g[d] = h[d]
      BY <2>2
    <3>1. ASSUME NEW d \in D, size[d] < k PROVE g[d] = h[d]
      <4>1. size[d] \in Nat /\ size[d] < n /\ size[d] < m
        BY <1>0, <1>5, <3>1
      <4>2. g[d] = step[g][d] /\ h[d] = step[h][d]
        BY <1>5, <4>1
      <4>3. \A e \in D : size[e] < size[d] => size[e] < k - 1
        BY <1>0, <3>1
      <4>4. \A e \in D : size[e] < size[d] => g[e] = h[e]
        BY <3>0, <4>3
      <4>5. g \in [D -> S] /\ h \in [D -> S]
        BY <1>5
      <4> QED
        BY <1>0, <4>2, <4>4, <4>5
    <3> QED
      BY <3>1
  <2> HIDE DEF Same
  <2>3. \A k \in 0 .. n : k \in Same
    BY <2>1, <2>2, UpTo
  <2>4. n \in Same
    BY <2>3
  <2> QED
    BY <2>4 DEF Same
<1> DEFINE G == [n \in Nat |-> CHOOSE g : Good(n, g)]
           f == [d \in D |-> G[size[d] + 1][d]]
<1>6. \A n \in Nat : Good(n, G[n])
  <2> HIDE DEF Good
  <2> QED
    BY <1>4
<1> HIDE DEF G
<1>7. f \in [D -> S]
  BY <1>0, <1>6
<1>8. ASSUME NEW d \in D PROVE f[d] = step[f][d]
  <2>1. size[d] \in Nat /\ size[d] + 1 \in Nat /\ size[d] < size[d] + 1
    BY <1>0
  <2>2. f[d] = G[size[d] + 1][d]
    OBVIOUS
  <2>3. G[size[d] + 1][d] = step[G[size[d] + 1]][d] /\ G[size[d] + 1] \in [D -> S]
    BY <1>6, <2>1
  <2>4. ASSUME NEW e \in D, size[e] < size[d] PROVE f[e] = G[size[d] + 1][e]
    <3>1. size[e] + 1 \in Nat /\ size[e] + 1 <= size[d] + 1 /\ size[e] < size[e] + 1
      BY <1>0, <2>4
    <3>2. Good(size[e] + 1, G[size[e] + 1]) /\ Good(size[d] + 1, G[size[d] + 1])
      BY <1>6, <2>1, <3>1
    <3>3. G[size[e] + 1][e] = G[size[d] + 1][e]
      <4> HIDE DEF Good
      <4> QED
        BY <1>5, <2>1, <3>1, <3>2
    <3> QED
      BY <3>3
  <2> HIDE DEF f
  <2> QED
    BY <1>0, <1>7, <2>2, <2>3, <2>4
<1>9. step[f] \in [D -> S]
  BY <1>0, <1>7
<1> HIDE DEF f
<1> QED
  BY <1>7, <1>8, <1>9

(* W has every element of D whose elements of less size it has.              *)
Climbs(D, size, W) ==
  /\ \A d \in D : size[d] \in Nat
  /\ \A d \in D : (\A e \in D : size[e] < size[d] => e \in W) => d \in W

(* Induction on size.                                                      *)
LEMMA BySize ==
  ASSUME NEW D, NEW size, NEW W, Climbs(D, size, W)
  PROVE  D \subseteq W
<1> USE DEF Climbs
<1> SUFFICES ASSUME NEW b \in D PROVE b \in W
  OBVIOUS
<1> DEFINE n == size[b] + 1
           V == {k \in 0 .. n : \A d \in D : size[d] < k => d \in W}
<1>1. size[b] \in Nat /\ n \in Nat /\ size[b] < n
  OBVIOUS
<1>2. 0 \in V
  BY <1>1
<1>3. ASSUME NEW k \in 1 .. n, k - 1 \in V PROVE k \in V
  <2>0. \A d \in D : size[d] < k - 1 => d \in W
    BY <1>3
  <2>1. ASSUME NEW d \in D, size[d] < k PROVE d \in W
    <3>1. \A e \in D : size[e] < size[d] => size[e] < k - 1
      BY <2>1
    <3>2. \A e \in D : size[e] < size[d] => e \in W
      BY <2>0, <3>1
    <3> QED
      BY <3>2
  <2>2. k \in 0 .. n
    BY <1>1
  <2> QED
    BY <2>1, <2>2
<1> HIDE DEF V, n
<1>4. \A k \in 0 .. n : k \in V
  BY <1>1, <1>2, <1>3, UpTo
<1>5. n \in V
  BY <1>1, <1>4
<1> QED
  BY <1>1, <1>5 DEF V

(* f and h are the same where they are the same at arguments of less size.    *)
Descends(D, size, f, h) ==
  /\ \A d \in D : size[d] \in Nat
  /\ \A d \in D : (\A e \in D : size[e] < size[d] => f[e] = h[e]) => f[d] = h[d]

LEMMA SameBySize ==
  ASSUME NEW D, NEW size, NEW f, NEW h, Descends(D, size, f, h)
  PROVE  \A d \in D : f[d] = h[d]
<1> DEFINE W == {d \in D : f[d] = h[d]}
<1>1. Climbs(D, size, W)
  BY DEF Climbs, Descends
<1> HIDE DEF W
<1>2. D \subseteq W
  BY <1>1, BySize
<1> QED
  BY <1>2 DEF W

-----------------------------------------------------------------------------
(* Sets in order.                                                          *)

(* A strict total order of a finite set.                                   *)
OrderOn(R, S) ==
  /\ IsFiniteSet(S)
  /\ \A x \in S : <<x, x>> \notin R
  /\ \A x, y, z \in S : <<x, y>> \in R /\ <<y, z>> \in R => <<x, z>> \in R
  /\ \A x, y \in S : x # y => <<x, y>> \in R \/ <<y, x>> \in R

LEMMA PlaceBound ==
  ASSUME NEW S, NEW R, OrderOn(R, S), NEW r \in S
  PROVE  /\ PlaceIn(r, S, R) \in 0 .. Cardinality(S) - 1
         /\ IsFiniteSet({s \in S : <<s, r>> \in R})
<1> DEFINE B == {s \in S : <<s, r>> \in R}
<1>1. B \subseteq S \ {r}
  BY DEF OrderOn
<1>2. IsFiniteSet(S \ {r}) /\ Cardinality(S \ {r}) = Cardinality(S) - 1
  BY FS_RemoveElement DEF OrderOn
<1> HIDE DEF B
<1>3. IsFiniteSet(B) /\ Cardinality(B) <= Cardinality(S) - 1
  BY <1>1, <1>2, FS_Subset
<1>4. Cardinality(B) \in Nat /\ Cardinality(S) \in Nat
  BY <1>3, FS_CardinalityType DEF OrderOn
<1> QED
  BY <1>3, <1>4 DEF PlaceIn, B

LEMMA PlaceIsNat ==
  ASSUME NEW S, NEW R, OrderOn(R, S), NEW r \in S
  PROVE  PlaceIn(r, S, R) \in Nat
<1>1. IsFiniteSet({s \in S : <<s, r>> \in R})
  BY PlaceBound
<1> QED
  BY <1>1, FS_CardinalityType DEF PlaceIn

LEMMA PlaceOrders ==
  ASSUME NEW S, NEW R, OrderOn(R, S), NEW r \in S, NEW s \in S
  PROVE  /\ <<r, s>> \in R <=> PlaceIn(r, S, R) < PlaceIn(s, S, R)
         /\ PlaceIn(r, S, R) = PlaceIn(s, S, R) => r = s
<1>1. ASSUME NEW a \in S, NEW b \in S, <<a, b>> \in R
      PROVE  PlaceIn(a, S, R) < PlaceIn(b, S, R)
  <2> DEFINE A == {t \in S : <<t, a>> \in R}
             B == {t \in S : <<t, b>> \in R}
  <2>1. A \subseteq B /\ a \in B /\ a \notin A
    BY <1>1 DEF OrderOn
  <2>2. IsFiniteSet(A) /\ IsFiniteSet(B)
    BY PlaceBound
  <2>3. Cardinality(A) <= Cardinality(B) /\ Cardinality(A) # Cardinality(B)
    BY <2>1, <2>2, FS_Subset
  <2>4. Cardinality(A) \in Nat /\ Cardinality(B) \in Nat
    BY <2>2, FS_CardinalityType
  <2> QED
    BY <2>3, <2>4 DEF PlaceIn
<1>2. r # s => <<r, s>> \in R \/ <<s, r>> \in R
  BY DEF OrderOn
<1>3. PlaceIn(r, S, R) \in Nat /\ PlaceIn(s, S, R) \in Nat
  BY PlaceIsNat
<1>4. <<r, s>> \in R => PlaceIn(r, S, R) < PlaceIn(s, S, R)
  BY <1>1
<1>5. <<s, r>> \in R => PlaceIn(s, S, R) < PlaceIn(r, S, R)
  BY <1>1
<1> QED
  BY <1>2, <1>3, <1>4, <1>5

(* Every place in the order is taken.                                      *)
LEMMA PlaceTaken ==
  ASSUME NEW S, NEW R, OrderOn(R, S), NEW k \in 0 .. Cardinality(S) - 1
  PROVE  \E r \in S : PlaceIn(r, S, R) = k
<1> DEFINE T == 0 .. Cardinality(S) - 1
           f == [r \in S |-> PlaceIn(r, S, R)]
<1>1. IsFiniteSet(S) /\ Cardinality(S) \in Nat
  BY FS_CardinalityType DEF OrderOn
<1>2. IsFiniteSet(T) /\ Cardinality(T) = Cardinality(S)
  BY <1>1, FS_Interval
<1>3. f \in Injection(S, T)
  <2>1. f \in [S -> T]
    BY PlaceBound
  <2>2. ASSUME NEW r \in S, NEW s \in S, f[r] = f[s] PROVE r = s
    <3>1. PlaceIn(r, S, R) = PlaceIn(s, S, R)
      BY <2>2
    <3> QED
      BY <3>1, PlaceOrders
  <2> HIDE DEF f
  <2> QED
    BY <2>1, <2>2 DEF Injection, IsInjective
<1>4. f \in Surjection(S, T)
  <2> HIDE DEF f, T
  <2> QED
    BY <1>1, <1>2, <1>3, FS_Injection
<1> QED
  BY <1>4 DEF Surjection

(* Listed gives each element of a set once, at its place.                   *)
LEMMA ListedInOrder ==
  ASSUME NEW S, NEW R, OrderOn(R, S)
  PROVE  /\ Listed(S, R) \in Seq(S) /\ Len(Listed(S, R)) = Cardinality(S)
         /\ \A k \in 1 .. Cardinality(S) :
              Listed(S, R)[k] \in S /\ PlaceIn(Listed(S, R)[k], S, R) = k - 1
         /\ \A r \in S : /\ PlaceIn(r, S, R) + 1 \in 1 .. Cardinality(S)
                         /\ r = Listed(S, R)[PlaceIn(r, S, R) + 1]
         /\ Listed(S, R) = <<>> <=> S = {}
<1>1. IsFiniteSet(S) /\ Cardinality(S) \in Nat
  BY FS_CardinalityType DEF OrderOn
<1>2. ASSUME NEW k \in 1 .. Cardinality(S)
      PROVE  Listed(S, R)[k] \in S /\ PlaceIn(Listed(S, R)[k], S, R) = k - 1
  <2>1. \E r \in S : PlaceIn(r, S, R) = k - 1
    BY <1>1, PlaceTaken
  <2> QED
    BY <2>1 DEF Listed
<1>3. DOMAIN Listed(S, R) = 1 .. Cardinality(S) /\ Listed(S, R) \in [1 .. Cardinality(S) -> S]
  BY <1>2 DEF Listed
<1>4. Listed(S, R) \in Seq(S) /\ Len(Listed(S, R)) = Cardinality(S)
  BY <1>1, <1>3
<1>5. ASSUME NEW r \in S
      PROVE  PlaceIn(r, S, R) + 1 \in 1 .. Cardinality(S) /\ r = Listed(S, R)[PlaceIn(r, S, R) + 1]
  <2>1. PlaceIn(r, S, R) \in 0 .. Cardinality(S) - 1
    BY PlaceBound
  <2>2. PICK k \in 1 .. Cardinality(S) : k = PlaceIn(r, S, R) + 1 /\ k - 1 = PlaceIn(r, S, R)
    <3> DEFINE n == PlaceIn(r, S, R)
    <3>1. n \in 0 .. Cardinality(S) - 1
      BY <2>1
    <3> HIDE DEF n
    <3>2. n + 1 \in 1 .. Cardinality(S) /\ (n + 1) - 1 = n
      BY <1>1, <3>1
    <3> QED
      BY <3>2 DEF n
  <2>3. Listed(S, R)[k] \in S /\ PlaceIn(Listed(S, R)[k], S, R) = PlaceIn(r, S, R)
    BY <1>2, <2>2
  <2> QED
    BY <2>2, <2>3, PlaceOrders
<1>6. Listed(S, R) = <<>> <=> S = {}
  <2>1. Cardinality(S) = 0 <=> S = {}
    BY <1>1, FS_EmptySet
  <2> QED
    BY <1>1, <1>4, <2>1, EmptySeq
<1> QED
  BY <1>2, <1>4, <1>5, <1>6

-----------------------------------------------------------------------------
(* Concatenation, in the form the provers can use when it is nested.         *)

LEMMA ConcatType ==
  ASSUME NEW T
  PROVE  \A x, y : x \in Seq(T) /\ y \in Seq(T) => x \o y \in Seq(T)
  BY ConcatProperties

LEMMA ConcatRegroups ==
  ASSUME NEW T
  PROVE  \A x, y, z : x \in Seq(T) /\ y \in Seq(T) /\ z \in Seq(T)
           => (x \o y) \o z = x \o (y \o z)
<1> SUFFICES ASSUME NEW x \in Seq(T), NEW y \in Seq(T), NEW z \in Seq(T)
             PROVE  (x \o y) \o z = x \o (y \o z)
  OBVIOUS
<1> QED
  BY ConcatAssociative

Middle(a, p, q, u) == (a \o (p \o q)) \o u
Halves(a, p, q, u) == (a \o p) \o (q \o u)

LEMMA FourParts ==
  ASSUME NEW T
  PROVE  \A a, p, q, u : a \in Seq(T) /\ p \in Seq(T) /\ q \in Seq(T) /\ u \in Seq(T)
           => Middle(a, p, q, u) = Halves(a, p, q, u)
<1> DEFINE S == Seq(T)
           Join(x, y) == x \o y
<1>1. \A x, y : x \in S /\ y \in S => Join(x, y) \in S
  BY ConcatType
<1>2. \A x, y, z : x \in S /\ y \in S /\ z \in S => Join(Join(x, y), z) = Join(x, Join(y, z))
  BY ConcatRegroups
<1> HIDE DEF S, Join
<1>3. ASSUME NEW a, NEW p, NEW q, NEW u, a \in S, p \in S, q \in S, u \in S
      PROVE  Middle(a, p, q, u) = Halves(a, p, q, u)
  <2>1. Join(a, p) \in S /\ Join(p, q) \in S
    BY <1>1, <1>3
  <2>2. Join(Join(a, Join(p, q)), u) = Join(Join(a, p), Join(q, u))
    BY <1>1, <1>2, <1>3, <2>1
  <2>3. Middle(a, p, q, u) = Join(Join(a, Join(p, q)), u)
    BY Zenon DEF Middle, Join
  <2>4. Halves(a, p, q, u) = Join(Join(a, p), Join(q, u))
    BY Zenon DEF Halves, Join
  <2> QED
    BY <2>2, <2>3, <2>4, Zenon
<1> QED
  BY <1>3, Zenon DEF S

LEMMA TwoParts ==
  ASSUME NEW T, NEW m \in Seq(T), NEW j \in 0 .. Len(m)
  PROVE  m = SubSeq(m, 1, j) \o SubSeq(m, j + 1, Len(m))
<1> DEFINE p == SubSeq(m, 1, j)
           q == SubSeq(m, j + 1, Len(m))
<1>1. /\ p \in Seq(T) /\ Len(p) = j /\ \A i \in 1 .. j : p[i] = m[i]
      /\ q \in Seq(T) /\ Len(q) = Len(m) - j /\ \A i \in 1 .. Len(m) - j : q[i] = m[j + i]
  OBVIOUS
<1> HIDE DEF p, q
<1>2. /\ p \o q \in Seq(T) /\ Len(p \o q) = Len(m)
      /\ \A i \in 1 .. Len(m) : (p \o q)[i] = IF i <= j THEN p[i] ELSE q[i - j]
  <2>1. /\ p \o q \in Seq(T) /\ Len(p \o q) = Len(p) + Len(q)
        /\ \A i \in 1 .. Len(p) + Len(q) :
             (p \o q)[i] = IF i <= Len(p) THEN p[i] ELSE q[i - Len(p)]
    BY <1>1, ConcatProperties
  <2>2. Len(m) \in Nat /\ Len(p) + Len(q) = Len(m)
    BY <1>1
  <2> QED
    BY <1>1, <2>1, <2>2
<1>3. \A i \in 1 .. Len(m) : (p \o q)[i] = m[i]
  BY <1>1, <1>2
<1>4. m = p \o q
  BY <1>2, <1>3, SeqEqual
<1> QED
  BY <1>4 DEF p, q

Nested(a, b, p, q, u) == a \o ((b \o (p \o q)) \o u)
Joined(a, b, p, q) == ((a \o b) \o p) \o q

LEMMA FiveParts ==
  ASSUME NEW T
  PROVE  \A a, b, p, q, u :
           a \in Seq(T) /\ b \in Seq(T) /\ p \in Seq(T) /\ q \in Seq(T) /\ u \in Seq(T)
             => Nested(a, b, p, q, u) = Joined(a, b, p, q) \o u
<1> DEFINE S == Seq(T)
           Join(x, y) == x \o y
<1>1. \A x, y : x \in S /\ y \in S => Join(x, y) \in S
  BY ConcatType
<1>2. \A x, y, z : x \in S /\ y \in S /\ z \in S => Join(Join(x, y), z) = Join(x, Join(y, z))
  BY ConcatRegroups
<1> HIDE DEF S, Join
<1>3. ASSUME NEW a, NEW b, NEW p, NEW q, NEW u,
             a \in S, b \in S, p \in S, q \in S, u \in S
      PROVE  Nested(a, b, p, q, u) = Joined(a, b, p, q) \o u
  <2>1. Join(p, q) \in S /\ Join(a, b) \in S
    BY <1>1, <1>3
  <2>2. Join(b, Join(p, q)) \in S
    BY <1>1, <1>3, <2>1
  <2>3. Join(a, Join(Join(b, Join(p, q)), u)) = Join(Join(Join(Join(a, b), p), q), u)
    BY <1>1, <1>2, <1>3, <2>1, <2>2
  <2>4. Nested(a, b, p, q, u) = Join(a, Join(Join(b, Join(p, q)), u))
    BY Zenon DEF Nested, Join
  <2>5. Joined(a, b, p, q) \o u = Join(Join(Join(Join(a, b), p), q), u)
    BY Zenon DEF Joined, Join
  <2> QED
    BY <2>3, <2>4, <2>5, Zenon
<1> QED
  BY <1>3, Zenon DEF S

-----------------------------------------------------------------------------
(* FlattenSeq, by the table of what its first sequences give.              *)

Table(g, s, T) ==
  /\ g \in [0 .. Len(s) -> Seq(T)]
  /\ g[0] = <<>>
  /\ \A i \in 1 .. Len(s) : g[i] = g[i - 1] \o s[i]

LEMMA TableExists ==
  ASSUME NEW T, NEW s \in Seq(Seq(T))
  PROVE  \E g : Table(g, s, T)
<1> DEFINE Upto(n, g) == /\ g \in [0 .. n -> Seq(T)]
                         /\ g[0] = <<>>
                         /\ \A i \in 1 .. n : g[i] = g[i - 1] \o s[i]
           W == {n \in 0 .. Len(s) : \E g : Upto(n, g)}
<1>1. Len(s) \in Nat /\ \A i \in 1 .. Len(s) : s[i] \in Seq(T)
  OBVIOUS
<1>2. 0 \in W
  <2> DEFINE g == [i \in 0 .. 0 |-> <<>>]
  <2>1. <<>> \in Seq(T)
    OBVIOUS
  <2>2. Upto(0, g)
    BY <2>1
  <2> HIDE DEF Upto
  <2> QED
    BY <1>1, <2>2
<1>3. ASSUME NEW k \in 1 .. Len(s), k - 1 \in W PROVE k \in W
  <2>1. PICK g : Upto(k - 1, g)
    BY <1>3
  <2> DEFINE h == [i \in 0 .. k |-> IF i = k THEN g[k - 1] \o s[k] ELSE g[i]]
  <2>2. k \in Nat /\ k - 1 \in 0 .. k - 1 /\ s[k] \in Seq(T) /\ g[k - 1] \in Seq(T)
    BY <1>1, <2>1
  <2>3. g[k - 1] \o s[k] \in Seq(T)
    BY <2>2
  <2>4. h \in [0 .. k -> Seq(T)]
    BY <2>1, <2>2, <2>3
  <2>5. h[0] = <<>>
    BY <2>1, <2>2
  <2>6. ASSUME NEW i \in 1 .. k PROVE h[i] = h[i - 1] \o s[i]
    <3>1. i - 1 \in 0 .. k /\ i - 1 # k /\ h[i - 1] = g[i - 1]
      BY <2>2
    <3>2. CASE i = k
      <4>0. k \in 0 .. k
        BY <2>2
      <4>1. h[k] = g[k - 1] \o s[k]
        BY <4>0, Zenon
      <4> HIDE DEF h
      <4> QED
        BY <3>1, <3>2, <4>1
    <3>3. CASE i # k
      <4>1. i \in 1 .. k - 1 /\ h[i] = g[i]
        BY <2>2, <3>3
      <4> QED
        BY <2>1, <3>1, <4>1
    <3> QED
      BY <3>2, <3>3
  <2>7. Upto(k, h)
    BY <2>4, <2>5, <2>6
  <2> HIDE DEF Upto, h
  <2> QED
    BY <1>1, <2>7
<1>4. Len(s) \in W
  <2> HIDE DEF W
  <2>1. \A k \in 0 .. Len(s) : k \in W
    BY <1>1, <1>2, <1>3, UpTo
  <2> QED
    BY <1>1, <2>1
<1> QED
  BY <1>4 DEF Table

LEMMA TableEnds ==
  ASSUME NEW T, NEW s \in Seq(Seq(T)), NEW g, Table(g, s, T)
  PROVE  FlattenSeq(s) = g[Len(s)]
<1>1. CASE Len(s) = 0
  <2>1. s = <<>>
    BY <1>1
  <2> QED
    BY <1>1, <2>1 DEF FlattenSeq, Table
<1>2. CASE Len(s) # 0
  <2> DEFINE flatten[i \in 1 .. Len(s)] == IF i = 1 THEN s[i] ELSE flatten[i - 1] \o s[i]
             Is(f) == f = [i \in 1 .. Len(s) |-> IF i = 1 THEN s[i] ELSE f[i - 1] \o s[i]]
             f0 == [i \in 1 .. Len(s) |-> g[i]]
  <2>0. Len(s) \in Nat /\ \A i \in 1 .. Len(s) : s[i] \in Seq(T)
    OBVIOUS
  <2>1. FlattenSeq(s) = flatten[Len(s)]
    BY <1>2, Zenon DEF FlattenSeq
  <2>2. flatten = CHOOSE f : Is(f)
    OBVIOUS
  <2>3. Is(f0)
    <3>1. ASSUME NEW i \in 1 .. Len(s)
          PROVE  f0[i] = IF i = 1 THEN s[i] ELSE f0[i - 1] \o s[i]
      <4>1. CASE i = 1
        <5>1. 1 \in 1 .. Len(s) /\ 1 - 1 = 0 /\ s[1] \in Seq(T)
          BY <2>0, <4>1
        <5>2. g[1] = <<>> \o s[1]
          BY <5>1 DEF Table
        <5>3. g[1] = s[1]
          BY <5>1, <5>2, ConcatEmptySeq
        <5> QED
          BY <4>1, <5>1, <5>3
      <4>2. CASE i # 1
        <5>1. i - 1 \in 1 .. Len(s)
          BY <2>0, <4>2
        <5>2. f0[i] = g[i] /\ f0[i - 1] = g[i - 1]
          BY <5>1
        <5> QED
          BY <4>2, <5>2 DEF Table
      <4> QED
        BY <4>1, <4>2
    <3> QED
      BY <3>1
  <2> HIDE DEF flatten
  <2>4. Is(flatten)
    <3> HIDE DEF f0, Is
    <3> QED
      BY <2>2, <2>3
  <2>5. \A k \in 0 .. Len(s) : k \in {j \in 0 .. Len(s) : j > 0 => flatten[j] = g[j]}
    <3> DEFINE W == {j \in 0 .. Len(s) : j > 0 => flatten[j] = g[j]}
    <3>1. 0 \in W
      BY <2>0
    <3>2. ASSUME NEW k \in 1 .. Len(s), k - 1 \in W PROVE k \in W
      <4>1. flatten[k] = IF k = 1 THEN s[k] ELSE flatten[k - 1] \o s[k]
        BY <2>4
      <4>2. f0[k] = IF k = 1 THEN s[k] ELSE f0[k - 1] \o s[k]
        BY <2>3
      <4>3. k # 1 => flatten[k - 1] = g[k - 1] /\ f0[k - 1] = g[k - 1]
        BY <2>0, <3>2
      <4> QED
        BY <4>1, <4>2, <4>3
    <3> HIDE DEF W
    <3> QED
      BY <2>0, <3>1, <3>2, UpTo DEF W
  <2> QED
    BY <1>2, <2>0, <2>1, <2>5
<1> QED
  BY <1>1, <1>2

(* What a flattened sequence is made of: each beginning of it by the one a   *)
(* sequence shorter.                                                       *)
LEMMA FlattenBySteps ==
  ASSUME NEW T, NEW s \in Seq(Seq(T))
  PROVE  LET F(n) == FlattenSeq([k \in 1 .. n |-> s[k]]) IN
         /\ F(0) = <<>>
         /\ \A n \in 0 .. Len(s) : F(n) \in Seq(T)
         /\ \A n \in 1 .. Len(s) : F(n) = F(n - 1) \o s[n]
         /\ FlattenSeq(s) = F(Len(s))
<1> DEFINE F(n) == FlattenSeq([k \in 1 .. n |-> s[k]])
<1>1. PICK g : Table(g, s, T)
  BY TableExists
<1>2. Len(s) \in Nat /\ \A i \in 1 .. Len(s) : s[i] \in Seq(T)
  OBVIOUS
<1>3. ASSUME NEW n \in 0 .. Len(s)
      PROVE  F(n) = g[n]
  <2> DEFINE t == [k \in 1 .. n |-> s[k]]
             h == [i \in 0 .. n |-> g[i]]
  <2>1. t \in Seq(Seq(T)) /\ Len(t) = n
    BY <1>2
  <2>2. h \in [0 .. n -> Seq(T)] /\ h[0] = <<>> /\ h[n] = g[n]
    BY <1>1, <1>2 DEF Table
  <2>3. ASSUME NEW i \in 1 .. n PROVE h[i] = h[i - 1] \o t[i]
    <3>1. i - 1 \in 0 .. n /\ i \in 0 .. n /\ i \in 1 .. Len(s)
      BY <1>2
    <3>2. h[i] = g[i] /\ h[i - 1] = g[i - 1] /\ t[i] = s[i]
      BY <3>1
    <3>3. g[i] = g[i - 1] \o s[i]
      BY <1>1, <3>1 DEF Table
    <3> QED
      BY <3>2, <3>3
  <2>4. Table(h, t, T)
    BY <2>1, <2>2, <2>3 DEF Table
  <2> HIDE DEF t, h
  <2>5. FlattenSeq(t) = h[n]
    BY <2>1, <2>4, TableEnds
  <2> QED
    BY <2>2, <2>5 DEF t
<1>4. [k \in 1 .. Len(s) |-> s[k]] = s
  BY <1>2
<1> HIDE DEF F
<1>5. F(0) = <<>>
  BY <1>1, <1>2, <1>3 DEF Table
<1>6. \A n \in 0 .. Len(s) : F(n) \in Seq(T)
  BY <1>1, <1>3 DEF Table
<1>7. ASSUME NEW n \in 1 .. Len(s)
      PROVE  F(n) = F(n - 1) \o s[n]
  <2>1. n \in 0 .. Len(s) /\ n - 1 \in 0 .. Len(s)
    BY <1>2
  <2>2. F(n) = g[n] /\ F(n - 1) = g[n - 1]
    BY <1>3, <2>1
  <2> QED
    BY <1>1, <2>2 DEF Table
<1>8. FlattenSeq(s) = F(Len(s))
  BY <1>4 DEF F
<1> QED
  BY <1>5, <1>6, <1>7, <1>8 DEF F

(* G[k] is what the first k of s make together, with something before them.   *)
Sums(G, s, n, T) ==
  /\ \A k \in 0 .. n : G[k] \in Seq(T)
  /\ \A k \in 1 .. n : s[k] \in Seq(T) /\ G[k] = G[k - 1] \o s[k]

Extends(x, y, T) == \E u \in Seq(T) : y = x \o u

(* A sum begins every later one.                                           *)
LEMMA SumsGrow ==
  ASSUME NEW T, NEW n \in Nat, NEW G, NEW s, Sums(G, s, n, T),
         NEW a \in 0 .. n, NEW b \in a .. n
  PROVE  Extends(G[a], G[b], T)
<1> USE DEF Sums
<1> DEFINE Has(c) == \E u \in Seq(T) : G[c] = G[a] \o u
           W == {c \in 0 .. n : c >= a => Has(c)}
<1>1. a \in W
  <2>1. G[a] = G[a] \o <<>> /\ <<>> \in Seq(T)
    BY ConcatEmptySeq
  <2> QED
    BY <2>1
<1>2. ASSUME NEW c \in 1 .. n, c - 1 \in W PROVE c \in W
  <2>1. CASE c < a
    BY <2>1
  <2>2. CASE c = a
    BY <1>1, <2>2
  <2>3. CASE c > a
    <3>1. c - 1 >= a /\ c \in 0 .. n
      BY <2>3
    <3>2. PICK u \in Seq(T) : G[c - 1] = G[a] \o u
      BY <1>2, <3>1
    <3> DEFINE v == u \o s[c]
    <3>3. s[c] \in Seq(T) /\ G[c] = G[c - 1] \o s[c]
      OBVIOUS
    <3>4. v \in Seq(T)
      BY <3>3
    <3>5. (G[a] \o u) \o s[c] = G[a] \o v
      <4>1. G[a] \in Seq(T) /\ u \in Seq(T) /\ s[c] \in Seq(T)
        BY <3>3
      <4> DEFINE x == G[a]
                 z == s[c]
      <4>2. x \in Seq(T) /\ z \in Seq(T)
        BY <4>1
      <4> HIDE DEF x, z
      <4>3. (x \o u) \o z = x \o (u \o z)
        BY <4>2, ConcatAssociative
      <4> QED
        BY <4>3 DEF x, z
    <3>6. G[c] = G[a] \o v
      BY <3>2, <3>3, <3>5, Zenon
    <3> HIDE DEF v
    <3>7. Has(c)
      BY <3>4, <3>6
    <3> HIDE DEF Has
    <3> QED
      BY <3>1, <3>7
  <2> QED
    BY <2>1, <2>2, <2>3
<1>3. 0 \in W
  <2> HIDE DEF Has
  <2>1. a = 0 => Has(0)
    BY <1>1
  <2> QED
    BY <2>1
<1>4. \A c \in 0 .. n : c \in W
  <2> HIDE DEF W
  <2> QED
    BY <1>2, <1>3, UpTo
<1>5. b \in 0 .. n /\ b >= a
  OBVIOUS
<1>6. b \in W
  BY <1>4, <1>5
<1> QED
  BY <1>5, <1>6 DEF Extends

LEMMA Begins ==
  ASSUME NEW T, NEW s \in Seq(T), NEW u \in Seq(T)
  PROVE  IsPrefix(s, s \o u)
<1> DEFINE t == s \o u
<1>1. t \in Seq(T) /\ Len(t) = Len(s) + Len(u) /\ Len(s) \in Nat /\ Len(u) \in Nat
  BY ConcatProperties
<1>2. \A i \in 1 .. Len(s) : t[i] = s[i]
  BY ConcatProperties
<1> HIDE DEF t
<1>3. Len(s) <= Len(t) /\ SubSeq(t, 1, Len(s)) = s /\ SubSeq(s, 1, Len(s)) = s
  BY <1>1, <1>2
<1> QED
  BY <1>3 DEF IsPrefix, t

-----------------------------------------------------------------------------
(* Fingerprints and SELECT lists.                                          *)

(* A database that lacks none of have provides whatever have provides, the *)
(* implicit rowids of its tables included.                                 *)
LEMMA ProvidesTransitive ==
  ASSUME NEW have, NEW dbase, NEW c, Unmet(have, dbase) = {}, Provides(have, c)
  PROVE  Provides(dbase, c)
<1>1. \A e \in have : Provides(dbase, e)
  BY DEF Unmet
<1>2. CASE c \in have
  BY <1>1, <1>2
<1>3. CASE c[2] = "ROWID" /\ \E e \in have : e[1] = c[1]
  <2>1. PICK e \in have : e[1] = c[1]
    BY <1>3
  <2>2. Provides(dbase, e)
    BY <1>1
  <2>3. CASE e \in dbase
    BY <1>3, <2>1, <2>3 DEF Provides
  <2>4. CASE \E f \in dbase : f[1] = e[1]
    <3>1. PICK f \in dbase : f[1] = e[1]
      BY <2>4
    <3>2. f[1] = c[1]
      BY <2>1, <3>1
    <3> QED
      BY <1>3, <3>2 DEF Provides
  <2> QED
    BY <2>2, <2>3, <2>4 DEF Provides
<1> QED
  BY <1>2, <1>3 DEF Provides

(* A database that matches a fingerprint and lacks none of some units has  *)
(* all the columns these guarantee.                                        *)
LEMMA GuaranteedPresent ==
  ASSUME NEW fp, NEW dbase, NEW units, Matches(fp, dbase),
         units \cap UnitsAbsent(fp, dbase) = {}
  PROVE  Unmet(Guaranteed(fp, units), dbase) = {}
<1> SUFFICES ASSUME NEW c \in Guaranteed(fp, units)
             PROVE  Provides(dbase, c)
  BY DEF Unmet
<1>1. CASE c \in fp.required
  BY <1>1 DEF Matches, Unmet
<1>2. CASE c \in UNION {fp.optional[u] : u \in units \cap DOMAIN fp.optional}
  <2>1. PICK u \in units \cap DOMAIN fp.optional : c \in fp.optional[u]
    BY <1>2
  <2>2. Unmet(fp.optional[u], dbase) = {}
    BY <2>1 DEF UnitsAbsent
  <2> QED
    BY <2>1, <2>2 DEF Unmet
<1> QED
  BY <1>1, <1>2 DEF Guaranteed

(* A query that is covered and not skipped finds all its columns.          *)
LEMMA CoveredQuery ==
  ASSUME NEW fp, NEW dbase, NEW units, NEW q, Matches(fp, dbase),
         QueryCovered(fp, units, q),
         units \cap UnitsAbsent(fp, dbase) = {},
         q.needs \cap UnitsAbsent(fp, dbase) = {}
  PROVE  Unmet(Names(q, UnitsAbsent(fp, dbase)), dbase) = {}
<1> DEFINE absent == UnitsAbsent(fp, dbase)
<1> SUFFICES ASSUME NEW c \in Names(q, absent)
             PROVE  Provides(dbase, c)
  BY DEF Unmet
<1>1. CASE c \in q.columns
  <2>1. (units \cup q.needs) \cap absent = {}
    OBVIOUS
  <2>2. Unmet(Guaranteed(fp, units \cup q.needs), dbase) = {}
    BY <2>1, GuaranteedPresent
  <2>3. Provides(Guaranteed(fp, units \cup q.needs), c)
    BY <1>1 DEF QueryCovered
  <2> QED
    BY <2>2, <2>3, ProvidesTransitive
<1>2. CASE c \in UNION {q.gated[u] : u \in DOMAIN q.gated \ absent}
  <2>1. PICK u \in DOMAIN q.gated \ absent : c \in q.gated[u]
    BY <1>2
  <2>2. (units \cup q.needs \cup {u}) \cap absent = {}
    BY <2>1
  <2>3. Unmet(Guaranteed(fp, units \cup q.needs \cup {u}), dbase) = {}
    BY <2>2, GuaranteedPresent
  <2>4. Provides(Guaranteed(fp, units \cup q.needs \cup {u}), c)
    BY <2>1 DEF QueryCovered
  <2> QED
    BY <2>3, <2>4, ProvidesTransitive
<1> QED
  BY <1>1, <1>2 DEF Names

(* It finds them all the more when more units are taken for unavailable.   *)
LEMMA CoveredWithMore ==
  ASSUME NEW fp, NEW dbase, NEW units, NEW q, NEW told, Matches(fp, dbase),
         QueryCovered(fp, units, q),
         UnitsAbsent(fp, dbase) \subseteq told,
         units \cap told = {}, q.needs \cap told = {}
  PROVE  Unmet(Names(q, told), dbase) = {}
<1>1. Unmet(Names(q, UnitsAbsent(fp, dbase)), dbase) = {}
  BY CoveredQuery
<1>2. Names(q, told) \subseteq Names(q, UnitsAbsent(fp, dbase))
  BY DEF Names
<1> QED
  BY <1>1, <1>2 DEF Unmet

(* A database that matches a fingerprint is detected, by that one or one    *)
(* before it.                                                              *)
LEMMA FirstMatch ==
  ASSUME NEW spec, NEW dbase, NEW n \in 1 .. Len(spec), Matches(spec[n], dbase)
  PROVE  \E i \in 1 .. Len(spec) : i <= n /\ Detects(spec, dbase, i)
<1> DEFINE W == {j \in 1 .. n : Matches(spec[j], dbase)}
<1>1. n \in Nat /\ n \in W /\ W \in SUBSET Nat
  OBVIOUS
<1>2. PICK i \in W : \A j \in W : i <= j
  <2> HIDE DEF W
  <2> QED
    BY <1>1, LeastNatural
<1>3. i \in 1 .. Len(spec) /\ i <= n
  BY <1>1
<1>4. ASSUME NEW j \in 1 .. i - 1 PROVE ~Matches(spec[j], dbase)
  <2>1. j \in 1 .. n /\ ~(i <= j)
    BY <1>1, <1>3
  <2> QED
    BY <1>2, <2>1
<1> QED
  BY <1>2, <1>3, <1>4 DEF Detects

(* More columns provide more.                                              *)
LEMMA ProvidesMore ==
  ASSUME NEW dbase, NEW more, dbase \subseteq more, NEW fp
  PROVE  /\ Matches(fp, dbase) => Matches(fp, more)
         /\ Missing(fp, more) \subseteq Missing(fp, dbase)
<1>1. ASSUME NEW want PROVE Unmet(want, more) \subseteq Unmet(want, dbase)
  BY DEF Unmet, Provides
<1>2. Unmet(fp.required, more) \subseteq Unmet(fp.required, dbase)
  BY <1>1
<1>3. \A u \in DOMAIN fp.optional : Unmet(fp.optional[u], more) \subseteq Unmet(fp.optional[u], dbase)
  BY <1>1
<1> QED
  BY <1>2, <1>3 DEF Matches, Missing, UnitsAbsent
=============================================================================
