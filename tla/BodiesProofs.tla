---------------------------- MODULE BodiesProofs ----------------------------
(***************************************************************************)
(* Proofs about the body of a record, in three parts: TypedStream and the   *)
(* archiver of MessageBody, for archives of any bytes, and for texts, chains *)
(* of classes and nestings of any size (DecodeLast, ArchiveDecodes);        *)
(* NoteBody, for notes of any text within the size NoteBody reads lengths   *)
(* of, with any fields around it (NoteTrue); and Bodies, for any records    *)
(* BodiesAssumption allows and any cuts of their blobs.                     *)
(*                                                                         *)
(* A decoder is handled as what Make makes of its seven fields.  Of each    *)
(* operation Op of it,                                                     *)
(*   OpIs      says what it does, case by case;                             *)
(*   OpAfter   that it stops, or goes on further behind on the same stream, *)
(*   (OpGood)  and what it keeps of the tables;                             *)
(*   OpLast    that it does the same on a longer stream, when it does not    *)
(*             stop;                                                        *)
(*   OpRead    that it reads what the archiver's counterpart wrote.          *)
(* What is proved of the functions class, newObject and appendClass is      *)
(* proved by induction over the bytes left and the length of the chain.     *)
(***************************************************************************)
EXTENDS Bodies, Lemmas

(***************************************************************************)
(* The fields of a decoder                                                 *)
(***************************************************************************)

Make(b, pos, strings, objects, ok, int, val) ==
  [b |-> b, pos |-> pos, strings |-> strings, objects |-> objects, ok |-> ok, int |-> int, val |-> val]

LEMMA MadeOf ==
  ASSUME NEW d \in Decoders
  PROVE  d = Make(d.b, d.pos, d.strings, d.objects, d.ok, d.int, d.val)
BY DEF Decoders, Make

LEMMA MadeFields ==
  ASSUME NEW b, NEW pos, NEW strings, NEW objects, NEW ok, NEW int, NEW val
  PROVE  /\ Make(b, pos, strings, objects, ok, int, val).b = b
         /\ Make(b, pos, strings, objects, ok, int, val).pos = pos
         /\ Make(b, pos, strings, objects, ok, int, val).strings = strings
         /\ Make(b, pos, strings, objects, ok, int, val).objects = objects
         /\ Make(b, pos, strings, objects, ok, int, val).ok = ok
         /\ Make(b, pos, strings, objects, ok, int, val).int = int
         /\ Make(b, pos, strings, objects, ok, int, val).val = val
BY DEF Make

LEMMA IsRecord ==
  ASSUME NEW d \in Decoders
  PROVE  \E s1, s2, s3, s4, s5, s6, s7 :
           d \in [b : s1, pos : s2, strings : s3, objects : s4, ok : s5, int : s6, val : s7]
<1> DEFINE s1 == Seq(Nat)
           s2 == Nat
           s3 == Seq(Seq(Nat))
           s4 == Seq(Entries)
           s5 == BOOLEAN
           s6 == Int
           s7 == Values
           R == [b : s1, pos : s2, strings : s3, objects : s4, ok : s5, int : s6, val : s7]
<1>1. d \in R
  BY DEF Decoders
<1> HIDE DEF s1, s2, s3, s4, s5, s6, s7
<1> QED
  BY <1>1

LEMMA SetBytes ==
  ASSUME NEW d \in Decoders, NEW x
  PROVE  [d EXCEPT !.b = x] = Make(x, d.pos, d.strings, d.objects, d.ok, d.int, d.val)
BY IsRecord DEF Make

LEMMA SetPos ==
  ASSUME NEW d \in Decoders, NEW x
  PROVE  [d EXCEPT !.pos = x] = Make(d.b, x, d.strings, d.objects, d.ok, d.int, d.val)
BY IsRecord DEF Make

LEMMA SetStrings ==
  ASSUME NEW d \in Decoders, NEW x
  PROVE  [d EXCEPT !.strings = x] = Make(d.b, d.pos, x, d.objects, d.ok, d.int, d.val)
BY IsRecord DEF Make

LEMMA SetObjects ==
  ASSUME NEW d \in Decoders, NEW x
  PROVE  [d EXCEPT !.objects = x] = Make(d.b, d.pos, d.strings, x, d.ok, d.int, d.val)
BY IsRecord DEF Make

LEMMA SetOk ==
  ASSUME NEW d \in Decoders, NEW x
  PROVE  [d EXCEPT !.ok = x] = Make(d.b, d.pos, d.strings, d.objects, x, d.int, d.val)
BY IsRecord DEF Make

LEMMA SetInt ==
  ASSUME NEW d \in Decoders, NEW x
  PROVE  [d EXCEPT !.int = x] = Make(d.b, d.pos, d.strings, d.objects, d.ok, x, d.val)
BY IsRecord DEF Make

LEMMA SetVal ==
  ASSUME NEW d \in Decoders, NEW x
  PROVE  [d EXCEPT !.val = x] = Make(d.b, d.pos, d.strings, d.objects, d.ok, d.int, x)
BY IsRecord DEF Make

LEMMA FailIs ==
  ASSUME NEW d \in Decoders
  PROVE  Fail(d) = Make(d.b, d.pos, d.strings, d.objects, FALSE, d.int, d.val)
<1> DEFINE x == FALSE
<1> HIDE DEF x
<1>3. [d EXCEPT !.ok = x] = Make(d.b, d.pos, d.strings, d.objects, x, d.int, d.val)
  BY SetOk
<1> QED
  BY <1>3, Zenon DEF Fail, x

LEMMA SkipIs ==
  ASSUME NEW d \in Decoders, NEW n
  PROVE  Skip(d, n) = Make(d.b, d.pos + n, d.strings, d.objects, d.ok, d.int, d.val)
<1> DEFINE x == d.pos + n
<1>1. Skip(d, n) = [d EXCEPT !.pos = x]
  BY DEF Skip
<1> HIDE DEF x
<1> QED
  BY <1>1, SetPos DEF x

LEMMA MadeType ==
  ASSUME NEW b \in Seq(Nat), NEW pos \in Nat, NEW strings \in Seq(Seq(Nat)), NEW objects \in Seq(Entries),
         NEW ok \in BOOLEAN, NEW int \in Int, NEW val \in Values, pos <= Len(b)
  PROVE  Make(b, pos, strings, objects, ok, int, val) \in Decoders
BY DEF Make, Decoders

Typed(b, pos, strings, objects, ok, int, val) ==
  /\ b \in Seq(Nat) /\ pos \in Nat /\ strings \in Seq(Seq(Nat)) /\ objects \in Seq(Entries)
  /\ ok \in BOOLEAN /\ int \in Int /\ val \in Values /\ pos <= Len(b)

LEMMA TypedMade ==
  ASSUME NEW b, NEW pos, NEW strings, NEW objects, NEW ok, NEW int, NEW val,
         Typed(b, pos, strings, objects, ok, int, val)
  PROVE  Make(b, pos, strings, objects, ok, int, val) \in Decoders
BY DEF Make, Decoders, Typed

LEMMA DecoderType ==
  ASSUME NEW d \in Decoders
  PROVE  /\ d.b \in Seq(Nat) /\ d.pos \in Nat /\ d.strings \in Seq(Seq(Nat))
         /\ d.objects \in Seq(Entries) /\ d.ok \in BOOLEAN /\ d.int \in Int /\ d.val \in Values
         /\ Len(d.b) \in Nat /\ d.pos <= Len(d.b) /\ Left(d) \in Nat
BY DEF Decoders, Left

(* A sequence that begins with another one.                                *)
PrefixOf(x, y) == Len(x) <= Len(y) /\ \A i \in 1 .. Len(x) : y[i] = x[i]

(* The decoder on a longer stream.                                         *)
With(d, B) == [d EXCEPT !.b = B]

LEMMA WithIs ==
  ASSUME NEW d \in Decoders, NEW B \in Seq(Nat), PrefixOf(d.b, B)
  PROVE  /\ With(d, B) = Make(B, d.pos, d.strings, d.objects, d.ok, d.int, d.val)
         /\ With(d, B) \in Decoders
<1>1. With(d, B) = Make(B, d.pos, d.strings, d.objects, d.ok, d.int, d.val)
  BY SetBytes DEF With
<1>2. d.pos <= Len(B)
  BY DecoderType DEF PrefixOf
<1> QED
  BY <1>1, <1>2, MadeType, DecoderType

(* A decoder further on the same stream, or stopped.                        *)
After(d, e) ==
  /\ e \in Decoders /\ e.b = d.b
  /\ e.ok => d.ok /\ d.pos < e.pos

(* What is at the position of a decoder that is not at the end.             *)
Width(d) == IF Peek(d) = tagInt16 THEN 3 ELSE IF Peek(d) = tagInt32 THEN 5 ELSE 1

IntAt(d) ==
  IF Peek(d) = tagInt16 THEN Signed(d.b[d.pos + 2] + 256 * d.b[d.pos + 3], 65536)
  ELSE IF Peek(d) = tagInt32
  THEN d.b[d.pos + 2] + 256 * (d.b[d.pos + 3] + 256 * (d.b[d.pos + 4] + 256 * Signed(d.b[d.pos + 5], 256)))
  ELSE int8(Peek(d))

LEMMA SignedType ==
  ASSUME NEW v \in Int, NEW w \in {256, 65536}
  PROVE  Signed(v, w) \in Int
BY DEF Signed

LEMMA Int8Type ==
  ASSUME NEW v \in Int
  PROVE  int8(v) \in Int
BY DEF int8, Signed

LEMMA PeekType ==
  ASSUME NEW d \in Decoders
  PROVE  /\ Peek(d) \in Int
         /\ Peek(d) = -1 <=> Left(d) = 0
         /\ Left(d) > 0 => Peek(d) = d.b[d.pos + 1] /\ Peek(d) \in Nat
<1>1. /\ d.b \in Seq(Nat) /\ d.pos \in Nat /\ Len(d.b) \in Nat /\ d.pos <= Len(d.b)
  BY DecoderType
<1> DEFINE p == d.pos
           s == d.b
<1> HIDE DEF p, s
<1>2. s \in Seq(Nat) /\ p \in Nat /\ Len(s) \in Nat /\ p <= Len(s)
  BY <1>1 DEF p, s
<1>3. p < Len(s) => s[p + 1] \in Nat
  BY <1>2
<1>4. Peek(d) = IF p < Len(s) THEN s[p + 1] ELSE -1
  BY DEF Peek, p, s
<1>5. Left(d) = Len(s) - p
  BY DEF Left, p, s
<1> QED
  BY <1>2, <1>3, <1>4, <1>5 DEF p, s

LEMMA ReadIntIs ==
  ASSUME NEW d \in Decoders
  PROVE  /\ Width(d) \in {1, 3, 5}
         /\ Left(d) < Width(d) => readInt(d) = Fail(d)
         /\ ~(Left(d) < Width(d)) =>
              /\ IntAt(d) \in Int /\ d.pos + Width(d) <= Len(d.b) /\ d.pos + Width(d) \in Nat
              /\ readInt(d) = Make(d.b, d.pos + Width(d), d.strings, d.objects, d.ok, IntAt(d), d.val)
<1>1. Width(d) \in {1, 3, 5}
  BY DEF Width
<1>2. Left(d) < Width(d) => readInt(d) = Fail(d)
  BY DEF readInt, Width
<1>3. ASSUME ~(Left(d) < Width(d))
      PROVE  /\ IntAt(d) \in Int /\ d.pos + Width(d) <= Len(d.b) /\ d.pos + Width(d) \in Nat
             /\ readInt(d) = Make(d.b, d.pos + Width(d), d.strings, d.objects, d.ok, IntAt(d), d.val)
  <2> DEFINE p == d.pos
             s == d.b
             n == Width(d)
  <2>1. s \in Seq(Nat) /\ p \in Nat /\ Len(s) \in Nat /\ p <= Len(s) /\ n \in {1, 3, 5} /\ Len(s) - p >= n
    BY <1>1, <1>3, DecoderType DEF Left
  <2>2. Peek(d) = s[p + 1] /\ Peek(d) \in Nat
    BY <2>1, PeekType DEF Left
  <2> HIDE DEF p, s, n
  <2>3. /\ n >= 3 => s[p + 2] \in Nat /\ s[p + 3] \in Nat
        /\ n = 5 => s[p + 4] \in Nat /\ s[p + 5] \in Nat
    BY <2>1
  <2>4. IntAt(d) \in Int
    <3>1. CASE Peek(d) = tagInt16
      <4>1. n = 3
        BY <3>1 DEF n, Width
      <4>2. IntAt(d) = Signed(s[p + 2] + 256 * s[p + 3], 65536)
        BY <3>1 DEF IntAt, p, s
      <4> QED
        BY <2>3, <4>1, <4>2, SignedType
    <3>2. CASE Peek(d) = tagInt32
      <4>1. n = 5
        BY <3>2 DEF n, Width, tagInt16, tagInt32
      <4>2. IntAt(d) = s[p + 2] + 256 * (s[p + 3] + 256 * (s[p + 4] + 256 * Signed(s[p + 5], 256)))
        BY <3>2 DEF IntAt, p, s, tagInt16, tagInt32
      <4>3. Signed(s[p + 5], 256) \in Int
        BY <2>3, <4>1, SignedType
      <4> QED
        BY <2>3, <4>1, <4>2, <4>3
    <3>3. CASE Peek(d) # tagInt16 /\ Peek(d) # tagInt32
      <4>1. IntAt(d) = int8(Peek(d))
        BY <3>3 DEF IntAt
      <4> QED
        BY <2>2, <4>1, Int8Type
    <3> QED
      BY <3>1, <3>2, <3>3
  <2>5. p + n <= Len(s) /\ p + n \in Nat
    BY <2>1
  <2>6. readInt(d) = [Skip(d, n) EXCEPT !.int = IntAt(d)]
    <3>1. /\ p + 1 + 1 = p + 2 /\ p + 1 + 2 = p + 3 /\ p + 1 + 3 = p + 4 /\ p + 1 + 4 = p + 5
      BY <2>1
    <3>2. ~(Left(d) < n)
      BY <1>3 DEF n
    <3> QED
      BY <3>1, <3>2 DEF readInt, IntAt, n, Width, p, s
  <2>7. Skip(d, n) = Make(d.b, d.pos + n, d.strings, d.objects, d.ok, d.int, d.val)
    BY SkipIs
  <2>8. Skip(d, n) \in Decoders
    BY <2>5, <2>7, MadeType, DecoderType DEF p, s
  <2>9. [Skip(d, n) EXCEPT !.int = IntAt(d)] = Make(d.b, d.pos + n, d.strings, d.objects, d.ok, IntAt(d), d.val)
    <3> DEFINE e == Skip(d, n)
               x == IntAt(d)
    <3>1. e.b = d.b /\ e.pos = d.pos + n /\ e.strings = d.strings /\ e.objects = d.objects /\ e.ok = d.ok /\ e.val = d.val
      BY <2>7, MadeFields
    <3> HIDE DEF e, x
    <3>2. [e EXCEPT !.int = x] = Make(e.b, e.pos, e.strings, e.objects, e.ok, x, e.val)
      BY <2>8, SetInt DEF e
    <3> QED
      BY <3>1, <3>2 DEF e, x
  <2> QED
    BY <2>4, <2>5, <2>6, <2>9 DEF n, p, s
<1> QED
  BY <1>1, <1>2, <1>3

LEMMA FailAfter ==
  ASSUME NEW d \in Decoders
  PROVE  /\ Fail(d) \in Decoders /\ ~Fail(d).ok /\ Fail(d).b = d.b /\ After(d, Fail(d))
         /\ Fail(d).strings = d.strings /\ Fail(d).objects = d.objects /\ Fail(d).val = d.val
<1>1. Fail(d) = Make(d.b, d.pos, d.strings, d.objects, FALSE, d.int, d.val)
  BY FailIs
<1> DEFINE x == FALSE
<1>2. x \in BOOLEAN /\ x = FALSE
  OBVIOUS
<1> HIDE DEF x
<1>3. Fail(d) = Make(d.b, d.pos, d.strings, d.objects, x, d.int, d.val)
  BY <1>1, <1>2, Zenon
<1>4. Fail(d) \in Decoders
  BY <1>2, <1>3, MadeType, DecoderType
<1>5. /\ Fail(d).b = d.b /\ Fail(d).strings = d.strings /\ Fail(d).objects = d.objects
      /\ Fail(d).val = d.val /\ Fail(d).ok = x
  BY <1>3, MadeFields
<1> QED
  BY <1>2, <1>4, <1>5 DEF After

LEMMA WithFields ==
  ASSUME NEW d \in Decoders, NEW B \in Seq(Nat), PrefixOf(d.b, B)
  PROVE  /\ With(d, B).b = B /\ With(d, B).pos = d.pos /\ With(d, B).strings = d.strings
         /\ With(d, B).objects = d.objects /\ With(d, B).ok = d.ok /\ With(d, B).int = d.int
         /\ With(d, B).val = d.val
         /\ Left(With(d, B)) >= Left(d) /\ Left(With(d, B)) \in Nat
         /\ Left(d) > 0 => Peek(With(d, B)) = Peek(d)
<1> DEFINE w == With(d, B)
<1>1. w = Make(B, d.pos, d.strings, d.objects, d.ok, d.int, d.val) /\ w \in Decoders
  BY WithIs
<1>2. /\ w.b = B /\ w.pos = d.pos /\ w.strings = d.strings
      /\ w.objects = d.objects /\ w.ok = d.ok /\ w.int = d.int /\ w.val = d.val
  BY <1>1, MadeFields
<1> HIDE DEF w
<1>3. /\ d.pos \in Nat /\ Len(d.b) \in Nat /\ d.pos <= Len(d.b) /\ Len(B) \in Nat
      /\ Len(d.b) <= Len(B) /\ \A i \in 1 .. Len(d.b) : B[i] = d.b[i]
  BY DecoderType DEF PrefixOf
<1>4. Left(w) >= Left(d) /\ Left(w) \in Nat
  BY <1>2, <1>3 DEF Left
<1>5. ASSUME Left(d) > 0 PROVE Peek(w) = Peek(d)
  <2>1. d.pos + 1 \in 1 .. Len(d.b) /\ d.pos < Len(d.b) /\ d.pos < Len(B)
    BY <1>3, <1>5 DEF Left
  <2>2. Peek(d) = d.b[d.pos + 1]
    BY <2>1 DEF Peek
  <2>3. Peek(w) = B[d.pos + 1]
    BY <1>2, <2>1 DEF Peek
  <2> QED
    BY <1>3, <2>1, <2>2, <2>3
<1> QED
  BY <1>2, <1>4, <1>5 DEF w

LEMMA SameMade ==
  ASSUME NEW d \in Decoders, NEW e \in Decoders, d.b = e.b, d.pos = e.pos, d.strings = e.strings,
         d.objects = e.objects, d.ok = e.ok, d.int = e.int, d.val = e.val
  PROVE  d = e
<1>1. d = Make(d.b, d.pos, d.strings, d.objects, d.ok, d.int, d.val)
  BY MadeOf
<1>2. e = Make(e.b, e.pos, e.strings, e.objects, e.ok, e.int, e.val)
  BY MadeOf
<1> QED
  BY <1>1, <1>2, Zenon

LEMMA ReadIntAfter ==
  ASSUME NEW d \in Decoders
  PROVE  /\ readInt(d) \in Decoders /\ After(d, readInt(d))
         /\ readInt(d).strings = d.strings /\ readInt(d).objects = d.objects
         /\ readInt(d).val = d.val
<1>1. CASE Left(d) < Width(d)
  BY <1>1, ReadIntIs, FailAfter
<1>2. CASE ~(Left(d) < Width(d))
  <2> DEFINE e == readInt(d)
             n == Width(d)
             x == IntAt(d)
  <2>1. /\ n \in {1, 3, 5} /\ x \in Int /\ d.pos + n <= Len(d.b) /\ d.pos + n \in Nat
        /\ e = Make(d.b, d.pos + n, d.strings, d.objects, d.ok, x, d.val)
    BY <1>2, ReadIntIs
  <2> HIDE DEF e, n, x
  <2>2. e \in Decoders
    BY <2>1, MadeType, DecoderType
  <2>3. /\ e.b = d.b /\ e.pos = d.pos + n /\ e.strings = d.strings /\ e.objects = d.objects
        /\ e.ok = d.ok /\ e.val = d.val
    BY <2>1, MadeFields
  <2>4. d.pos \in Nat /\ d.pos + n > d.pos
    BY <2>1, DecoderType
  <2> QED
    BY <2>2, <2>3, <2>4 DEF After, e
<1> QED
  BY <1>1, <1>2

LEMMA ReadIntLast ==
  ASSUME NEW d \in Decoders, NEW B \in Seq(Nat), PrefixOf(d.b, B), readInt(d).ok
  PROVE  readInt(With(d, B)) = With(readInt(d), B)
<1> DEFINE w == With(d, B)
           e == readInt(d)
<1>1. ~(Left(d) < Width(d))
  BY ReadIntIs, FailAfter
<1>2. /\ Width(d) \in {1, 3, 5} /\ IntAt(d) \in Int /\ d.pos + Width(d) <= Len(d.b) /\ d.pos + Width(d) \in Nat
      /\ e = Make(d.b, d.pos + Width(d), d.strings, d.objects, d.ok, IntAt(d), d.val)
  BY <1>1, ReadIntIs
<1>3. /\ w \in Decoders
      /\ w.b = B /\ w.pos = d.pos /\ w.strings = d.strings
      /\ w.objects = d.objects /\ w.ok = d.ok /\ w.int = d.int /\ w.val = d.val
      /\ Left(w) >= Left(d) /\ Left(w) \in Nat
      /\ Left(d) > 0 => Peek(w) = Peek(d)
  BY WithIs, WithFields
<1> HIDE DEF w, e
<1>4. Left(d) \in Nat /\ Left(d) >= Width(d)
  BY <1>1, <1>2, DecoderType
<1>5. Peek(w) = Peek(d) /\ Width(w) = Width(d)
  <2>1. Peek(w) = Peek(d)
    BY <1>2, <1>3, <1>4
  <2> QED
    BY <2>1 DEF Width
<1>6. ~(Left(w) < Width(w))
  <2>1. \A m \in {1, 3, 5} : Left(d) >= m /\ Left(w) >= Left(d) => ~(Left(w) < m)
    BY <1>3, <1>4
  <2> QED
    BY <1>2, <1>3, <1>4, <1>5, <2>1
<1>7. IntAt(w) = IntAt(d)
  <2>1. \A i \in 1 .. Len(d.b) : B[i] = d.b[i]
    BY DEF PrefixOf
  <2> DEFINE p == d.pos
             n == Len(d.b)
  <2>2. p \in Nat /\ n \in Nat /\ p <= n
    BY DecoderType
  <2>3. /\ Width(d) >= 3 => p + 2 \in 1 .. n /\ p + 3 \in 1 .. n
        /\ Width(d) = 5 => p + 4 \in 1 .. n /\ p + 5 \in 1 .. n
    <3>1. \A m \in {1, 3, 5} : n - p >= m =>
            (m >= 3 => p + 2 \in 1 .. n /\ p + 3 \in 1 .. n) /\ (m = 5 => p + 4 \in 1 .. n /\ p + 5 \in 1 .. n)
      <4> HIDE DEF p, n
      <4> QED
        BY <2>2
    <3> QED
      BY <1>2, <1>4, <3>1 DEF Left
  <2>4. CASE Peek(d) = tagInt16
    <3>1. B[p + 2] = d.b[p + 2] /\ B[p + 3] = d.b[p + 3]
      BY <2>1, <2>3, <2>4 DEF Width
    <3> QED
      BY <1>3, <1>5, <2>4, <3>1 DEF IntAt
  <2>5. CASE Peek(d) = tagInt32
    <3>1. Width(d) = 5
      BY <2>5 DEF Width, tagInt16, tagInt32
    <3>3. p + 2 \in 1 .. n /\ p + 3 \in 1 .. n /\ p + 4 \in 1 .. n /\ p + 5 \in 1 .. n
      BY <2>3, <3>1
    <3>2. B[p + 2] = d.b[p + 2] /\ B[p + 3] = d.b[p + 3] /\ B[p + 4] = d.b[p + 4] /\ B[p + 5] = d.b[p + 5]
      <4> HIDE DEF p
      <4> QED
        BY <2>1, <3>3
    <3> QED
      BY <1>3, <1>5, <2>5, <3>2 DEF IntAt
  <2>6. CASE Peek(d) # tagInt16 /\ Peek(d) # tagInt32
    BY <1>5, <2>6 DEF IntAt
  <2> QED
    BY <2>4, <2>5, <2>6
<1>8. readInt(w) = Make(B, d.pos + Width(d), d.strings, d.objects, d.ok, IntAt(d), d.val)
  BY <1>3, <1>5, <1>6, <1>7, ReadIntIs
<1>9. With(e, B) = Make(B, d.pos + Width(d), d.strings, d.objects, d.ok, IntAt(d), d.val)
  <2>1. e \in Decoders
    BY ReadIntAfter DEF e
  <2>2. /\ e.b = d.b /\ e.pos = d.pos + Width(d) /\ e.strings = d.strings /\ e.objects = d.objects
        /\ e.ok = d.ok /\ e.int = IntAt(d) /\ e.val = d.val
    BY <1>2, MadeFields
  <2>3. With(e, B) = Make(B, e.pos, e.strings, e.objects, e.ok, e.int, e.val)
    BY <2>1, <2>2, WithIs
  <2> QED
    BY <2>2, <2>3
<1> QED
  BY <1>8, <1>9 DEF w, e

(* One field of a decoder set, on a stream and on a longer one.             *)

LEMMA PosSet ==
  ASSUME NEW d \in Decoders, NEW x \in 0 .. Len(d.b), NEW e, e = [d EXCEPT !.pos = x]
  PROVE  /\ e \in Decoders /\ e.pos = x
         /\ e.b = d.b /\ e.strings = d.strings /\ e.objects = d.objects /\ e.ok = d.ok /\ e.int = d.int /\ e.val = d.val
<1>1. e = Make(d.b, x, d.strings, d.objects, d.ok, d.int, d.val)
  BY SetPos
<1>0. Typed(d.b, x, d.strings, d.objects, d.ok, d.int, d.val)
  BY DecoderType DEF Typed
<1>3. Make(d.b, x, d.strings, d.objects, d.ok, d.int, d.val) \in Decoders
  BY <1>0, TypedMade
<1>2. e \in Decoders
  BY <1>1, <1>3
<1> QED
  BY <1>1, <1>2, MadeFields

LEMMA PosSetLast ==
  ASSUME NEW d \in Decoders, NEW B \in Seq(Nat), PrefixOf(d.b, B), NEW x \in 0 .. Len(d.b)
  PROVE  [With(d, B) EXCEPT !.pos = x] = With([d EXCEPT !.pos = x], B)
<1> DEFINE w == With(d, B)
           e == [d EXCEPT !.pos = x]
<1>1. w \in Decoders /\ w.b = B /\ w.pos = d.pos /\ w.strings = d.strings /\ w.objects = d.objects /\ w.ok = d.ok /\ w.int = d.int /\ w.val = d.val
  BY WithIs, WithFields
<1>2. e \in Decoders /\ e.pos = x /\ e.b = d.b /\ e.strings = d.strings /\ e.objects = d.objects /\ e.ok = d.ok /\ e.int = d.int /\ e.val = d.val
  BY PosSet
<1> HIDE DEF w, e
<1>3. [w EXCEPT !.pos = x] = Make(w.b, x, w.strings, w.objects, w.ok, w.int, w.val)
  BY <1>1, SetPos
<1>4. With(e, B) = Make(B, e.pos, e.strings, e.objects, e.ok, e.int, e.val)
  BY <1>2, WithIs
<1> QED
  BY <1>1, <1>2, <1>3, <1>4 DEF w, e

LEMMA StringsSet ==
  ASSUME NEW d \in Decoders, NEW x \in Seq(Seq(Nat)), NEW e, e = [d EXCEPT !.strings = x]
  PROVE  /\ e \in Decoders /\ e.strings = x
         /\ e.b = d.b /\ e.pos = d.pos /\ e.objects = d.objects /\ e.ok = d.ok /\ e.int = d.int /\ e.val = d.val
<1>1. e = Make(d.b, d.pos, x, d.objects, d.ok, d.int, d.val)
  BY SetStrings
<1>0. Typed(d.b, d.pos, x, d.objects, d.ok, d.int, d.val)
  BY DecoderType DEF Typed
<1>3. Make(d.b, d.pos, x, d.objects, d.ok, d.int, d.val) \in Decoders
  BY <1>0, TypedMade
<1>2. e \in Decoders
  BY <1>1, <1>3
<1> QED
  BY <1>1, <1>2, MadeFields

LEMMA StringsSetLast ==
  ASSUME NEW d \in Decoders, NEW B \in Seq(Nat), PrefixOf(d.b, B), NEW x \in Seq(Seq(Nat))
  PROVE  [With(d, B) EXCEPT !.strings = x] = With([d EXCEPT !.strings = x], B)
<1> DEFINE w == With(d, B)
           e == [d EXCEPT !.strings = x]
<1>1. w \in Decoders /\ w.b = B /\ w.pos = d.pos /\ w.strings = d.strings /\ w.objects = d.objects /\ w.ok = d.ok /\ w.int = d.int /\ w.val = d.val
  BY WithIs, WithFields
<1>2. e \in Decoders /\ e.strings = x /\ e.b = d.b /\ e.pos = d.pos /\ e.objects = d.objects /\ e.ok = d.ok /\ e.int = d.int /\ e.val = d.val
  BY StringsSet
<1> HIDE DEF w, e
<1>3. [w EXCEPT !.strings = x] = Make(w.b, w.pos, x, w.objects, w.ok, w.int, w.val)
  BY <1>1, SetStrings
<1>4. With(e, B) = Make(B, e.pos, e.strings, e.objects, e.ok, e.int, e.val)
  BY <1>2, WithIs
<1> QED
  BY <1>1, <1>2, <1>3, <1>4 DEF w, e

LEMMA ObjectsSet ==
  ASSUME NEW d \in Decoders, NEW x \in Seq(Entries), NEW e, e = [d EXCEPT !.objects = x]
  PROVE  /\ e \in Decoders /\ e.objects = x
         /\ e.b = d.b /\ e.pos = d.pos /\ e.strings = d.strings /\ e.ok = d.ok /\ e.int = d.int /\ e.val = d.val
<1>1. e = Make(d.b, d.pos, d.strings, x, d.ok, d.int, d.val)
  BY SetObjects
<1>0. Typed(d.b, d.pos, d.strings, x, d.ok, d.int, d.val)
  BY DecoderType DEF Typed
<1>3. Make(d.b, d.pos, d.strings, x, d.ok, d.int, d.val) \in Decoders
  BY <1>0, TypedMade
<1>2. e \in Decoders
  BY <1>1, <1>3
<1> QED
  BY <1>1, <1>2, MadeFields

LEMMA ObjectsSetLast ==
  ASSUME NEW d \in Decoders, NEW B \in Seq(Nat), PrefixOf(d.b, B), NEW x \in Seq(Entries)
  PROVE  [With(d, B) EXCEPT !.objects = x] = With([d EXCEPT !.objects = x], B)
<1> DEFINE w == With(d, B)
           e == [d EXCEPT !.objects = x]
<1>1. w \in Decoders /\ w.b = B /\ w.pos = d.pos /\ w.strings = d.strings /\ w.objects = d.objects /\ w.ok = d.ok /\ w.int = d.int /\ w.val = d.val
  BY WithIs, WithFields
<1>2. e \in Decoders /\ e.objects = x /\ e.b = d.b /\ e.pos = d.pos /\ e.strings = d.strings /\ e.ok = d.ok /\ e.int = d.int /\ e.val = d.val
  BY ObjectsSet
<1> HIDE DEF w, e
<1>3. [w EXCEPT !.objects = x] = Make(w.b, w.pos, w.strings, x, w.ok, w.int, w.val)
  BY <1>1, SetObjects
<1>4. With(e, B) = Make(B, e.pos, e.strings, e.objects, e.ok, e.int, e.val)
  BY <1>2, WithIs
<1> QED
  BY <1>1, <1>2, <1>3, <1>4 DEF w, e

LEMMA IntSet ==
  ASSUME NEW d \in Decoders, NEW x \in Int, NEW e, e = [d EXCEPT !.int = x]
  PROVE  /\ e \in Decoders /\ e.int = x
         /\ e.b = d.b /\ e.pos = d.pos /\ e.strings = d.strings /\ e.objects = d.objects /\ e.ok = d.ok /\ e.val = d.val
<1>1. e = Make(d.b, d.pos, d.strings, d.objects, d.ok, x, d.val)
  BY SetInt
<1>0. Typed(d.b, d.pos, d.strings, d.objects, d.ok, x, d.val)
  BY DecoderType DEF Typed
<1>3. Make(d.b, d.pos, d.strings, d.objects, d.ok, x, d.val) \in Decoders
  BY <1>0, TypedMade
<1>2. e \in Decoders
  BY <1>1, <1>3
<1> QED
  BY <1>1, <1>2, MadeFields

LEMMA IntSetLast ==
  ASSUME NEW d \in Decoders, NEW B \in Seq(Nat), PrefixOf(d.b, B), NEW x \in Int
  PROVE  [With(d, B) EXCEPT !.int = x] = With([d EXCEPT !.int = x], B)
<1> DEFINE w == With(d, B)
           e == [d EXCEPT !.int = x]
<1>1. w \in Decoders /\ w.b = B /\ w.pos = d.pos /\ w.strings = d.strings /\ w.objects = d.objects /\ w.ok = d.ok /\ w.int = d.int /\ w.val = d.val
  BY WithIs, WithFields
<1>2. e \in Decoders /\ e.int = x /\ e.b = d.b /\ e.pos = d.pos /\ e.strings = d.strings /\ e.objects = d.objects /\ e.ok = d.ok /\ e.val = d.val
  BY IntSet
<1> HIDE DEF w, e
<1>3. [w EXCEPT !.int = x] = Make(w.b, w.pos, w.strings, w.objects, w.ok, x, w.val)
  BY <1>1, SetInt
<1>4. With(e, B) = Make(B, e.pos, e.strings, e.objects, e.ok, e.int, e.val)
  BY <1>2, WithIs
<1> QED
  BY <1>1, <1>2, <1>3, <1>4 DEF w, e

LEMMA ValSet ==
  ASSUME NEW d \in Decoders, NEW x \in Values, NEW e, e = [d EXCEPT !.val = x]
  PROVE  /\ e \in Decoders /\ e.val = x
         /\ e.b = d.b /\ e.pos = d.pos /\ e.strings = d.strings /\ e.objects = d.objects /\ e.ok = d.ok /\ e.int = d.int
<1>1. e = Make(d.b, d.pos, d.strings, d.objects, d.ok, d.int, x)
  BY SetVal
<1>0. Typed(d.b, d.pos, d.strings, d.objects, d.ok, d.int, x)
  BY DecoderType DEF Typed
<1>3. Make(d.b, d.pos, d.strings, d.objects, d.ok, d.int, x) \in Decoders
  BY <1>0, TypedMade
<1>2. e \in Decoders
  BY <1>1, <1>3
<1> QED
  BY <1>1, <1>2, MadeFields

LEMMA ValSetLast ==
  ASSUME NEW d \in Decoders, NEW B \in Seq(Nat), PrefixOf(d.b, B), NEW x \in Values
  PROVE  [With(d, B) EXCEPT !.val = x] = With([d EXCEPT !.val = x], B)
<1> DEFINE w == With(d, B)
           e == [d EXCEPT !.val = x]
<1>1. w \in Decoders /\ w.b = B /\ w.pos = d.pos /\ w.strings = d.strings /\ w.objects = d.objects /\ w.ok = d.ok /\ w.int = d.int /\ w.val = d.val
  BY WithIs, WithFields
<1>2. e \in Decoders /\ e.val = x /\ e.b = d.b /\ e.pos = d.pos /\ e.strings = d.strings /\ e.objects = d.objects /\ e.ok = d.ok /\ e.int = d.int
  BY ValSet
<1> HIDE DEF w, e
<1>3. [w EXCEPT !.val = x] = Make(w.b, w.pos, w.strings, w.objects, w.ok, w.int, x)
  BY <1>1, SetVal
<1>4. With(e, B) = Make(B, e.pos, e.strings, e.objects, e.ok, e.int, e.val)
  BY <1>2, WithIs
<1> QED
  BY <1>1, <1>2, <1>3, <1>4 DEF w, e

LEMMA RefIndexAfter ==
  ASSUME NEW d \in Decoders
  PROVE  /\ refIndex(d) \in Decoders /\ After(d, refIndex(d))
         /\ refIndex(d).strings = d.strings /\ refIndex(d).objects = d.objects
<1> DEFINE n == readInt(d)
           x == n.int + refOffset
           e == refIndex(d)
<1>1. /\ n \in Decoders /\ After(d, n) /\ n.strings = d.strings /\ n.objects = d.objects
  BY ReadIntAfter
<1>2. x \in Int /\ e = [n EXCEPT !.int = x]
  BY <1>1, DecoderType DEF refIndex, refOffset, refBase
<1> HIDE DEF n, x, e
<1>3. e \in Decoders /\ e.b = n.b /\ e.pos = n.pos /\ e.strings = n.strings /\ e.objects = n.objects /\ e.ok = n.ok
  BY <1>1, <1>2, IntSet
<1> QED
  BY <1>1, <1>3 DEF After, e

LEMMA RefIndexLast ==
  ASSUME NEW d \in Decoders, NEW B \in Seq(Nat), PrefixOf(d.b, B), refIndex(d).ok
  PROVE  refIndex(With(d, B)) = With(refIndex(d), B)
<1> DEFINE n == readInt(d)
           x == n.int + refOffset
           m == readInt(With(d, B))
<1>1. n \in Decoders /\ n.b = d.b
  BY ReadIntAfter DEF After
<1>2. x \in Int /\ refIndex(d) = [n EXCEPT !.int = x]
  BY <1>1, DecoderType DEF refIndex, refOffset, refBase
<1>3. refIndex(d).ok = n.ok
  <2> DEFINE e == refIndex(d)
  <2> HIDE DEF n, x, e
  <2>1. e = [n EXCEPT !.int = x]
    BY <1>2 DEF e
  <2>2. e.ok = n.ok
    BY <1>1, <1>2, <2>1, IntSet
  <2> QED
    BY <2>2 DEF e
<1>4. m = With(n, B)
  BY <1>3, ReadIntLast
<1>5. m.int = n.int
  BY <1>1, <1>4, WithFields
<1>6. refIndex(With(d, B)) = [m EXCEPT !.int = x]
  BY <1>5 DEF refIndex
<1> HIDE DEF n, x, m
<1>7. [With(n, B) EXCEPT !.int = x] = With([n EXCEPT !.int = x], B)
  BY <1>1, <1>2, IntSetLast
<1> QED
  BY <1>2, <1>4, <1>6, <1>7

LEMMA SkipType ==
  ASSUME NEW d \in Decoders, NEW k \in Nat, k <= Left(d)
  PROVE  /\ Skip(d, k) \in Decoders /\ Skip(d, k).b = d.b /\ Skip(d, k).pos = d.pos + k
         /\ Skip(d, k).strings = d.strings /\ Skip(d, k).objects = d.objects /\ Skip(d, k).ok = d.ok
         /\ Skip(d, k).int = d.int /\ Skip(d, k).val = d.val
         /\ Left(Skip(d, k)) = Left(d) - k
<1> DEFINE x == d.pos + k
           e == Skip(d, k)
<1>1. d.pos \in Nat /\ Len(d.b) \in Nat /\ d.pos <= Len(d.b) /\ Left(d) = Len(d.b) - d.pos
  BY DecoderType DEF Left
<1>2. x \in 0 .. Len(d.b) /\ e = [d EXCEPT !.pos = x]
  BY <1>1 DEF Skip
<1> HIDE DEF x, e
<1>3. e \in Decoders /\ e.pos = x /\ e.b = d.b /\ e.strings = d.strings /\ e.objects = d.objects
      /\ e.ok = d.ok /\ e.int = d.int /\ e.val = d.val
  BY <1>2, PosSet
<1>4. Left(e) = Left(d) - k
  <2>1. Left(e) = Len(d.b) - x
    BY <1>3 DEF Left
  <2> QED
    BY <1>1, <2>1 DEF x
<1> QED
  BY <1>3, <1>4 DEF e, x

LEMMA SkipLast ==
  ASSUME NEW d \in Decoders, NEW B \in Seq(Nat), PrefixOf(d.b, B), NEW k \in Nat, k <= Left(d)
  PROVE  Skip(With(d, B), k) = With(Skip(d, k), B)
<1> DEFINE x == d.pos + k
<1>1. d.pos \in Nat /\ Len(d.b) \in Nat /\ d.pos <= Len(d.b) /\ Left(d) = Len(d.b) - d.pos
  BY DecoderType DEF Left
<1>2. x \in 0 .. Len(d.b)
  BY <1>1
<1>3. Skip(d, k) = [d EXCEPT !.pos = x]
  BY DEF Skip
<1>4. Skip(With(d, B), k) = [With(d, B) EXCEPT !.pos = x]
  BY WithFields DEF Skip
<1> HIDE DEF x
<1>5. [With(d, B) EXCEPT !.pos = x] = With([d EXCEPT !.pos = x], B)
  BY <1>2, PosSetLast
<1> QED
  BY <1>3, <1>4, <1>5

LEMMA ValuesType ==
  /\ \A s \in Seq(Nat) : Str(s) \in Values /\ Str(s).kind = "string" /\ Str(s).str = s
  /\ \A i \in Nat : Pointer(i) \in Values /\ Pointer(i).kind = "pointer" /\ Pointer(i).ref = i
  /\ Nothing \in Values /\ Nothing = Pointer(0)
  /\ \A v \in Values : v.kind \in {"string", "pointer"} /\ v.str \in Seq(Nat) /\ v.ref \in Nat
BY DEF Str, Pointer, Nothing, Values

LEMMA EntriesType ==
  /\ \A s \in Seq(Nat) : Object(s) \in Entries /\ Class(s) \in Entries
  /\ Reserved \in Entries
  /\ \A o \in Entries : /\ o.kind \in {"object", "class", "reserved"} /\ o.name \in Seq(Nat)
                        /\ o.hasString \in BOOLEAN /\ o.text \in Seq(Nat)
BY DEF Object, Class, Reserved, Entries

LEMMA CutOf ==
  ASSUME NEW x \in Seq(Nat), NEW y \in Seq(Nat), PrefixOf(x, y), NEW i \in Nat, NEW j \in Nat, j <= Len(x)
  PROVE  SubSeq(x, i + 1, j) \in Seq(Nat) /\ SubSeq(y, i + 1, j) = SubSeq(x, i + 1, j)
<1>1. Len(x) \in Nat /\ Len(y) \in Nat /\ Len(x) <= Len(y) /\ \A k \in 1 .. Len(x) : y[k] = x[k]
  BY DEF PrefixOf
<1> DEFINE p == SubSeq(x, i + 1, j)
           q == SubSeq(y, i + 1, j)
<1>2. p \in Seq(Nat) /\ q \in Seq(Nat)
  BY <1>1
<1>3. CASE i + 1 <= j
  <2>1. /\ Len(p) = j - i /\ Len(q) = j - i
        /\ \A k \in 1 .. j - i : p[k] = x[i + k] /\ q[k] = y[i + k]
    BY <1>1, <1>3
  <2>2. \A k \in 1 .. j - i : i + k \in 1 .. Len(x)
    BY <1>1, <1>3
  <2> HIDE DEF p, q
  <2>3. \A k \in 1 .. Len(p) : q[k] = p[k]
    BY <1>1, <2>1, <2>2
  <2>4. q = p
    BY <1>2, <2>1, <2>3, SeqEqual
  <2> QED
    BY <1>2, <2>4 DEF p, q
<1>4. CASE ~(i + 1 <= j)
  BY <1>1, <1>4
<1> QED
  BY <1>3, <1>4

(* The case of a counted string that is there.                              *)
LEMMA CountedIs ==
  ASSUME NEW d \in Decoders, NEW n, n = readInt(d)
  PROVE  /\ ~n.ok => Counted(d) = n
         /\ n.ok /\ (n.int < 0 \/ n.int > Left(n)) => Counted(d) = Fail(n)
         /\ n.ok /\ ~(n.int < 0 \/ n.int > Left(n)) =>
              /\ n.int \in Nat /\ n.int <= Left(n) /\ n.pos + n.int <= Len(n.b) /\ n.pos + n.int \in Nat
              /\ n.pos \in Nat
              /\ Counted(d) =
                   [Skip(n, n.int) EXCEPT !.val = Str(SubSeq(n.b, n.pos + 1, n.pos + n.int))]
<1>1. n \in Decoders
  BY ReadIntAfter
<1>2. /\ n.int \in Int /\ Left(n) \in Nat /\ n.pos \in Nat /\ Len(n.b) \in Nat /\ n.pos <= Len(n.b)
      /\ Left(n) = Len(n.b) - n.pos
  BY <1>1, DecoderType DEF Left
<1>3. ~n.ok => Counted(d) = n
  BY DEF Counted, Then
<1>4. n.ok /\ (n.int < 0 \/ n.int > Left(n)) => Counted(d) = Fail(n)
  BY DEF Counted, Then
<1>5. n.ok /\ ~(n.int < 0 \/ n.int > Left(n)) => Counted(d) =
                   [Skip(n, n.int) EXCEPT !.val = Str(SubSeq(n.b, n.pos + 1, n.pos + n.int))]
  BY DEF Counted, Then
<1>6. ~(n.int < 0 \/ n.int > Left(n)) =>
       n.int \in Nat /\ n.int <= Left(n) /\ n.pos + n.int <= Len(n.b) /\ n.pos + n.int \in Nat
  <2> DEFINE i == n.int
             p == n.pos
             l == Len(n.b)
  <2>1. i \in Int /\ p \in Nat /\ l \in Nat /\ p <= l /\ Left(n) = l - p
    BY <1>2
  <2> HIDE DEF i, p, l
  <2>2. ~(i < 0 \/ i > l - p) => i \in Nat /\ i <= l - p /\ p + i <= l /\ p + i \in Nat
    BY <2>1
  <2> QED
    BY <2>1, <2>2 DEF i, p, l
<1> QED
  BY <1>2, <1>3, <1>4, <1>5, <1>6

LEMMA CountedAfter ==
  ASSUME NEW d \in Decoders
  PROVE  /\ Counted(d) \in Decoders /\ After(d, Counted(d))
         /\ Counted(d).strings = d.strings /\ Counted(d).objects = d.objects
         /\ Counted(d).ok => Counted(d).val.kind = "string"
<1> DEFINE n == readInt(d)
           e == Counted(d)
           k == n.int
           v == Str(SubSeq(n.b, n.pos + 1, n.pos + k))
<1>1. n \in Decoders /\ After(d, n) /\ n.strings = d.strings /\ n.objects = d.objects
  BY ReadIntAfter
<1>2. CASE ~n.ok
  <2>1. e = n
    BY <1>2, CountedIs
  <2> QED
    BY <1>1, <1>2, <2>1
<1>3. CASE n.ok /\ (k < 0 \/ k > Left(n))
  <2>1. e = Fail(n)
    BY <1>3, CountedIs
  <2> HIDE DEF n, e
  <2>2. e \in Decoders /\ ~e.ok /\ e.b = n.b /\ e.strings = n.strings /\ e.objects = n.objects
    BY <1>1, <2>1, FailAfter
  <2> QED
    BY <1>1, <2>2 DEF After, e
<1>4. CASE n.ok /\ ~(k < 0 \/ k > Left(n))
  <2> DEFINE m == Skip(n, k)
  <2>1. /\ k \in Nat /\ k <= Left(n) /\ n.pos + k <= Len(n.b) /\ n.pos + k \in Nat /\ n.pos \in Nat
        /\ e = [m EXCEPT !.val = v]
    BY <1>4, CountedIs
  <2> HIDE DEF n, e, k
  <2>2. m \in Decoders /\ m.b = n.b /\ m.pos = n.pos + k /\ m.strings = n.strings /\ m.objects = n.objects /\ m.ok = n.ok
    BY <1>1, <2>1, SkipType
  <2>3. v \in Values /\ v.kind = "string"
    <3>1. n.b \in Seq(Nat)
      BY <1>1, DecoderType
    <3>2. SubSeq(n.b, n.pos + 1, n.pos + k) \in Seq(Nat)
      <4>1. PrefixOf(n.b, n.b)
        BY <3>1 DEF PrefixOf
      <4> QED
        BY <2>1, <3>1, <4>1, CutOf
    <3> QED
      BY <3>2, ValuesType
  <2> HIDE DEF m, v
  <2>4. e \in Decoders /\ e.val = v /\ e.b = m.b /\ e.pos = m.pos /\ e.strings = m.strings /\ e.objects = m.objects /\ e.ok = m.ok
    BY <2>1, <2>2, <2>3, ValSet
  <2>5. n.b = d.b /\ d.ok /\ d.pos < n.pos
    BY <1>1, <1>4 DEF After
  <2>6. d.pos \in Nat /\ d.pos < n.pos + k
    BY <2>1, <2>5, DecoderType
  <2>7. After(d, e)
    BY <2>2, <2>4, <2>5, <2>6 DEF After
  <2> QED
    BY <1>1, <2>2, <2>3, <2>4, <2>7 DEF e
<1> QED
  BY <1>2, <1>3, <1>4

LEMMA CountedLast ==
  ASSUME NEW d \in Decoders, NEW B \in Seq(Nat), PrefixOf(d.b, B), Counted(d).ok
  PROVE  Counted(With(d, B)) = With(Counted(d), B)
<1> DEFINE n == readInt(d)
           w == readInt(With(d, B))
           k == n.int
           s == SubSeq(n.b, n.pos + 1, n.pos + k)
           m == Skip(n, k)
<1>1. n \in Decoders /\ n.b = d.b
  BY ReadIntAfter DEF After
<1>2. n.ok /\ ~(k < 0 \/ k > Left(n))
  <2>1. n.ok
    BY CountedIs
  <2>2. ~Fail(n).ok
    BY <1>1, FailAfter
  <2> QED
    BY <2>1, <2>2, CountedIs
<1>3. /\ k \in Nat /\ k <= Left(n) /\ n.pos + k <= Len(n.b) /\ n.pos + k \in Nat /\ n.pos \in Nat
      /\ Counted(d) = [m EXCEPT !.val = Str(s)]
  BY <1>2, CountedIs
<1>4. w = With(n, B)
  BY <1>2, ReadIntLast
<1>5. PrefixOf(n.b, B) /\ n.b \in Seq(Nat)
  BY <1>1, DecoderType
<1>6. w \in Decoders /\ w.b = B /\ w.pos = n.pos /\ w.int = k /\ w.ok /\ Left(w) >= Left(n) /\ Left(w) \in Nat
  BY <1>1, <1>2, <1>4, <1>5, WithIs, WithFields
<1>7. ~(w.int < 0 \/ w.int > Left(w))
  <2> HIDE DEF k, w, n
  <2>1. Left(n) \in Nat
    BY <1>1, DecoderType
  <2> QED
    BY <1>3, <1>6, <2>1
<1>8. With(d, B) \in Decoders
  BY WithIs
<1>9. Counted(With(d, B)) = [Skip(w, k) EXCEPT !.val = Str(SubSeq(B, n.pos + 1, n.pos + k))]
  BY <1>6, <1>7, <1>8, CountedIs
<1>10. s \in Seq(Nat) /\ SubSeq(B, n.pos + 1, n.pos + k) = s
  <2> DEFINE p == n.pos
             j == n.pos + k
             x == n.b
  <2>1. p \in Nat /\ j \in Nat /\ j <= Len(x) /\ x \in Seq(Nat) /\ PrefixOf(x, B)
    BY <1>3, <1>5
  <2>2. s = SubSeq(x, p + 1, j)
    OBVIOUS
  <2> HIDE DEF p, j, x, s
  <2>3. SubSeq(x, p + 1, j) \in Seq(Nat) /\ SubSeq(B, p + 1, j) = SubSeq(x, p + 1, j)
    BY <2>1, CutOf
  <2> QED
    BY <2>2, <2>3 DEF p, j, x
<1> HIDE DEF n, w, k, s, m
<1>11. m \in Decoders /\ m.b = n.b
  BY <1>1, <1>3, SkipType DEF m
<1>12. Skip(w, k) = With(m, B)
  BY <1>1, <1>3, <1>4, <1>5, SkipLast DEF m
<1>13. Str(s) \in Values
  BY <1>10, ValuesType
<1>14. [With(m, B) EXCEPT !.val = Str(s)] = With([m EXCEPT !.val = Str(s)], B)
  <2> DEFINE v == Str(s)
  <2> HIDE DEF v
  <2>1. v \in Values
    BY <1>13 DEF v
  <2>2. [With(m, B) EXCEPT !.val = v] = With([m EXCEPT !.val = v], B)
    BY <1>5, <1>11, <2>1, ValSetLast
  <2> QED
    BY <2>2 DEF v
<1> QED
  BY <1>3, <1>9, <1>10, <1>12, <1>14

(* A string that was read enters the table.                                 *)
Entered(s) == [s EXCEPT !.strings = Append(@, s.val.str)]

LEMMA EnteredType ==
  ASSUME NEW s \in Decoders
  PROVE  /\ Entered(s) \in Decoders /\ Entered(s).b = s.b /\ Entered(s).pos = s.pos
         /\ Entered(s).strings = Append(s.strings, s.val.str) /\ Entered(s).objects = s.objects
         /\ Entered(s).ok = s.ok /\ Entered(s).val = s.val
<1> DEFINE x == Append(s.strings, s.val.str)
           e == Entered(s)
<1>1. x \in Seq(Seq(Nat))
  <2>1. s.strings \in Seq(Seq(Nat)) /\ s.val.str \in Seq(Nat)
    BY DecoderType, ValuesType
  <2> QED
    BY <2>1
<1>2. e = [s EXCEPT !.strings = x]
  BY DEF Entered
<1> HIDE DEF x, e
<1>3. e \in Decoders /\ e.strings = x /\ e.b = s.b /\ e.pos = s.pos /\ e.objects = s.objects /\ e.ok = s.ok /\ e.val = s.val
  BY <1>1, <1>2, StringsSet
<1> QED
  BY <1>3 DEF e, x

LEMMA EnteredLast ==
  ASSUME NEW s \in Decoders, NEW B \in Seq(Nat), PrefixOf(s.b, B)
  PROVE  Entered(With(s, B)) = With(Entered(s), B)
<1> DEFINE x == Append(s.strings, s.val.str)
<1>1. x \in Seq(Seq(Nat))
  <2>1. s.strings \in Seq(Seq(Nat)) /\ s.val.str \in Seq(Nat)
    BY DecoderType, ValuesType
  <2> QED
    BY <2>1
<1>2. Entered(s) = [s EXCEPT !.strings = x]
  BY DEF Entered
<1>3. Entered(With(s, B)) = [With(s, B) EXCEPT !.strings = x]
  BY WithFields DEF Entered
<1> HIDE DEF x
<1>4. [With(s, B) EXCEPT !.strings = x] = With([s EXCEPT !.strings = x], B)
  BY <1>1, StringsSetLast
<1> QED
  BY <1>2, <1>3, <1>4

(* The five ways to read a shared string.                                   *)
LEMMA SharedStringIs ==
  ASSUME NEW d \in Decoders
  PROVE  /\ Left(d) = 0 => sharedString(d) = Fail(d)
         /\ Left(d) > 0 /\ Peek(d) = tagNil => sharedString(d) = [Skip(d, 1) EXCEPT !.val = Str(<<>>)]
         /\ Left(d) > 0 /\ Peek(d) = tagNew =>
              sharedString(d) = IF Counted(Skip(d, 1)).ok THEN Entered(Counted(Skip(d, 1)))
                                ELSE Counted(Skip(d, 1))
         /\ Left(d) > 0 /\ Peek(d) \notin {tagNil, tagNew} =>
              sharedString(d) =
                IF ~refIndex(d).ok THEN refIndex(d)
                ELSE IF refIndex(d).int < 0 \/ refIndex(d).int >= Len(d.strings) THEN Fail(d)
                ELSE [refIndex(d) EXCEPT !.val = Str(d.strings[refIndex(d).int + 1])]
<1>1. /\ Peek(d) = -1 <=> Left(d) = 0
      /\ Left(d) \in Nat
  BY PeekType, DecoderType
<1>2. Left(d) > 0 => Peek(d) # -1
  BY <1>1
<1>3. Left(d) = 0 => sharedString(d) = Fail(d)
  BY <1>1 DEF sharedString
<1>4. Left(d) > 0 /\ Peek(d) = tagNil => sharedString(d) = [Skip(d, 1) EXCEPT !.val = Str(<<>>)]
  BY <1>2 DEF sharedString
<1>5. tagNew # tagNil
  BY DEF tagNew, tagNil
<1>6. Left(d) > 0 /\ Peek(d) = tagNew =>
              sharedString(d) = IF Counted(Skip(d, 1)).ok THEN Entered(Counted(Skip(d, 1)))
                                ELSE Counted(Skip(d, 1))
  BY <1>2, <1>5 DEF sharedString, Then, Entered
<1>7. Left(d) > 0 /\ Peek(d) \notin {tagNil, tagNew} =>
              sharedString(d) =
                IF ~refIndex(d).ok THEN refIndex(d)
                ELSE IF refIndex(d).int < 0 \/ refIndex(d).int >= Len(d.strings) THEN Fail(d)
                ELSE [refIndex(d) EXCEPT !.val = Str(d.strings[refIndex(d).int + 1])]
  BY <1>2 DEF sharedString, Then
<1> QED
  BY <1>3, <1>4, <1>6, <1>7

LEMMA SharedStringAfter ==
  ASSUME NEW d \in Decoders
  PROVE  /\ sharedString(d) \in Decoders /\ After(d, sharedString(d))
         /\ sharedString(d).objects = d.objects
         /\ sharedString(d).ok => sharedString(d).val.kind = "string"
<1> DEFINE e == sharedString(d)
<1>0. Left(d) \in Nat /\ d.pos \in Nat
  BY DecoderType
<1>1. CASE Left(d) = 0
  <2>1. e = Fail(d)
    BY <1>1, SharedStringIs
  <2> QED
    BY <2>1, FailAfter
<1>2. CASE Left(d) > 0 /\ Peek(d) = tagNil
  <2> DEFINE m == Skip(d, 1)
             v == Str(<<>>)
  <2>1. e = [m EXCEPT !.val = v]
    BY <1>2, SharedStringIs
  <2>2. m \in Decoders /\ m.b = d.b /\ m.pos = d.pos + 1 /\ m.objects = d.objects /\ m.ok = d.ok
    BY <1>0, <1>2, SkipType
  <2>3. v \in Values /\ v.kind = "string"
    <3>1. <<>> \in Seq(Nat)
      OBVIOUS
    <3> QED
      BY <3>1, ValuesType
  <2> HIDE DEF e, m, v
  <2>4. e \in Decoders /\ e.val = v /\ e.b = m.b /\ e.pos = m.pos /\ e.objects = m.objects /\ e.ok = m.ok
    BY <2>1, <2>2, <2>3, ValSet
  <2>5. After(d, e)
    BY <1>0, <2>2, <2>4 DEF After
  <2> QED
    BY <2>2, <2>3, <2>4, <2>5 DEF e
<1>3. CASE Left(d) > 0 /\ Peek(d) = tagNew
  <2> DEFINE m == Skip(d, 1)
             s == Counted(m)
  <2>1. e = IF s.ok THEN Entered(s) ELSE s
    BY <1>3, SharedStringIs
  <2>2. m \in Decoders /\ m.b = d.b /\ m.pos = d.pos + 1 /\ m.objects = d.objects /\ m.ok = d.ok
    BY <1>0, <1>3, SkipType
  <2> HIDE DEF e, m
  <2>3. s \in Decoders /\ After(m, s) /\ s.objects = m.objects /\ (s.ok => s.val.kind = "string")
    BY <2>2, CountedAfter
  <2> HIDE DEF s
  <2>4. /\ Entered(s) \in Decoders /\ Entered(s).b = s.b /\ Entered(s).pos = s.pos
        /\ Entered(s).objects = s.objects /\ Entered(s).ok = s.ok /\ Entered(s).val = s.val
    BY <2>3, EnteredType
  <2>5. s.b = m.b /\ (s.ok => m.ok /\ m.pos < s.pos) /\ s.pos \in Nat
    BY <2>3, DecoderType DEF After
  <2>6. s.ok => d.pos < s.pos
    BY <1>0, <2>2, <2>5
  <2>7. After(d, e)
    BY <2>1, <2>2, <2>3, <2>4, <2>5, <2>6 DEF After
  <2> QED
    BY <2>1, <2>2, <2>3, <2>4, <2>7 DEF e
<1>4. CASE Left(d) > 0 /\ Peek(d) \notin {tagNil, tagNew}
  <2> DEFINE r == refIndex(d)
             i == r.int
             v == Str(d.strings[i + 1])
  <2>1. e = IF ~r.ok THEN r ELSE IF i < 0 \/ i >= Len(d.strings) THEN Fail(d) ELSE [r EXCEPT !.val = v]
    BY <1>4, SharedStringIs
  <2>2. r \in Decoders /\ After(d, r) /\ r.objects = d.objects
    BY RefIndexAfter
  <2>3. i \in Int /\ d.strings \in Seq(Seq(Nat)) /\ Len(d.strings) \in Nat
    BY <2>2, DecoderType
  <2> HIDE DEF e, r, i
  <2>4. CASE ~r.ok
    BY <2>1, <2>2, <2>4 DEF e
  <2>5. CASE r.ok /\ (i < 0 \/ i >= Len(d.strings))
    <3>1. e = Fail(d)
      BY <2>1, <2>5
    <3> QED
      BY <3>1, FailAfter DEF e
  <2>6. CASE r.ok /\ ~(i < 0 \/ i >= Len(d.strings))
    <3>1. d.strings[i + 1] \in Seq(Nat)
      <4>1. i + 1 \in 1 .. Len(d.strings)
        BY <2>3, <2>6
      <4> QED
        BY <2>3, <4>1
    <3>2. v \in Values /\ v.kind = "string"
      BY <3>1, ValuesType
    <3>5. e = [r EXCEPT !.val = v]
      BY <2>1, <2>6
    <3> HIDE DEF v
    <3>3. e \in Decoders /\ e.val = v /\ e.b = r.b /\ e.pos = r.pos /\ e.objects = r.objects /\ e.ok = r.ok
      BY <2>2, <3>2, <3>5, ValSet
    <3>4. After(d, e)
      BY <2>2, <3>3 DEF After
    <3> QED
      BY <2>2, <3>2, <3>3, <3>4 DEF e
  <2> QED
    BY <2>4, <2>5, <2>6
<1> QED
  BY <1>0, <1>1, <1>2, <1>3, <1>4

LEMMA SharedStringLast ==
  ASSUME NEW d \in Decoders, NEW B \in Seq(Nat), PrefixOf(d.b, B), sharedString(d).ok
  PROVE  sharedString(With(d, B)) = With(sharedString(d), B)
<1> DEFINE w == With(d, B)
<1>0. Left(d) \in Nat /\ d.pos \in Nat
  BY DecoderType
<1>1. /\ w \in Decoders
      /\ w.b = B /\ w.strings = d.strings /\ w.objects = d.objects
      /\ Left(w) >= Left(d) /\ Left(w) \in Nat
      /\ Left(d) > 0 => Peek(w) = Peek(d)
  BY WithIs, WithFields
<1> HIDE DEF w
<1>2. Left(d) > 0 /\ Left(w) > 0 /\ Peek(w) = Peek(d)
  <2>1. Left(d) # 0
    BY SharedStringIs, FailAfter
  <2> QED
    BY <1>0, <1>1, <2>1
<1>m. Skip(d, 1) \in Decoders /\ Skip(d, 1).b = d.b /\ Skip(w, 1) = With(Skip(d, 1), B)
  BY <1>0, <1>2, SkipType, SkipLast DEF w
<1>3. CASE Peek(d) = tagNil
  <2> DEFINE m == Skip(d, 1)
             v == Str(<<>>)
  <2>1. sharedString(d) = [m EXCEPT !.val = v] /\ sharedString(w) = [Skip(w, 1) EXCEPT !.val = v]
    BY <1>1, <1>2, <1>3, SharedStringIs
  <2>2. v \in Values
    <3>1. <<>> \in Seq(Nat)
      OBVIOUS
    <3> QED
      BY <3>1, ValuesType
  <2> HIDE DEF m, v
  <2>3. m \in Decoders /\ m.b = d.b /\ Skip(w, 1) = With(m, B)
    BY <1>m DEF m
  <2>4. [With(m, B) EXCEPT !.val = v] = With([m EXCEPT !.val = v], B)
    BY <2>2, <2>3, ValSetLast
  <2> QED
    BY <2>1, <2>3, <2>4 DEF w
<1>4. CASE Peek(d) = tagNew
  <2> DEFINE m == Skip(d, 1)
             s == Counted(m)
             x == Counted(Skip(w, 1))
  <2>1. /\ sharedString(d) = IF s.ok THEN Entered(s) ELSE s
        /\ sharedString(w) = IF x.ok THEN Entered(x) ELSE x
    BY <1>1, <1>2, <1>4, SharedStringIs
  <2> HIDE DEF m
  <2>2. m \in Decoders /\ m.b = d.b /\ Skip(w, 1) = With(m, B)
    BY <1>m DEF m
  <2>3. s.ok
    BY <2>1
  <2>4. x = With(s, B)
    BY <2>2, <2>3, CountedLast
  <2>5. s \in Decoders /\ s.b = d.b
    BY <2>2, CountedAfter DEF After
  <2> HIDE DEF s, x
  <2>6. x.ok = s.ok
    BY <2>4, <2>5, WithFields
  <2>7. Entered(With(s, B)) = With(Entered(s), B)
    BY <2>5, EnteredLast
  <2>8. sharedString(d) = Entered(s) /\ sharedString(w) = Entered(x)
    BY <2>1, <2>3, <2>6
  <2> QED
    BY <2>4, <2>7, <2>8 DEF w
<1>5. CASE Peek(d) \notin {tagNil, tagNew}
  <2> DEFINE r == refIndex(d)
             x == refIndex(w)
             i == r.int
             v == Str(d.strings[i + 1])
  <2>1. sharedString(d) = IF ~r.ok THEN r ELSE IF i < 0 \/ i >= Len(d.strings) THEN Fail(d) ELSE [r EXCEPT !.val = v]
    BY <1>2, <1>5, SharedStringIs
  <2>2. r \in Decoders /\ r.b = d.b
    BY RefIndexAfter DEF After
  <2>3. r.ok /\ ~(i < 0 \/ i >= Len(d.strings)) /\ sharedString(d) = [r EXCEPT !.val = v]
    <3>1. ~Fail(d).ok
      BY FailAfter
    <3> QED
      BY <2>1, <3>1
  <2>4. x = With(r, B)
    BY <2>3, RefIndexLast DEF w
  <2>5. x.ok = r.ok /\ x.int = i
    <3> HIDE DEF x, r
    <3> QED
      BY <2>2, <2>4, WithFields
  <2>6. sharedString(w) = [x EXCEPT !.val = v]
    BY <1>1, <1>2, <1>5, <2>3, <2>5, SharedStringIs
  <2>7. v \in Values
    <3>1. i \in Int /\ d.strings \in Seq(Seq(Nat)) /\ Len(d.strings) \in Nat
      BY <2>2, DecoderType
    <3> HIDE DEF i, v
    <3>2. i + 1 \in 1 .. Len(d.strings)
      BY <2>3, <3>1
    <3>3. d.strings[i + 1] \in Seq(Nat)
      BY <3>1, <3>2
    <3> QED
      BY <3>3, ValuesType DEF v
  <2> HIDE DEF r, x, i, v
  <2>8. [With(r, B) EXCEPT !.val = v] = With([r EXCEPT !.val = v], B)
    BY <2>2, <2>7, ValSetLast
  <2> QED
    BY <2>3, <2>4, <2>6, <2>8 DEF w
<1> QED
  BY <1>3, <1>4, <1>5

LEMMA TypeEncodingIs ==
  ASSUME NEW d \in Decoders
  PROVE  /\ Left(d) = 0 => typeEncoding(d) = Fail(d)
         /\ Left(d) > 0 /\ (Peek(d) \in {tagNew, tagNil} \/ Peek(d) >= refBase) =>
              typeEncoding(d) = sharedString(d)
         /\ Left(d) > 0 /\ ~(Peek(d) \in {tagNew, tagNil} \/ Peek(d) >= refBase) =>
              typeEncoding(d) = [Skip(d, 1) EXCEPT !.val = Str(<<Peek(d)>>)]
<1>1. /\ Peek(d) = -1 <=> Left(d) = 0
      /\ Left(d) \in Nat
  BY PeekType, DecoderType
<1>2. Left(d) > 0 => Peek(d) # -1
  BY <1>1
<1> QED
  BY <1>1, <1>2 DEF typeEncoding

LEMMA TypeEncodingAfter ==
  ASSUME NEW d \in Decoders
  PROVE  /\ typeEncoding(d) \in Decoders /\ After(d, typeEncoding(d))
         /\ typeEncoding(d).objects = d.objects
         /\ typeEncoding(d).ok => typeEncoding(d).val.kind = "string"
<1> DEFINE e == typeEncoding(d)
           inline == ~(Peek(d) \in {tagNew, tagNil} \/ Peek(d) >= refBase)
<1>0. Left(d) \in Nat /\ d.pos \in Nat
  BY DecoderType
<1>1. CASE Left(d) = 0
  <2>1. e = Fail(d)
    BY <1>1, TypeEncodingIs
  <2> QED
    BY <2>1, FailAfter
<1>2. CASE Left(d) > 0 /\ ~inline
  <2>1. e = sharedString(d)
    BY <1>2, TypeEncodingIs
  <2> QED
    BY <2>1, SharedStringAfter
<1>3. CASE Left(d) > 0 /\ inline
  <2> DEFINE m == Skip(d, 1)
             v == Str(<<Peek(d)>>)
  <2>1. e = [m EXCEPT !.val = v]
    BY <1>3, TypeEncodingIs
  <2>2. m \in Decoders /\ m.b = d.b /\ m.pos = d.pos + 1 /\ m.objects = d.objects /\ m.ok = d.ok
    BY <1>0, <1>3, SkipType
  <2>3. v \in Values /\ v.kind = "string"
    <3>1. Peek(d) \in Nat
      BY <1>3, PeekType
    <3>2. <<Peek(d)>> \in Seq(Nat)
      BY <3>1
    <3> QED
      BY <3>2, ValuesType
  <2> HIDE DEF e, m, v
  <2>4. e \in Decoders /\ e.val = v /\ e.b = m.b /\ e.pos = m.pos /\ e.objects = m.objects /\ e.ok = m.ok
    BY <2>1, <2>2, <2>3, ValSet
  <2>5. After(d, e)
    BY <1>0, <2>2, <2>4 DEF After
  <2> QED
    BY <2>2, <2>3, <2>4, <2>5 DEF e
<1> HIDE DEF inline
<1> QED
  BY <1>0, <1>1, <1>2, <1>3

LEMMA TypeEncodingLast ==
  ASSUME NEW d \in Decoders, NEW B \in Seq(Nat), PrefixOf(d.b, B), typeEncoding(d).ok
  PROVE  typeEncoding(With(d, B)) = With(typeEncoding(d), B)
<1> DEFINE w == With(d, B)
           inline == ~(Peek(d) \in {tagNew, tagNil} \/ Peek(d) >= refBase)
<1>0. Left(d) \in Nat /\ d.pos \in Nat
  BY DecoderType
<1>1. /\ w \in Decoders /\ Left(w) >= Left(d) /\ Left(w) \in Nat
      /\ Left(d) > 0 => Peek(w) = Peek(d)
  BY WithIs, WithFields
<1> HIDE DEF w
<1>2. Left(d) > 0 /\ Left(w) > 0 /\ Peek(w) = Peek(d)
  <2>1. Left(d) # 0
    BY TypeEncodingIs, FailAfter
  <2> QED
    BY <1>0, <1>1, <2>1
<1>3. CASE ~inline
  <2>1. typeEncoding(d) = sharedString(d) /\ typeEncoding(w) = sharedString(w)
    BY <1>1, <1>2, <1>3, TypeEncodingIs
  <2>2. sharedString(d).ok
    BY <2>1
  <2>3. sharedString(w) = With(sharedString(d), B)
    BY <2>2, SharedStringLast DEF w
  <2> QED
    BY <2>1, <2>3 DEF w
<1>4. CASE inline
  <2> DEFINE m == Skip(d, 1)
             v == Str(<<Peek(d)>>)
  <2>1. typeEncoding(d) = [m EXCEPT !.val = v] /\ typeEncoding(w) = [Skip(w, 1) EXCEPT !.val = v]
    BY <1>1, <1>2, <1>4, TypeEncodingIs
  <2>2. v \in Values
    <3>1. Peek(d) \in Nat
      BY <1>2, PeekType
    <3>2. <<Peek(d)>> \in Seq(Nat)
      BY <3>1
    <3> QED
      BY <3>2, ValuesType
  <2> HIDE DEF m, v
  <2>3. m \in Decoders /\ m.b = d.b /\ Skip(w, 1) = With(m, B)
    BY <1>0, <1>2, SkipType, SkipLast DEF w, m
  <2>4. [With(m, B) EXCEPT !.val = v] = With([m EXCEPT !.val = v], B)
    BY <2>2, <2>3, ValSetLast
  <2> QED
    BY <2>1, <2>3, <2>4 DEF w
<1> QED
  BY <1>3, <1>4

LEMMA ReferenceIs ==
  ASSUME NEW d \in Decoders, NEW kinds
  PROVE  /\ ~refIndex(d).ok => Reference(d, kinds) = refIndex(d)
         /\ refIndex(d).ok =>
              Reference(d, kinds) =
                IF refIndex(d).int < 0 \/ refIndex(d).int >= Len(d.objects) THEN Fail(d)
                ELSE IF d.objects[refIndex(d).int + 1].kind \notin kinds THEN Fail(d)
                ELSE [refIndex(d) EXCEPT !.val = Pointer(refIndex(d).int + 1)]
BY DEF Reference, Then

LEMMA ReferenceAfter ==
  ASSUME NEW d \in Decoders, NEW kinds
  PROVE  /\ Reference(d, kinds) \in Decoders /\ After(d, Reference(d, kinds))
         /\ Reference(d, kinds).strings = d.strings
         /\ Reference(d, kinds).objects = d.objects
         /\ Reference(d, kinds).ok =>
              /\ Reference(d, kinds).val.kind = "pointer"
              /\ Reference(d, kinds).val.ref \in 1 .. Len(d.objects)
<1> DEFINE e == Reference(d, kinds)
           r == refIndex(d)
           i == r.int
           v == Pointer(i + 1)
           out == i < 0 \/ i >= Len(d.objects)
           other == d.objects[i + 1].kind \notin kinds
<1>1. r \in Decoders /\ After(d, r) /\ r.strings = d.strings /\ r.objects = d.objects
  BY RefIndexAfter
<1>2. i \in Int /\ Len(d.objects) \in Nat
  BY <1>1, DecoderType
<1>3. /\ ~r.ok => e = r
      /\ r.ok /\ (out \/ other) => e = Fail(d)
      /\ r.ok /\ ~out /\ ~other => e = [r EXCEPT !.val = v]
  BY ReferenceIs
<1> HIDE DEF e, r
<1>4. CASE ~r.ok
  BY <1>1, <1>3, <1>4 DEF e
<1>5. CASE r.ok /\ (out \/ other)
  BY <1>3, <1>5, FailAfter DEF e
<1>6. CASE r.ok /\ ~out /\ ~other
  <2>1. i + 1 \in Nat /\ i + 1 \in 1 .. Len(d.objects)
    <3> HIDE DEF i
    <3> QED
      BY <1>2, <1>6
  <2>2. v \in Values /\ v.kind = "pointer" /\ v.ref = i + 1
    BY <2>1, ValuesType
  <2>3. e = [r EXCEPT !.val = v]
    BY <1>3, <1>6
  <2> HIDE DEF v
  <2>4. e \in Decoders /\ e.val = v /\ e.b = r.b /\ e.pos = r.pos /\ e.strings = r.strings /\ e.objects = r.objects /\ e.ok = r.ok
    BY <1>1, <2>2, <2>3, ValSet
  <2>5. After(d, e)
    BY <1>1, <2>4 DEF After
  <2> QED
    BY <1>1, <2>1, <2>2, <2>4, <2>5 DEF e
<1> HIDE DEF out, other
<1> QED
  BY <1>4, <1>5, <1>6

LEMMA ReferenceLast ==
  ASSUME NEW d \in Decoders, NEW B \in Seq(Nat), PrefixOf(d.b, B), NEW kinds, Reference(d, kinds).ok
  PROVE  Reference(With(d, B), kinds) = With(Reference(d, kinds), B)
<1> DEFINE w == With(d, B)
           r == refIndex(d)
           x == refIndex(w)
           i == r.int
           v == Pointer(i + 1)
           out == i < 0 \/ i >= Len(d.objects)
           other == d.objects[i + 1].kind \notin kinds
<1>1. r \in Decoders /\ r.b = d.b
  BY RefIndexAfter DEF After
<1>2. i \in Int /\ Len(d.objects) \in Nat
  BY <1>1, DecoderType
<1>3. r.ok /\ ~out /\ ~other /\ Reference(d, kinds) = [r EXCEPT !.val = v]
  <2>1. ~Fail(d).ok
    BY FailAfter
  <2> QED
    BY <2>1, ReferenceIs
<1>4. w \in Decoders /\ w.objects = d.objects
  BY WithIs, WithFields
<1>5. x = With(r, B)
  BY <1>3, RefIndexLast
<1>6. x.ok = r.ok /\ x.int = i
  <2> HIDE DEF x, r
  <2> QED
    BY <1>1, <1>5, WithFields
<1>7. Reference(w, kinds) = [x EXCEPT !.val = v]
  <2> HIDE DEF w
  <2> QED
    BY <1>3, <1>4, <1>6, ReferenceIs
<1>8. v \in Values
  <2>1. i + 1 \in Nat
    <3> HIDE DEF i
    <3> QED
      BY <1>2, <1>3
  <2> QED
    BY <2>1, ValuesType
<1> HIDE DEF w, r, x, i, v
<1>9. [With(r, B) EXCEPT !.val = v] = With([r EXCEPT !.val = v], B)
  BY <1>1, <1>8, ValSetLast
<1> QED
  BY <1>3, <1>5, <1>7, <1>9 DEF w

LEMMA AfterLeft ==
  ASSUME NEW d \in Decoders, NEW e, After(d, e), e.ok
  PROVE  Left(e) < Left(d) /\ Left(e) \in Nat /\ Left(d) \in Nat
<1>1. e \in Decoders /\ e.b = d.b /\ d.pos < e.pos
  BY DEF After
<1>2. /\ Left(e) = Len(d.b) - e.pos /\ Left(d) = Len(d.b) - d.pos
      /\ d.pos \in Nat /\ e.pos \in Nat /\ Len(d.b) \in Nat /\ e.pos <= Len(d.b)
  BY <1>1, DecoderType DEF Left
<1> QED
  BY <1>1, <1>2

LEMMA AfterTransitive ==
  ASSUME NEW c \in Decoders, NEW d, NEW e, After(c, d), After(d, e)
  PROVE  After(c, e)
<1>1. /\ d \in Decoders /\ e \in Decoders /\ e.b = d.b /\ d.b = c.b
      /\ e.ok => d.ok /\ d.pos < e.pos
      /\ d.ok => c.ok /\ c.pos < d.pos
  BY DEF After
<1>2. c.pos \in Nat /\ d.pos \in Nat /\ e.pos \in Nat
  BY <1>1, DecoderType
<1> QED
  BY <1>1, <1>2 DEF After

(* x may be put in o at i.                                                  *)
Fits(o, i, x) == i \in DOMAIN o => x \in Entries

(* o with x at i.                                                           *)
Put(o, i, x) == [o EXCEPT ![i] = x]

LEMMA EntrySet ==
  ASSUME NEW o \in Seq(Entries), NEW i \in Nat, NEW x, Fits(o, i, x)
  PROVE  /\ Put(o, i, x) \in Seq(Entries) /\ Len(Put(o, i, x)) = Len(o)
         /\ \A k \in 1 .. Len(o) : Put(o, i, x)[k] = IF k = i THEN x ELSE o[k]
<1> DEFINE p == Put(o, i, x)
<1>1. DOMAIN o = 1 .. Len(o) /\ Len(o) \in Nat /\ \A k \in 1 .. Len(o) : o[k] \in Entries
  OBVIOUS
<1>2. DOMAIN p = 1 .. Len(o) /\ \A k \in 1 .. Len(o) : p[k] = IF k = i THEN x ELSE o[k]
  BY <1>1 DEF Put
<1>3. \A k \in 1 .. Len(o) : p[k] \in Entries
  BY <1>1, <1>2 DEF Fits
<1>4. p = [k \in 1 .. Len(o) |-> p[k]]
  BY <1>1 DEF Put
<1> HIDE DEF p
<1>5. p \in [1 .. Len(o) -> Entries]
  BY <1>3, <1>4
<1>6. p \in Seq(Entries) /\ Len(p) = Len(o)
  BY <1>1, <1>5
<1> QED
  BY <1>2, <1>6 DEF p

(* A decoder with one entry of its object table changed.                     *)
Changed(d, i, x) == [d EXCEPT !.objects = Put(d.objects, i, x)]

LEMMA ChangedType ==
  ASSUME NEW d \in Decoders, NEW i \in Nat, NEW x, Fits(d.objects, i, x)
  PROVE  /\ Changed(d, i, x) \in Decoders /\ Changed(d, i, x).b = d.b /\ Changed(d, i, x).pos = d.pos
         /\ Changed(d, i, x).strings = d.strings /\ Changed(d, i, x).ok = d.ok
         /\ Changed(d, i, x).int = d.int /\ Changed(d, i, x).val = d.val
         /\ Len(Changed(d, i, x).objects) = Len(d.objects)
         /\ \A k \in 1 .. Len(d.objects) : Changed(d, i, x).objects[k] = IF k = i THEN x ELSE d.objects[k]
<1> DEFINE o == d.objects
           p == Put(o, i, x)
           e == Changed(d, i, x)
<1>1. o \in Seq(Entries)
  BY DecoderType
<1>2. e = [d EXCEPT !.objects = p]
  BY DEF Changed
<1>5. Fits(o, i, x)
  OBVIOUS
<1> HIDE DEF o
<1>3. /\ p \in Seq(Entries) /\ Len(p) = Len(o)
      /\ \A k \in 1 .. Len(o) : p[k] = IF k = i THEN x ELSE o[k]
  BY <1>1, <1>5, EntrySet
<1> HIDE DEF e, p
<1>4. /\ e \in Decoders /\ e.objects = p /\ e.b = d.b /\ e.pos = d.pos /\ e.strings = d.strings
      /\ e.ok = d.ok /\ e.int = d.int /\ e.val = d.val
  BY <1>2, <1>3, ObjectsSet
<1> QED
  BY <1>3, <1>4 DEF e, o

LEMMA ChangedLast ==
  ASSUME NEW d \in Decoders, NEW B \in Seq(Nat), PrefixOf(d.b, B), NEW i \in Nat, NEW x,
         Fits(d.objects, i, x)
  PROVE  Changed(With(d, B), i, x) = With(Changed(d, i, x), B)
<1> DEFINE o == d.objects
           p == Put(o, i, x)
<1>1. o \in Seq(Entries)
  BY DecoderType
<1>2. Changed(d, i, x) = [d EXCEPT !.objects = p]
  BY DEF Changed
<1>3. Changed(With(d, B), i, x) = [With(d, B) EXCEPT !.objects = p]
  BY WithFields DEF Changed
<1>6. Fits(o, i, x)
  OBVIOUS
<1> HIDE DEF o
<1>4. p \in Seq(Entries)
  BY <1>1, <1>6, EntrySet
<1> HIDE DEF p
<1>5. [With(d, B) EXCEPT !.objects = p] = With([d EXCEPT !.objects = p], B)
  BY <1>4, ObjectsSetLast
<1> QED
  BY <1>2, <1>3, <1>5

(* A decoder with an entry more.                                            *)
More(d, x) == [d EXCEPT !.objects = Append(@, x)]

LEMMA MoreType ==
  ASSUME NEW d \in Decoders, NEW x \in Entries
  PROVE  /\ More(d, x) \in Decoders /\ More(d, x).b = d.b /\ More(d, x).pos = d.pos
         /\ More(d, x).strings = d.strings /\ More(d, x).ok = d.ok
         /\ More(d, x).int = d.int /\ More(d, x).val = d.val
         /\ More(d, x).objects = Append(d.objects, x)
         /\ Len(More(d, x).objects) = Len(d.objects) + 1 /\ Len(d.objects) \in Nat
<1> DEFINE p == Append(d.objects, x)
           e == More(d, x)
<1>1. p \in Seq(Entries) /\ Len(p) = Len(d.objects) + 1 /\ Len(d.objects) \in Nat
  <2>1. d.objects \in Seq(Entries)
    BY DecoderType
  <2> QED
    BY <2>1
<1>2. e = [d EXCEPT !.objects = p]
  BY DEF More
<1> HIDE DEF p, e
<1>4. /\ e \in Decoders /\ e.objects = p /\ e.b = d.b /\ e.pos = d.pos /\ e.strings = d.strings
      /\ e.ok = d.ok /\ e.int = d.int /\ e.val = d.val
  BY <1>1, <1>2, ObjectsSet
<1> QED
  BY <1>1, <1>4 DEF e, p

LEMMA MoreLast ==
  ASSUME NEW d \in Decoders, NEW B \in Seq(Nat), PrefixOf(d.b, B), NEW x \in Entries
  PROVE  More(With(d, B), x) = With(More(d, x), B)
<1> DEFINE p == Append(d.objects, x)
<1>1. p \in Seq(Entries)
  <2>1. d.objects \in Seq(Entries)
    BY DecoderType
  <2> QED
    BY <2>1
<1>2. More(d, x) = [d EXCEPT !.objects = p]
  BY DEF More
<1>3. More(With(d, B), x) = [With(d, B) EXCEPT !.objects = p]
  BY WithFields DEF More
<1> HIDE DEF p
<1>5. [With(d, B) EXCEPT !.objects = p] = With([d EXCEPT !.objects = p], B)
  BY <1>1, ObjectsSetLast
<1> QED
  BY <1>2, <1>3, <1>5

LEMMA NameAndVersionIs ==
  ASSUME NEW d, NEW slot, NEW name, name = sharedString(More(d, Reserved))
  PROVE  /\ ~name.ok => NameAndVersion(d, slot) = name
         /\ name.ok => NameAndVersion(d, slot) = readInt(Changed(name, slot, Class(name.val.str)))
BY DEF NameAndVersion, Then, More, Changed, Put

LEMMA NameAndVersionAfter ==
  ASSUME NEW d \in Decoders, NEW slot \in Nat
  PROVE  /\ NameAndVersion(d, slot) \in Decoders /\ After(d, NameAndVersion(d, slot))
         /\ Len(NameAndVersion(d, slot).objects) = Len(d.objects) + 1
<1> DEFINE m == More(d, Reserved)
           name == sharedString(m)
           x == Class(name.val.str)
           c == Changed(name, slot, x)
           e == NameAndVersion(d, slot)
<1>1. m \in Decoders /\ m.b = d.b /\ m.pos = d.pos /\ m.ok = d.ok /\ Len(m.objects) = Len(d.objects) + 1
  BY MoreType, EntriesType
<1>2. /\ ~name.ok => e = name
      /\ name.ok => e = readInt(c)
  BY NameAndVersionIs
<1> HIDE DEF m
<1>3. name \in Decoders /\ After(m, name) /\ name.objects = m.objects
  BY <1>1, SharedStringAfter
<1> HIDE DEF name
<1>4. x \in Entries
  BY <1>3, DecoderType, ValuesType, EntriesType
<1> HIDE DEF x
<1>5. c \in Decoders /\ c.b = name.b /\ c.pos = name.pos /\ c.ok = name.ok /\ Len(c.objects) = Len(name.objects)
  <2>1. name \in Decoders
    BY <1>3
  <2>2. Fits(name.objects, slot, x)
    BY <1>4 DEF Fits
  <2> QED
    BY <2>1, <2>2, ChangedType
<1> HIDE DEF c, e
<1>6. readInt(c) \in Decoders /\ After(c, readInt(c)) /\ readInt(c).objects = c.objects
  BY <1>5, ReadIntAfter
<1>7. After(d, name)
  BY <1>1, <1>3 DEF After
<1>8. After(name, readInt(c))
  BY <1>5, <1>6 DEF After
<1>9. After(d, readInt(c))
  BY <1>7, <1>8, AfterTransitive
<1>10. CASE name.ok
  BY <1>1, <1>2, <1>3, <1>5, <1>6, <1>9, <1>10 DEF e
<1>11. CASE ~name.ok
  BY <1>1, <1>2, <1>3, <1>7, <1>11 DEF e
<1> QED
  BY <1>10, <1>11

LEMMA NameAndVersionLast ==
  ASSUME NEW d \in Decoders, NEW B \in Seq(Nat), PrefixOf(d.b, B), NEW slot \in Nat,
         NameAndVersion(d, slot).ok
  PROVE  NameAndVersion(With(d, B), slot) = With(NameAndVersion(d, slot), B)
<1> DEFINE m == More(d, Reserved)
           name == sharedString(m)
           x == Class(name.val.str)
           c == Changed(name, slot, x)
           w == More(With(d, B), Reserved)
           n == sharedString(w)
<1>1. m \in Decoders /\ m.b = d.b /\ w = With(m, B)
  BY MoreType, MoreLast, EntriesType
<1>2. /\ name.ok /\ NameAndVersion(d, slot) = readInt(c)
  BY NameAndVersionIs
<1>3. name \in Decoders /\ name.b = d.b
  BY <1>1, SharedStringAfter DEF After
<1> HIDE DEF m, w
<1>4. n = With(name, B)
  BY <1>1, <1>2, SharedStringLast
<1>5. NameAndVersion(With(d, B), slot) = IF n.ok THEN readInt(Changed(n, slot, Class(n.val.str))) ELSE n
  BY NameAndVersionIs DEF w
<1> HIDE DEF name, n
<1>6. n.ok /\ n.val = name.val
  BY <1>2, <1>3, <1>4, WithFields
<1>7. x \in Entries
  BY <1>3, DecoderType, ValuesType, EntriesType
<1>8. NameAndVersion(With(d, B), slot) = readInt(Changed(n, slot, x))
  BY <1>5, <1>6
<1> HIDE DEF x
<1>9. Changed(n, slot, x) = With(c, B) /\ c \in Decoders /\ c.b = d.b
  <2>1. name \in Decoders /\ name.b = d.b /\ PrefixOf(name.b, B)
    BY <1>3
  <2>2. Fits(name.objects, slot, x)
    BY <1>7 DEF Fits
  <2>3. c \in Decoders /\ c.b = name.b
    BY <2>1, <2>2, ChangedType
  <2>4. Changed(With(name, B), slot, x) = With(c, B)
    BY <2>1, <2>2, ChangedLast
  <2> QED
    BY <1>4, <2>1, <2>3, <2>4
<1> HIDE DEF c
<1>10. readInt(c).ok
  BY <1>2
<1>11. readInt(With(c, B)) = With(readInt(c), B)
  BY <1>9, <1>10, ReadIntLast
<1> QED
  BY <1>2, <1>8, <1>9, <1>11

(* --------------------------- the class chain --------------------------- *)

(* What class makes of a decoder, given what it makes of those further on.   *)
ClassBy(g, d) ==
  IF Peek(d) = -1 THEN Fail(d)
  ELSE IF Peek(d) = tagNil THEN [Skip(d, 1) EXCEPT !.val = Nothing]
  ELSE IF Peek(d) = tagNew
  THEN LET slot == Len(d.objects) + 1
           super == Then(NameAndVersion(Skip(d, 1), slot), LAMBDA c : g[c])
       IN  [super EXCEPT !.val = Pointer(slot)]
  ELSE Reference(d, {"class"})

(* The superclass a new class was read with.                                *)
Super(g, d) ==
  LET c == NameAndVersion(Skip(d, 1), Len(d.objects) + 1) IN IF c.ok THEN g[c] ELSE c

LEMMA ClassByIs ==
  ASSUME NEW d \in Decoders, NEW g
  PROVE  /\ Left(d) = 0 => ClassBy(g, d) = Fail(d)
         /\ Left(d) > 0 /\ Peek(d) = tagNil => ClassBy(g, d) = [Skip(d, 1) EXCEPT !.val = Nothing]
         /\ Left(d) > 0 /\ Peek(d) = tagNew =>
              ClassBy(g, d) = [Super(g, d) EXCEPT !.val = Pointer(Len(d.objects) + 1)]
         /\ Left(d) > 0 /\ Peek(d) \notin {tagNil, tagNew} => ClassBy(g, d) = Reference(d, {"class"})
<1>1. /\ Peek(d) = -1 <=> Left(d) = 0
      /\ Left(d) \in Nat
  BY PeekType, DecoderType
<1>2. Left(d) > 0 => Peek(d) # -1
  BY <1>1
<1>3. tagNew # tagNil
  BY DEF tagNew, tagNil
<1>4. Left(d) > 0 /\ Peek(d) = tagNew =>
              ClassBy(g, d) = [Super(g, d) EXCEPT !.val = Pointer(Len(d.objects) + 1)]
  BY <1>2, <1>3 DEF ClassBy, Then, Super
<1>5. Left(d) = 0 => ClassBy(g, d) = Fail(d)
  BY <1>1 DEF ClassBy
<1>6. Left(d) > 0 /\ Peek(d) = tagNil => ClassBy(g, d) = [Skip(d, 1) EXCEPT !.val = Nothing]
  BY <1>2 DEF ClassBy
<1>7. Left(d) > 0 /\ Peek(d) \notin {tagNil, tagNew} => ClassBy(g, d) = Reference(d, {"class"})
  BY <1>2 DEF ClassBy
<1> QED
  BY <1>4, <1>5, <1>6, <1>7

(* A new class leads further on before its superclass is read.              *)
LEMMA BeforeSuper ==
  ASSUME NEW d \in Decoders, Left(d) > 0
  PROVE  /\ Len(d.objects) + 1 \in Nat
         /\ NameAndVersion(Skip(d, 1), Len(d.objects) + 1) \in Decoders
         /\ After(d, NameAndVersion(Skip(d, 1), Len(d.objects) + 1))
         /\ Len(NameAndVersion(Skip(d, 1), Len(d.objects) + 1).objects) = Len(d.objects) + 1
<1> DEFINE m == Skip(d, 1)
           slot == Len(d.objects) + 1
<1>1. Left(d) \in Nat /\ d.pos \in Nat /\ Len(d.objects) \in Nat
  BY DecoderType
<1>2. m \in Decoders /\ m.b = d.b /\ m.pos = d.pos + 1 /\ m.objects = d.objects /\ m.ok = d.ok
  BY <1>1, SkipType
<1>3. After(d, m)
  BY <1>1, <1>2 DEF After
<1>4. slot \in Nat /\ slot = Len(m.objects) + 1
  BY <1>1, <1>2
<1> HIDE DEF m, slot
<1>5. NameAndVersion(m, slot) \in Decoders /\ After(m, NameAndVersion(m, slot))
      /\ Len(NameAndVersion(m, slot).objects) = Len(m.objects) + 1
  BY <1>2, <1>4, NameAndVersionAfter
<1>6. After(d, NameAndVersion(m, slot))
  BY <1>3, <1>5, AfterTransitive
<1> QED
  BY <1>4, <1>5, <1>6 DEF m, slot

LEMMA ClassByType ==
  ASSUME NEW d \in Decoders, NEW g \in [Decoders -> Decoders]
  PROVE  ClassBy(g, d) \in Decoders
<1>0. Left(d) \in Nat
  BY DecoderType
<1>1. CASE Left(d) = 0
  BY <1>1, ClassByIs, FailAfter
<1>2. CASE Left(d) > 0 /\ Peek(d) = tagNil
  <2>1. ClassBy(g, d) = [Skip(d, 1) EXCEPT !.val = Nothing]
    BY <1>2, ClassByIs
  <2>2. Skip(d, 1) \in Decoders /\ Nothing \in Values
    BY <1>0, <1>2, SkipType, ValuesType
  <2> QED
    BY <2>1, <2>2, ValSet
<1>3. CASE Left(d) > 0 /\ Peek(d) = tagNew
  <2>1. ClassBy(g, d) = [Super(g, d) EXCEPT !.val = Pointer(Len(d.objects) + 1)]
    BY <1>3, ClassByIs
  <2>2. Super(g, d) \in Decoders
    BY <1>3, BeforeSuper DEF Super
  <2>3. Pointer(Len(d.objects) + 1) \in Values
    BY <1>3, BeforeSuper, ValuesType
  <2> QED
    BY <2>1, <2>2, <2>3, ValSet
<1>4. CASE Left(d) > 0 /\ Peek(d) \notin {tagNil, tagNew}
  BY <1>4, ClassByIs, ReferenceAfter
<1> QED
  BY <1>0, <1>1, <1>2, <1>3, <1>4

LEMMA ClassByLocal ==
  ASSUME NEW d \in Decoders, NEW g, NEW h,
         \A e \in Decoders : Left(e) < Left(d) => g[e] = h[e]
  PROVE  ClassBy(g, d) = ClassBy(h, d)
<1>0. Left(d) \in Nat
  BY DecoderType
<1>1. CASE Left(d) > 0 /\ Peek(d) = tagNew
  <2> DEFINE c == NameAndVersion(Skip(d, 1), Len(d.objects) + 1)
  <2>1. c \in Decoders /\ After(d, c)
    BY <1>1, BeforeSuper
  <2> HIDE DEF c
  <2>2. c.ok => g[c] = h[c]
    BY <2>1, AfterLeft
  <2>3. Super(g, d) = Super(h, d)
    BY <2>2 DEF Super, c
  <2> QED
    BY <1>1, <2>3, ClassByIs
<1>2. CASE Left(d) = 0
  BY <1>2, ClassByIs
<1>3. CASE Left(d) > 0 /\ Peek(d) # tagNew
  BY <1>3, ClassByIs
<1> QED
  BY <1>0, <1>1, <1>2, <1>3

(* class is a function that does so for every decoder.                      *)
LEMMA ClassIs ==
  /\ class \in [Decoders -> Decoders]
  /\ \A d \in Decoders : class[d] = ClassBy(class, d)
<1> DEFINE D == Decoders
           step == [g \in [D -> D] |-> [d \in D |-> ClassBy(g, d)]]
           size == [d \in D |-> Left(d)]
           Is(f) == f = [d \in D |-> ClassBy(f, d)]
<1>1. Decoder(<<>>) \in D
  <2>1. Nothing \in Values /\ <<>> \in Seq(Nat) /\ <<>> \in Seq(Seq(Nat)) /\ <<>> \in Seq(Entries) /\ Len(<<>>) = 0
    BY ValuesType
  <2> QED
    BY <2>1 DEF Decoder, Decoders
<1>2. Recursion(step, size, D, D)
  <2>1. step \in [[D -> D] -> [D -> D]]
    BY ClassByType
  <2>2. size \in [D -> Nat]
    BY DecoderType
  <2>3. ASSUME NEW d \in D, NEW g \in [D -> D], NEW h \in [D -> D],
               \A e \in D : size[e] < size[d] => g[e] = h[e]
        PROVE  step[g][d] = step[h][d]
    <3>1. ClassBy(g, d) = ClassBy(h, d)
      BY <2>3, ClassByLocal
    <3> QED
      BY <3>1
  <2> HIDE DEF step, size, D
  <2> QED
    BY <2>1, <2>2, <2>3 DEF Recursion
<1>3. PICK t \in [D -> D] : t = step[t]
  <2> HIDE DEF step, size, D
  <2> QED
    BY <1>1, <1>2, RecursionEnds
<1>4. t = [d \in D |-> ClassBy(t, d)]
  <2> HIDE DEF D
  <2>1. step[t] = [d \in D |-> ClassBy(t, d)]
    BY Zenon
  <2> QED
    BY <1>3, <2>1, Zenon
<1>5. class = CHOOSE f : Is(f)
  BY DEF class, ClassBy
<1>6. class = [d \in D |-> ClassBy(class, d)]
  <2>1. Is(t)
    BY <1>4, Zenon
  <2> HIDE DEF Is
  <2>2. Is(class)
    BY <1>5, <2>1, Zenon
  <2> QED
    BY <2>2, Zenon DEF Is
<1>7. \A d \in D : size[d] = Left(d) /\ Left(d) \in Nat
  BY DecoderType
<1>8. \A d \in D : \A g, h : (\A e \in D : Left(e) < Left(d) => g[e] = h[e]) => ClassBy(g, d) = ClassBy(h, d)
  BY ClassByLocal
<1> HIDE DEF D, size
<1>9. \A d \in D : t[d] = ClassBy(t, d)
  BY <1>4, Zenon
<1>10. \A d \in D : class[d] = ClassBy(class, d)
  BY <1>6, Zenon
<1>11. \A d \in D : class[d] = t[d]
  <2>1. \A d \in D : (\A e \in D : Left(e) < Left(d) => class[e] = t[e]) => class[d] = t[d]
    BY <1>8, <1>9, <1>10, Zenon
  <2>2. Descends(D, size, class, t)
    BY <1>7, <2>1, Zenon DEF Descends
  <2> QED
    BY <2>2, SameBySize
<1>12. class \in [D -> D]
  <2>1. \A d \in D : class[d] \in D
    BY <1>3, <1>11, Zenon
  <2>2. class = [d \in D |-> class[d]]
    BY <1>6, <1>10, Zenon
  <2> QED
    BY <2>1, <2>2, Zenon
<1> QED
  BY <1>10, <1>12, Zenon DEF D

(* What holds of a decoder when it holds of those further on holds of all.    *)
Reached(W) ==
  \A d \in Decoders : (\A e \in Decoders : Left(e) < Left(d) => e \in W) => d \in W

LEMMA FurtherOn ==
  ASSUME NEW W, Reached(W)
  PROVE  \A d \in Decoders : d \in W
<1> DEFINE size == [d \in Decoders |-> Left(d)]
<1>1. \A d \in Decoders : size[d] = Left(d) /\ Left(d) \in Nat
  BY DecoderType
<1> HIDE DEF size
<1>2. Climbs(Decoders, size, W)
  BY <1>1 DEF Climbs, Reached
<1>3. Decoders \subseteq W
  BY <1>2, BySize
<1> QED
  BY <1>3

(* e comes after d with d's objects and more, and points to one of them.     *)
Grown(d, e) ==
  /\ After(d, e)
  /\ Len(d.objects) \in Nat /\ Len(e.objects) \in Nat /\ Len(d.objects) <= Len(e.objects)
  /\ e.ok => e.val.ref \in 0 .. Len(e.objects)

LEMMA SetValAfter ==
  ASSUME NEW d \in Decoders, NEW e, After(d, e), NEW x \in Values
  PROVE  /\ After(d, [e EXCEPT !.val = x]) /\ [e EXCEPT !.val = x].objects = e.objects
         /\ [e EXCEPT !.val = x].val = x
<1> DEFINE f == [e EXCEPT !.val = x]
<1>1. e \in Decoders /\ e.b = d.b /\ (e.ok => d.ok /\ d.pos < e.pos)
  BY DEF After
<1>2. f = [e EXCEPT !.val = x]
  OBVIOUS
<1> HIDE DEF f
<1>3. f \in Decoders /\ f.val = x /\ f.b = e.b /\ f.pos = e.pos /\ f.objects = e.objects /\ f.ok = e.ok
  BY <1>1, <1>2, ValSet
<1> QED
  BY <1>1, <1>3 DEF After, f

LEMMA ClassGood ==
  \A d \in Decoders : Grown(d, class[d])
<1> DEFINE W == {d \in Decoders : Grown(d, class[d])}
<1>1. ASSUME NEW d \in Decoders, \A e \in Decoders : Left(e) < Left(d) => Grown(e, class[e])
      PROVE  Grown(d, class[d])
  <2> DEFINE e == class[d]
             n == Len(d.objects)
  <2>0. Left(d) \in Nat /\ n \in Nat /\ e = ClassBy(class, d)
    BY ClassIs, DecoderType
  <2>1. CASE Left(d) = 0
    <3>1. e = Fail(d)
      BY <2>0, <2>1, ClassByIs
    <3> QED
      BY <2>0, <3>1, FailAfter DEF Grown
  <2>2. CASE Left(d) > 0 /\ Peek(d) = tagNil
    <3> DEFINE m == Skip(d, 1)
    <3>1. e = [m EXCEPT !.val = Nothing]
      BY <2>0, <2>2, ClassByIs
    <3>2. m \in Decoders /\ m.b = d.b /\ m.pos = d.pos + 1 /\ m.objects = d.objects /\ m.ok = d.ok
      BY <2>0, <2>2, SkipType
    <3>3. After(d, m)
      BY <3>2, DecoderType DEF After
    <3>4. Nothing \in Values /\ Nothing.ref = 0
      BY ValuesType DEF Nothing, Pointer
    <3> HIDE DEF m
    <3>5. After(d, e) /\ e.objects = m.objects /\ e.val = Nothing
      BY <3>1, <3>3, <3>4, SetValAfter
    <3> QED
      BY <2>0, <3>2, <3>4, <3>5 DEF Grown
  <2>3. CASE Left(d) > 0 /\ Peek(d) = tagNew
    <3> DEFINE c == NameAndVersion(Skip(d, 1), n + 1)
               s == Super(class, d)
    <3>1. e = [s EXCEPT !.val = Pointer(n + 1)]
      BY <2>0, <2>3, ClassByIs
    <3>2. /\ n + 1 \in Nat /\ c \in Decoders /\ After(d, c) /\ Len(c.objects) = n + 1
      BY <2>3, BeforeSuper
    <3>3. Pointer(n + 1) \in Values /\ Pointer(n + 1).ref = n + 1
      BY <3>2, ValuesType DEF Pointer
    <3>4. s = IF c.ok THEN class[c] ELSE c
      BY DEF Super
    <3> HIDE DEF c, s
    <3>5. After(d, s) /\ Len(s.objects) \in Nat /\ n + 1 <= Len(s.objects)
      <4>1. CASE c.ok
        <5>1. Left(c) < Left(d)
          BY <3>2, <4>1, AfterLeft
        <5>2. Grown(c, class[c])
          BY <1>1, <3>2, <5>1
        <5>3. After(d, class[c])
          BY <3>2, <5>2, AfterTransitive DEF Grown
        <5> QED
          BY <3>2, <3>4, <4>1, <5>2, <5>3 DEF Grown
      <4>2. CASE ~c.ok
        BY <3>2, <3>4, <4>2
      <4> QED
        BY <4>1, <4>2
    <3> DEFINE p == Pointer(n + 1)
    <3>6. p \in Values /\ p.ref = n + 1 /\ e = [s EXCEPT !.val = p]
      BY <3>1, <3>3
    <3> HIDE DEF p, e
    <3>7. After(d, e) /\ e.objects = s.objects /\ e.val = p
      BY <3>5, <3>6, SetValAfter
    <3>8. e.val.ref \in 0 .. Len(e.objects)
      BY <2>0, <3>5, <3>6, <3>7
    <3> QED
      BY <2>0, <3>5, <3>7, <3>8 DEF Grown, e
  <2>4. CASE Left(d) > 0 /\ Peek(d) \notin {tagNil, tagNew}
    <3>1. e = Reference(d, {"class"})
      BY <2>0, <2>4, ClassByIs
    <3> DEFINE r == Reference(d, {"class"})
    <3>2. /\ After(d, r) /\ r.objects = d.objects
          /\ r.ok => r.val.ref \in 1 .. n
      BY ReferenceAfter
    <3> HIDE DEF r
    <3> QED
      BY <2>0, <3>1, <3>2 DEF Grown, r
  <2> QED
    BY <2>0, <2>1, <2>2, <2>3, <2>4
<1>2. Reached(W)
  BY <1>1 DEF Reached
<1> HIDE DEF W
<1>3. \A d \in Decoders : d \in W
  BY <1>2, FurtherOn
<1> QED
  BY <1>3 DEF W

(* What f reads at d it reads at d on a longer stream, when it can be read.  *)
SameOn(f, d, B) ==
  B \in Seq(Nat) /\ PrefixOf(d.b, B) /\ f[d].ok => f[With(d, B)] = With(f[d], B)

LEMMA ClassLast ==
  \A d \in Decoders : \A B : SameOn(class, d, B)
<1> DEFINE W == {d \in Decoders : \A B : SameOn(class, d, B)}
<1>1. ASSUME NEW d \in Decoders, \A e \in Decoders : Left(e) < Left(d) => \A B : SameOn(class, e, B),
             NEW B \in Seq(Nat), PrefixOf(d.b, B), class[d].ok
      PROVE  class[With(d, B)] = With(class[d], B)
  <2> DEFINE e == class[d]
             n == Len(d.objects)
             w == With(d, B)
             v == class[w]
  <2>0. Left(d) \in Nat /\ n \in Nat /\ e = ClassBy(class, d)
    BY ClassIs, DecoderType
  <2>5. w \in Decoders
    BY <1>1, WithIs
  <2>6. v = ClassBy(class, w)
    BY <2>5, ClassIs
  <2>7. /\ w.objects = d.objects
        /\ Left(d) > 0 => Left(w) > 0 /\ Peek(w) = Peek(d)
    BY <1>1, <2>0, WithFields
  <2>1. Left(d) > 0
    <3>1. CASE Left(d) = 0
      <4>1. e = Fail(d)
        BY <2>0, <3>1, ClassByIs
      <4> QED
        BY <1>1, <4>1, FailAfter
    <3> QED
      BY <2>0, <3>1
  <2>2. CASE Peek(d) = tagNil
    <3> DEFINE m == Skip(d, 1)
    <3>1. e = [m EXCEPT !.val = Nothing] /\ v = [Skip(w, 1) EXCEPT !.val = Nothing]
      BY <2>0, <2>1, <2>2, <2>5, <2>6, <2>7, ClassByIs
    <3>2. Skip(w, 1) = With(m, B) /\ m \in Decoders /\ m.b = d.b
      BY <1>1, <2>0, <2>1, SkipType, SkipLast
    <3> HIDE DEF m, w
    <3>3. [With(m, B) EXCEPT !.val = Nothing] = With([m EXCEPT !.val = Nothing], B)
      BY <1>1, <3>2, ValuesType, ValSetLast
    <3> QED
      BY <3>1, <3>2, <3>3 DEF w
  <2>3. CASE Peek(d) = tagNew
    <3> DEFINE m == Skip(d, 1)
               c == NameAndVersion(m, n + 1)
               s == Super(class, d)
               p == Pointer(n + 1)
               c2 == NameAndVersion(Skip(w, 1), n + 1)
               s2 == Super(class, w)
    <3>1. e = [s EXCEPT !.val = p] /\ v = [s2 EXCEPT !.val = p]
      BY <2>0, <2>1, <2>3, <2>5, <2>6, <2>7, ClassByIs
    <3>2. /\ n + 1 \in Nat /\ c \in Decoders /\ After(d, c) /\ c.b = d.b
      BY <2>1, BeforeSuper DEF After
    <3>3. p \in Values
      BY <3>2, ValuesType
    <3>4. s = IF c.ok THEN class[c] ELSE c
      BY DEF Super
    <3>5. s2 = IF c2.ok THEN class[c2] ELSE c2
      BY <2>7 DEF Super
    <3>6. Skip(w, 1) = With(m, B) /\ m \in Decoders /\ m.b = d.b
      BY <1>1, <2>0, <2>1, SkipType, SkipLast
    <3>7. s.ok /\ c.ok
      <4>1. class[c] \in Decoders /\ s \in Decoders
        BY <3>2, <3>4, ClassIs
      <4> HIDE DEF c, s, e, p
      <4>2. e.ok = s.ok
        BY <3>1, <3>3, <4>1, ValSet
      <4> QED
        BY <1>1, <3>4, <4>2 DEF e
    <3>8. c2 = With(c, B)
      <4>1. c2 = NameAndVersion(With(m, B), n + 1)
        BY <3>6
      <4> HIDE DEF m, c2
      <4> QED
        BY <1>1, <3>2, <3>6, <3>7, <4>1, NameAndVersionLast
    <3>9. c2.ok
      <4> HIDE DEF c, c2
      <4> QED
        BY <1>1, <3>2, <3>7, <3>8, WithFields
    <3> HIDE DEF c, c2, p, s, s2, w, v, e, m
    <3>10. Left(c) < Left(d)
      BY <3>2, <3>7, AfterLeft
    <3>11. SameOn(class, c, B)
      BY <1>1, <3>2, <3>10
    <3>12. class[With(c, B)] = With(class[c], B)
      BY <1>1, <3>2, <3>4, <3>7, <3>11 DEF SameOn
    <3>13. s2 = With(s, B)
      BY <3>4, <3>5, <3>7, <3>8, <3>9, <3>12
    <3>14. s \in Decoders /\ s.b = d.b
      <4>1. Grown(c, class[c])
        BY <3>2, ClassGood
      <4> QED
        BY <3>2, <3>4, <3>7, <4>1 DEF Grown, After
    <3>15. [With(s, B) EXCEPT !.val = p] = With([s EXCEPT !.val = p], B)
      BY <1>1, <3>3, <3>14, ValSetLast
    <3> QED
      BY <3>1, <3>13, <3>15 DEF v, w, e
  <2>4. CASE Peek(d) \notin {tagNil, tagNew}
    <3>1. e = Reference(d, {"class"}) /\ v = Reference(w, {"class"})
      BY <2>0, <2>1, <2>4, <2>5, <2>6, <2>7, ClassByIs
    <3>2. Reference(d, {"class"}).ok
      BY <1>1, <3>1
    <3>3. Reference(With(d, B), {"class"}) = With(Reference(d, {"class"}), B)
      BY <1>1, <3>2, ReferenceLast
    <3> QED
      BY <3>1, <3>3
  <2> QED
    BY <2>2, <2>3, <2>4
<1>2. Reached(W)
  <2>1. ASSUME NEW d \in Decoders, \A e \in Decoders : Left(e) < Left(d) => e \in W
        PROVE  d \in W
    <3>1. \A e \in Decoders : Left(e) < Left(d) => \A B : SameOn(class, e, B)
      BY <2>1
    <3>2. \A B \in Seq(Nat) : PrefixOf(d.b, B) /\ class[d].ok => class[With(d, B)] = With(class[d], B)
      BY <1>1, <3>1
    <3>3. \A B : SameOn(class, d, B)
      BY <3>2 DEF SameOn
    <3> QED
      BY <3>3
  <2> HIDE DEF W
  <2> QED
    BY <2>1 DEF Reached
<1> HIDE DEF W
<1>3. \A d \in Decoders : d \in W
  BY <1>2, FurtherOn
<1> QED
  BY <1>3 DEF W

(* ------------------------------- objects ------------------------------- *)

Kinds == {"object", "class", "reserved"}

(* e comes after d, with d's objects and more.                              *)
Reading(d, e) ==
  /\ After(d, e)
  /\ Len(d.objects) \in Nat /\ Len(e.objects) \in Nat /\ Len(d.objects) <= Len(e.objects)

LEMMA ReadingTransitive ==
  ASSUME NEW c \in Decoders, NEW d, NEW e, Reading(c, d), Reading(d, e)
  PROVE  Reading(c, e)
<1>1. After(c, e)
  BY AfterTransitive DEF Reading
<1> QED
  BY <1>1 DEF Reading

LEMMA ReadingSame ==
  ASSUME NEW d \in Decoders, NEW e, After(d, e), e.objects = d.objects
  PROVE  Reading(d, e)
<1>1. d.objects \in Seq(Entries)
  BY DecoderType
<1> QED
  BY <1>1 DEF Reading

LEMMA ObjectValueIs ==
  ASSUME NEW d \in Decoders, NEW g
  PROVE  /\ Left(d) = 0 => objectValue(d, g) = Fail(d)
         /\ Left(d) > 0 /\ Peek(d) = tagNil => objectValue(d, g) = [Skip(d, 1) EXCEPT !.val = Nothing]
         /\ Left(d) > 0 /\ Peek(d) = tagNew => objectValue(d, g) = g[Skip(d, 1)]
         /\ Left(d) > 0 /\ Peek(d) \notin {tagNil, tagNew} => objectValue(d, g) = Reference(d, Kinds)
<1>1. /\ Peek(d) = -1 <=> Left(d) = 0
      /\ Left(d) \in Nat
  BY PeekType, DecoderType
<1>2. Left(d) > 0 => Peek(d) # -1
  BY <1>1
<1>3. tagNew # tagNil
  BY DEF tagNew, tagNil
<1>4. Left(d) = 0 => objectValue(d, g) = Fail(d)
  BY <1>1 DEF objectValue
<1>5. Left(d) > 0 /\ Peek(d) = tagNil => objectValue(d, g) = [Skip(d, 1) EXCEPT !.val = Nothing]
  BY <1>2 DEF objectValue
<1>6. Left(d) > 0 /\ Peek(d) = tagNew => objectValue(d, g) = g[Skip(d, 1)]
  BY <1>2, <1>3 DEF objectValue
<1>7. Left(d) > 0 /\ Peek(d) \notin {tagNil, tagNew} => objectValue(d, g) = Reference(d, Kinds)
  BY <1>2 DEF objectValue, Kinds
<1> QED
  BY <1>4, <1>5, <1>6, <1>7

(* The decoder after a tag.                                                 *)
LEMMA AfterTag ==
  ASSUME NEW d \in Decoders, Left(d) > 0
  PROVE  /\ Skip(d, 1) \in Decoders /\ Reading(d, Skip(d, 1)) /\ Left(Skip(d, 1)) < Left(d)
         /\ Skip(d, 1).ok = d.ok /\ Skip(d, 1).objects = d.objects /\ Skip(d, 1).b = d.b
<1> DEFINE m == Skip(d, 1)
<1>1. Left(d) \in Nat /\ d.pos \in Nat
  BY DecoderType
<1>2. m \in Decoders /\ m.b = d.b /\ m.pos = d.pos + 1 /\ m.objects = d.objects /\ m.ok = d.ok
      /\ Left(m) = Left(d) - 1
  BY <1>1, SkipType
<1> HIDE DEF m
<1>3. After(d, m)
  BY <1>1, <1>2 DEF After
<1>4. Reading(d, m)
  BY <1>2, <1>3, ReadingSame
<1> QED
  BY <1>1, <1>2, <1>4 DEF m

LEMMA ObjectValueGood ==
  ASSUME NEW d \in Decoders, NEW g, \A e \in Decoders : Left(e) < Left(d) => g[e] \in Decoders
  PROVE  /\ objectValue(d, g) \in Decoders
         /\ (\A e \in Decoders : Left(e) < Left(d) => Reading(e, g[e])) => Reading(d, objectValue(d, g))
<1>0. Left(d) \in Nat
  BY DecoderType
<1> DEFINE v == objectValue(d, g)
<1>1. CASE Left(d) = 0
  <2>1. v = Fail(d)
    BY <1>1, ObjectValueIs
  <2>2. Fail(d) \in Decoders /\ Reading(d, Fail(d))
    BY FailAfter, ReadingSame
  <2> QED
    BY <2>1, <2>2
<1>2. CASE Left(d) > 0 /\ Peek(d) = tagNil
  <2> DEFINE m == Skip(d, 1)
             x == Nothing
             e == [m EXCEPT !.val = x]
  <2>1. v = e
    BY <1>2, ObjectValueIs
  <2>2. Reading(d, m) /\ After(d, m) /\ m.objects = d.objects
    BY <1>2, AfterTag DEF Reading
  <2>3. x \in Values
    BY ValuesType
  <2> HIDE DEF m, x
  <2>4. After(d, e) /\ e.objects = m.objects
    BY <2>2, <2>3, SetValAfter
  <2>5. e \in Decoders
    BY <2>4 DEF After
  <2> HIDE DEF e
  <2>6. Reading(d, e)
    BY <2>2, <2>4, ReadingSame
  <2> QED
    BY <2>1, <2>5, <2>6
<1>3. CASE Left(d) > 0 /\ Peek(d) = tagNew
  <2> DEFINE m == Skip(d, 1)
  <2>1. v = g[m]
    BY <1>3, ObjectValueIs
  <2>2. m \in Decoders /\ Reading(d, m) /\ Left(m) < Left(d)
    BY <1>3, AfterTag
  <2> HIDE DEF m
  <2>3. g[m] \in Decoders
    BY <2>2
  <2>4. ASSUME \A e \in Decoders : Left(e) < Left(d) => Reading(e, g[e])
        PROVE  Reading(d, g[m])
    BY <2>2, <2>4, ReadingTransitive
  <2> QED
    BY <2>1, <2>3, <2>4
<1>4. CASE Left(d) > 0 /\ Peek(d) \notin {tagNil, tagNew}
  <2> DEFINE r == Reference(d, Kinds)
  <2>1. v = r
    BY <1>4, ObjectValueIs
  <2>2. r \in Decoders /\ After(d, r) /\ r.objects = d.objects
    BY ReferenceAfter
  <2> HIDE DEF r
  <2>3. Reading(d, r)
    BY <2>2, ReadingSame
  <2> QED
    BY <2>1, <2>2, <2>3
<1> QED
  BY <1>0, <1>1, <1>2, <1>3, <1>4

LEMMA ValueIs ==
  ASSUME NEW d, NEW t, NEW g
  PROVE  /\ t = <<At>> => value(d, t, g) = objectValue(d, g)
         /\ t = <<Plus>> => value(d, t, g) = Counted(d)
         /\ t = <<Star>> => value(d, t, g) = sharedString(d)
         /\ t # <<At>> /\ t # <<Plus>> /\ t # <<Star>> => value(d, t, g) = Fail(d)
<1>1. <<At>> # <<Plus>> /\ <<At>> # <<Star>> /\ <<Plus>> # <<Star>>
  BY DEF At, Plus, Star
<1> QED
  BY <1>1 DEF value, inlineString

LEMMA ValueGood ==
  ASSUME NEW d \in Decoders, NEW t, NEW g, \A e \in Decoders : Left(e) < Left(d) => g[e] \in Decoders
  PROVE  /\ value(d, t, g) \in Decoders
         /\ (\A e \in Decoders : Left(e) < Left(d) => Reading(e, g[e])) => Reading(d, value(d, t, g))
<1> DEFINE v == value(d, t, g)
<1>1. CASE t = <<At>>
  <2>1. v = objectValue(d, g)
    BY <1>1, ValueIs
  <2> QED
    BY <2>1, ObjectValueGood
<1>2. CASE t = <<Plus>>
  <2>1. v = Counted(d)
    BY <1>2, ValueIs
  <2>2. Counted(d) \in Decoders /\ Reading(d, Counted(d))
    BY CountedAfter, ReadingSame
  <2> QED
    BY <2>1, <2>2
<1>3. CASE t = <<Star>>
  <2>1. v = sharedString(d)
    BY <1>3, ValueIs
  <2>2. sharedString(d) \in Decoders /\ Reading(d, sharedString(d))
    BY SharedStringAfter, ReadingSame
  <2> QED
    BY <2>1, <2>2
<1>4. CASE t # <<At>> /\ t # <<Plus>> /\ t # <<Star>>
  <2>1. v = Fail(d)
    BY <1>4, ValueIs
  <2>2. Fail(d) \in Decoders /\ Reading(d, Fail(d))
    BY FailAfter, ReadingSame
  <2> QED
    BY <2>1, <2>2
<1> QED
  BY <1>1, <1>2, <1>3, <1>4

LEMMA TypedValueGood ==
  ASSUME NEW d \in Decoders, NEW g, \A e \in Decoders : Left(e) < Left(d) => g[e] \in Decoders
  PROVE  /\ typedValue(d, g) \in Decoders
         /\ (\A e \in Decoders : Left(e) < Left(d) => Reading(e, g[e])) => Reading(d, typedValue(d, g))
<1> DEFINE t == typeEncoding(d)
           v == typedValue(d, g)
<1>1. t \in Decoders /\ After(d, t) /\ Reading(d, t)
  BY TypeEncodingAfter, ReadingSame
<1>2. v = IF t.ok THEN value(t, t.val.str, g) ELSE t
  BY DEF typedValue, Then
<1> HIDE DEF t, v
<1>3. CASE ~t.ok
  BY <1>1, <1>2, <1>3 DEF v
<1>4. CASE t.ok
  <2>1. Left(t) < Left(d) /\ Left(t) \in Nat /\ Left(d) \in Nat
    BY <1>1, <1>4, AfterLeft
  <2>2. \A e \in Decoders : Left(e) < Left(t) => Left(e) < Left(d)
    BY <2>1, DecoderType
  <2>3. \A e \in Decoders : Left(e) < Left(t) => g[e] \in Decoders
    BY <2>2
  <2> DEFINE y == value(t, t.val.str, g)
  <2>4. /\ y \in Decoders
        /\ (\A e \in Decoders : Left(e) < Left(t) => Reading(e, g[e])) => Reading(t, y)
    BY <1>1, <2>3, ValueGood
  <2>5. v = y
    BY <1>2, <1>4
  <2> HIDE DEF y
  <2>6. ASSUME \A e \in Decoders : Left(e) < Left(d) => Reading(e, g[e])
        PROVE  Reading(d, v)
    <3>1. \A e \in Decoders : Left(e) < Left(t) => Reading(e, g[e])
      BY <2>2, <2>6
    <3>2. Reading(t, y)
      BY <2>4, <3>1
    <3> QED
      BY <1>1, <2>5, <3>2, ReadingTransitive
  <2> QED
    BY <2>4, <2>5, <2>6 DEF v
<1> QED
  BY <1>3, <1>4 DEF v

(* --------------------------- a new object ------------------------------ *)

(* An entry that holds a string.                                            *)
Filled(x, text) == [x EXCEPT !.text = text, !.hasString = TRUE]

LEMMA FilledType ==
  ASSUME NEW x \in Entries, NEW text \in Seq(Nat)
  PROVE  /\ Filled(x, text) \in Entries /\ Filled(x, text).kind = x.kind /\ Filled(x, text).name = x.name
         /\ Filled(x, text).hasString /\ Filled(x, text).text = text
<1> DEFINE true == TRUE
           y == [x EXCEPT !.text = text, !.hasString = true]
           S1 == {"object", "class", "reserved"}
           S2 == Seq(Nat)
<1>1. Entries = [kind : S1, name : S2, hasString : BOOLEAN, text : S2]
  BY DEF Entries
<1>2. text \in S2 /\ true \in BOOLEAN
  OBVIOUS
<1>3. Filled(x, text) = y
  BY Zenon DEF Filled
<1> HIDE DEF S1, S2, true
<1>4. y \in [kind : S1, name : S2, hasString : BOOLEAN, text : S2]
  BY <1>1, <1>2
<1>5. y.kind = x.kind /\ y.name = x.name /\ y.hasString = true /\ y.text = text
  BY <1>1
<1> HIDE DEF y
<1> QED
  BY <1>1, <1>3, <1>4, <1>5 DEF true

LEMMA HoldingIs ==
  ASSUME NEW v, NEW slot, NEW text
  PROVE  Holding(v, slot, text)
           = [Changed(v, slot, Filled(v.objects[slot], text)) EXCEPT !.val = Pointer(slot)]
BY DEF Holding, Changed, Put, Filled

LEMMA HoldingGood ==
  ASSUME NEW d \in Decoders, NEW v, Reading(d, v), NEW slot \in Nat, NEW text \in Seq(Nat)
  PROVE  Holding(v, slot, text) \in Decoders /\ Reading(d, Holding(v, slot, text))
<1> DEFINE x == Filled(v.objects[slot], text)
           c == Changed(v, slot, x)
           p == Pointer(slot)
           e == [c EXCEPT !.val = p]
<1>1. v \in Decoders
  BY DEF Reading, After
<1>2. Fits(v.objects, slot, x)
  <2>1. v.objects \in Seq(Entries)
    BY <1>1, DecoderType
  <2>2. ASSUME slot \in DOMAIN v.objects PROVE x \in Entries
    <3>1. v.objects[slot] \in Entries
      BY <2>1, <2>2
    <3> QED
      BY <3>1, FilledType
  <2> QED
    BY <2>2 DEF Fits
<1>3. Holding(v, slot, text) = e
  BY HoldingIs
<1>4. p \in Values
  BY ValuesType
<1> HIDE DEF x, p
<1>5. /\ c \in Decoders /\ c.b = v.b /\ c.pos = v.pos /\ c.ok = v.ok
      /\ Len(c.objects) = Len(v.objects)
  BY <1>1, <1>2, ChangedType
<1> HIDE DEF c
<1>6. After(d, c)
  BY <1>5 DEF Reading, After
<1>7. After(d, e) /\ e.objects = c.objects
  BY <1>4, <1>6, SetValAfter
<1> HIDE DEF e
<1>8. e \in Decoders /\ Reading(d, e)
  BY <1>5, <1>7 DEF Reading, After
<1> QED
  BY <1>3, <1>8

LEMMA ContentsIs ==
  ASSUME NEW d, NEW slot, NEW g, NEW v, v = typedValue(d, g)
  PROVE  /\ ~v.ok => objectContents(d, slot, g) = v
         /\ v.ok /\ IsString(d.objects[slot].name) /\ v.val.kind = "string" =>
              objectContents(d, slot, g) = Holding(v, slot, v.val.str)
         /\ v.ok /\ ~(IsString(d.objects[slot].name) /\ v.val.kind = "string")
              /\ IsAttributed(d.objects[slot].name) /\ HasString(v) =>
              objectContents(d, slot, g) = Holding(v, slot, v.objects[v.val.ref].text)
         /\ v.ok /\ ~(IsString(d.objects[slot].name) /\ v.val.kind = "string")
              /\ ~(IsAttributed(d.objects[slot].name) /\ HasString(v)) =>
              objectContents(d, slot, g) = Fail(d)
<1> HIDE DEF IsString, IsAttributed, HasString
<1> QED
  BY DEF objectContents, Then

LEMMA ContentsGood ==
  ASSUME NEW d \in Decoders, NEW slot \in Nat, NEW g,
         \A e \in Decoders : Left(e) < Left(d) => g[e] \in Decoders
  PROVE  /\ objectContents(d, slot, g) \in Decoders
         /\ (\A e \in Decoders : Left(e) < Left(d) => Reading(e, g[e]))
              => Reading(d, objectContents(d, slot, g))
<1> DEFINE v == typedValue(d, g)
           c == objectContents(d, slot, g)
           wordy == IsString(d.objects[slot].name) /\ v.val.kind = "string"
           backed == IsAttributed(d.objects[slot].name) /\ HasString(v)
<1>1. /\ v \in Decoders
      /\ (\A e \in Decoders : Left(e) < Left(d) => Reading(e, g[e])) => Reading(d, v)
  BY TypedValueGood
<1>2. /\ ~v.ok => c = v
      /\ v.ok /\ wordy => c = Holding(v, slot, v.val.str)
      /\ v.ok /\ ~wordy /\ backed => c = Holding(v, slot, v.objects[v.val.ref].text)
      /\ v.ok /\ ~wordy /\ ~backed => c = Fail(d)
  BY ContentsIs
<1>3. v.val.str \in Seq(Nat)
  BY <1>1, DecoderType DEF Values
<1>4. backed => v.objects[v.val.ref].text \in Seq(Nat)
  <2>1. v.objects \in Seq(Entries)
    BY <1>1, DecoderType
  <2>2. backed => v.val.ref \in DOMAIN v.objects
    BY DEF HasString
  <2>3. backed => v.objects[v.val.ref] \in Entries
    BY <2>1, <2>2
  <2> QED
    BY <2>3 DEF Entries
<1>5. Fail(d) \in Decoders /\ Reading(d, Fail(d))
  BY FailAfter, ReadingSame
<1> HIDE DEF c, wordy, backed
<1>6. ASSUME NEW text \in Seq(Nat)
      PROVE  /\ Holding(v, slot, text) \in Decoders
             /\ Reading(d, v) => Reading(d, Holding(v, slot, text))
  <2>1. Holding(v, slot, text) \in Decoders
    <3> DEFINE x == Filled(v.objects[slot], text)
               p == Pointer(slot)
               e == Changed(v, slot, x)
    <3>1. Fits(v.objects, slot, x)
      <4>1. v.objects \in Seq(Entries)
        BY <1>1, DecoderType
      <4>2. ASSUME slot \in DOMAIN v.objects PROVE x \in Entries
        <5>1. v.objects[slot] \in Entries
          BY <4>1, <4>2
        <5> QED
          BY <5>1, FilledType
      <4> QED
        BY <4>2 DEF Fits
    <3>2. Holding(v, slot, text) = [e EXCEPT !.val = p]
      BY HoldingIs
    <3>3. p \in Values
      BY ValuesType
    <3> HIDE DEF x, p, v
    <3>4. e \in Decoders
      BY <1>1, <3>1, ChangedType
    <3> HIDE DEF e
    <3> QED
      BY <3>2, <3>3, <3>4, ValSet
  <2>2. Reading(d, v) => Reading(d, Holding(v, slot, text))
    <3> HIDE DEF v
    <3> QED
      BY HoldingGood
  <2> QED
    BY <2>1, <2>2
<1> HIDE DEF v
<1>7. c \in Decoders /\ (Reading(d, v) => Reading(d, c))
  BY <1>1, <1>2, <1>3, <1>4, <1>5, <1>6
<1> QED
  BY <1>1, <1>7 DEF c

LEMMA OfClassIs ==
  ASSUME NEW c \in Decoders, c.val.ref \in 1 .. Len(c.objects), NEW slot \in Nat
  PROVE  /\ ofClass(c, slot) = Changed(c, slot, Object(c.objects[c.val.ref].name))
         /\ Fits(c.objects, slot, Object(c.objects[c.val.ref].name))
         /\ ofClass(c, slot) \in Decoders
         /\ ofClass(c, slot).b = c.b /\ ofClass(c, slot).pos = c.pos /\ ofClass(c, slot).ok = c.ok
         /\ ofClass(c, slot).strings = c.strings
         /\ Len(ofClass(c, slot).objects) = Len(c.objects)
<1> DEFINE x == Object(c.objects[c.val.ref].name)
           e == Changed(c, slot, x)
<1>1. c.objects \in Seq(Entries)
  BY DecoderType
<1>2. c.objects[c.val.ref] \in Entries
  BY <1>1
<1>3. c.objects[c.val.ref].name \in Seq(Nat)
  BY <1>2, EntriesType
<1>4. x \in Entries
  BY <1>3, EntriesType
<1>5. Fits(c.objects, slot, x)
  BY <1>4 DEF Fits
<1>6. ofClass(c, slot) = e
  BY DEF ofClass, Changed, Put
<1> HIDE DEF x
<1>7. /\ e \in Decoders /\ e.b = c.b /\ e.pos = c.pos /\ e.ok = c.ok /\ e.strings = c.strings
      /\ Len(e.objects) = Len(c.objects)
  BY <1>5, ChangedType
<1> HIDE DEF e
<1>8. /\ ofClass(c, slot) = e /\ Fits(c.objects, slot, x)
  BY <1>5, <1>6
<1> QED
  BY <1>7, <1>8 DEF e, x

LEMMA OfClassGood ==
  ASSUME NEW d \in Decoders, NEW c, Grown(d, c), c.ok, NEW slot \in Nat
  PROVE  /\ ofClass(c, slot) \in Decoders /\ Reading(d, ofClass(c, slot))
         /\ ofClass(c, slot).ok /\ ofClass(c, slot).pos = c.pos
<1> DEFINE o == ofClass(c, slot)
<1>1. c \in Decoders /\ Reading(d, c) /\ After(d, c)
  BY DEF Grown, After, Reading
<1>2. CASE c.val.ref = 0
  BY <1>1, <1>2 DEF ofClass
<1>3. CASE c.val.ref # 0
  <2>1. c.objects \in Seq(Entries)
    BY <1>1, DecoderType
  <2>2. c.val.ref \in 1 .. Len(c.objects)
    BY <1>3, <2>1 DEF Grown
  <2>3. /\ o \in Decoders /\ o.b = c.b /\ o.pos = c.pos /\ o.ok = c.ok
        /\ Len(o.objects) = Len(c.objects)
    BY <1>1, <2>2, OfClassIs
  <2> HIDE DEF o
  <2>4. After(d, o)
    BY <1>1, <2>3 DEF After
  <2> QED
    BY <1>1, <2>3, <2>4 DEF Reading, o
<1> QED
  BY <1>2, <1>3

LEMMA ReserveIs ==
  ASSUME NEW d \in Decoders
  PROVE  /\ Reserve(d) = More(d, Object(<<>>)) /\ Object(<<>>) \in Entries
         /\ Reserve(d) \in Decoders /\ Reserve(d).b = d.b /\ Reserve(d).pos = d.pos
         /\ Reserve(d).ok = d.ok /\ Reserve(d).strings = d.strings
         /\ Len(Reserve(d).objects) = Len(d.objects) + 1 /\ Len(d.objects) \in Nat
         /\ Left(Reserve(d)) = Left(d)
<1> DEFINE x == Object(<<>>)
<1>1. Reserve(d) = More(d, x)
  BY DEF Reserve, More
<1>2. x \in Entries
  <2>1. <<>> \in Seq(Nat)
    OBVIOUS
  <2> QED
    BY <2>1, EntriesType
<1> HIDE DEF x
<1> QED
  BY <1>1, <1>2, MoreType DEF Left, x

(* The class of a new object, and the object before its contents.            *)
ItsClass(d) == class[Reserve(d)]
Before(d) == ofClass(ItsClass(d), Len(d.objects) + 1)

LEMMA BeforeGood ==
  ASSUME NEW d \in Decoders
  PROVE  /\ ItsClass(d) \in Decoders /\ Reading(d, ItsClass(d)) /\ Len(d.objects) + 1 \in Nat
         /\ ItsClass(d).ok => /\ Before(d) \in Decoders /\ Reading(d, Before(d))
                              /\ Left(Before(d)) < Left(d)
<1> DEFINE r == Reserve(d)
           c == ItsClass(d)
           slot == Len(d.objects) + 1
<1>1. r \in Decoders /\ r.b = d.b /\ r.pos = d.pos /\ r.ok = d.ok /\ Len(r.objects) = slot
      /\ slot \in Nat /\ Len(d.objects) \in Nat /\ Len(d.objects) <= slot
  BY ReserveIs
<1> HIDE DEF r, slot
<1>2. Grown(r, c)
  BY <1>1, ClassGood DEF ItsClass, r
<1> HIDE DEF c
<1>3. ASSUME NEW e, Reading(r, e) PROVE Reading(d, e)
  <2>1. After(d, e)
    BY <1>1, <1>3 DEF Reading, After
  <2> QED
    BY <1>1, <1>3, <2>1 DEF Reading
<1>4. c \in Decoders /\ Reading(d, c)
  <2>1. Reading(r, c)
    BY <1>2 DEF Grown, Reading
  <2> QED
    BY <1>3, <2>1 DEF Reading, After
<1>5. ASSUME c.ok
      PROVE  Before(d) \in Decoders /\ Reading(d, Before(d)) /\ Left(Before(d)) < Left(d)
  <2> DEFINE o == ofClass(c, slot)
  <2>1. o \in Decoders /\ Reading(r, o) /\ o.ok
    BY <1>1, <1>2, <1>5, OfClassGood
  <2>2. Reading(d, o)
    BY <1>3, <2>1
  <2>3. Before(d) = o
    BY DEF Before, c, slot
  <2> HIDE DEF o
  <2>4. Left(o) < Left(d)
    BY <2>1, <2>2, AfterLeft DEF Reading
  <2> QED
    BY <2>1, <2>2, <2>3, <2>4
<1> QED
  BY <1>1, <1>4, <1>5 DEF c, slot

(* What newObject makes of a decoder, given what it makes of those further on. *)
NewBy(g, d) ==
  LET slot == Len(d.objects) + 1 IN
  Then(class[Reserve(d)], LAMBDA c : objectContents(ofClass(c, slot), slot, g))

LEMMA NewByIs ==
  ASSUME NEW d, NEW g
  PROVE  NewBy(g, d) = IF ItsClass(d).ok THEN objectContents(Before(d), Len(d.objects) + 1, g)
                       ELSE ItsClass(d)
BY DEF NewBy, Then, ItsClass, Before

LEMMA NewByGood ==
  ASSUME NEW d \in Decoders, NEW g, \A e \in Decoders : Left(e) < Left(d) => g[e] \in Decoders
  PROVE  /\ NewBy(g, d) \in Decoders
         /\ (\A e \in Decoders : Left(e) < Left(d) => Reading(e, g[e])) => Reading(d, NewBy(g, d))
<1> DEFINE c == ItsClass(d)
           slot == Len(d.objects) + 1
           b == Before(d)
           v == NewBy(g, d)
<1>1. /\ c \in Decoders /\ Reading(d, c) /\ slot \in Nat
      /\ c.ok => b \in Decoders /\ Reading(d, b) /\ Left(b) < Left(d)
  BY BeforeGood
<1>2. v = IF c.ok THEN objectContents(b, slot, g) ELSE c
  BY NewByIs
<1> HIDE DEF c, slot, b, v
<1>3. CASE ~c.ok
  BY <1>1, <1>2, <1>3 DEF v
<1>4. CASE c.ok
  <2>1. \A e \in Decoders : Left(e) < Left(b) => Left(e) < Left(d)
    BY <1>1, <1>4, DecoderType
  <2>2. \A e \in Decoders : Left(e) < Left(b) => g[e] \in Decoders
    BY <2>1
  <2> DEFINE y == objectContents(b, slot, g)
  <2>3. /\ y \in Decoders
        /\ (\A e \in Decoders : Left(e) < Left(b) => Reading(e, g[e])) => Reading(b, y)
    BY <1>1, <1>4, <2>2, ContentsGood
  <2>4. v = y
    BY <1>2, <1>4
  <2> HIDE DEF y
  <2>5. ASSUME \A e \in Decoders : Left(e) < Left(d) => Reading(e, g[e])
        PROVE  Reading(d, v)
    <3>1. \A e \in Decoders : Left(e) < Left(b) => Reading(e, g[e])
      BY <2>1, <2>5
    <3>2. Reading(b, y)
      BY <2>3, <3>1
    <3> QED
      BY <1>1, <1>4, <2>4, <3>2, ReadingTransitive
  <2> QED
    BY <2>3, <2>4, <2>5 DEF v
<1> QED
  BY <1>3, <1>4

(* What g and h do alike for every decoder further on than d.                 *)
AlikeAfter(g, h, d) == \A e \in Decoders : Left(e) < Left(d) => g[e] = h[e]

LEMMA AlikeFurther ==
  ASSUME NEW g, NEW h, NEW d \in Decoders, NEW e \in Decoders, Left(e) < Left(d), AlikeAfter(g, h, d)
  PROVE  AlikeAfter(g, h, e)
<1>1. Left(e) \in Nat /\ Left(d) \in Nat /\ \A f \in Decoders : Left(f) \in Nat
  BY DecoderType
<1> QED
  BY <1>1 DEF AlikeAfter

LEMMA ValueLocal ==
  ASSUME NEW g, NEW h, NEW d \in Decoders, NEW t, AlikeAfter(g, h, d)
  PROVE  value(d, t, g) = value(d, t, h)
<1>0. Left(d) \in Nat
  BY DecoderType
<1>1. objectValue(d, g) = objectValue(d, h)
  <2>1. CASE Left(d) = 0
    BY <2>1, ObjectValueIs
  <2>2. CASE Left(d) > 0 /\ Peek(d) = tagNil
    BY <2>2, ObjectValueIs
  <2>3. CASE Left(d) > 0 /\ Peek(d) = tagNew
    <3> DEFINE m == Skip(d, 1)
    <3>1. objectValue(d, g) = g[m] /\ objectValue(d, h) = h[m]
      BY <2>3, ObjectValueIs
    <3>2. m \in Decoders /\ Left(m) < Left(d)
      BY <2>3, AfterTag
    <3> HIDE DEF m
    <3>3. g[m] = h[m]
      BY <3>2 DEF AlikeAfter
    <3> QED
      BY <3>1, <3>3
  <2>4. CASE Left(d) > 0 /\ Peek(d) \notin {tagNil, tagNew}
    BY <2>4, ObjectValueIs
  <2> QED
    BY <1>0, <2>1, <2>2, <2>3, <2>4
<1>2. CASE t = <<At>>
  BY <1>1, <1>2, ValueIs
<1>3. CASE t = <<Plus>>
  BY <1>3, ValueIs
<1>4. CASE t = <<Star>>
  BY <1>4, ValueIs
<1>5. CASE t # <<At>> /\ t # <<Plus>> /\ t # <<Star>>
  BY <1>5, ValueIs
<1> QED
  BY <1>2, <1>3, <1>4, <1>5

LEMMA TypedValueLocal ==
  ASSUME NEW g, NEW h, NEW d \in Decoders, AlikeAfter(g, h, d)
  PROVE  typedValue(d, g) = typedValue(d, h)
<1> DEFINE t == typeEncoding(d)
<1>1. t \in Decoders /\ After(d, t)
  BY TypeEncodingAfter
<1>2. /\ typedValue(d, g) = IF t.ok THEN value(t, t.val.str, g) ELSE t
      /\ typedValue(d, h) = IF t.ok THEN value(t, t.val.str, h) ELSE t
  BY DEF typedValue, Then
<1> HIDE DEF t
<1>3. CASE ~t.ok
  BY <1>2, <1>3
<1>4. CASE t.ok
  <2>1. Left(t) < Left(d)
    BY <1>1, <1>4, AfterLeft
  <2>2. AlikeAfter(g, h, t)
    BY <1>1, <2>1, AlikeFurther
  <2>3. value(t, t.val.str, g) = value(t, t.val.str, h)
    BY <1>1, <2>2, ValueLocal
  <2> QED
    BY <1>2, <2>3
<1> QED
  BY <1>3, <1>4

LEMMA NewByLocal ==
  ASSUME NEW g, NEW h, NEW d \in Decoders, AlikeAfter(g, h, d)
  PROVE  NewBy(g, d) = NewBy(h, d)
<1> DEFINE c == ItsClass(d)
           b == Before(d)
           slot == Len(d.objects) + 1
<1>1. /\ NewBy(g, d) = IF c.ok THEN objectContents(b, slot, g) ELSE c
      /\ NewBy(h, d) = IF c.ok THEN objectContents(b, slot, h) ELSE c
  BY NewByIs
<1>2. c.ok => b \in Decoders /\ Left(b) < Left(d)
  BY BeforeGood
<1> HIDE DEF c, b, slot
<1>3. ASSUME c.ok PROVE objectContents(b, slot, g) = objectContents(b, slot, h)
  <2>1. AlikeAfter(g, h, b)
    BY <1>2, <1>3, AlikeFurther
  <2>2. typedValue(b, g) = typedValue(b, h)
    BY <1>2, <1>3, <2>1, TypedValueLocal
  <2> QED
    BY <2>2 DEF objectContents
<1> QED
  BY <1>1, <1>3

(* newObject is a function that does so for every decoder.                  *)
LEMMA NewIs ==
  /\ newObject \in [Decoders -> Decoders]
  /\ \A d \in Decoders : newObject[d] = NewBy(newObject, d)
<1> DEFINE D == Decoders
           step == [g \in [D -> D] |-> [d \in D |-> NewBy(g, d)]]
           size == [d \in D |-> Left(d)]
           Is(f) == f = [d \in D |-> NewBy(f, d)]
<1>1. Decoder(<<>>) \in D
  <2>1. Nothing \in Values /\ <<>> \in Seq(Nat) /\ <<>> \in Seq(Seq(Nat)) /\ <<>> \in Seq(Entries) /\ Len(<<>>) = 0
    BY ValuesType
  <2> QED
    BY <2>1 DEF Decoder, Decoders
<1>2. Recursion(step, size, D, D)
  <2>1. step \in [[D -> D] -> [D -> D]]
    <3>1. \A g \in [D -> D] : \A d \in D : NewBy(g, d) \in D
      <4> SUFFICES ASSUME NEW g \in [D -> D], NEW d \in D PROVE NewBy(g, d) \in D
        OBVIOUS
      <4>1. \A e \in Decoders : Left(e) < Left(d) => g[e] \in Decoders
        OBVIOUS
      <4> QED
        BY <4>1, NewByGood
    <3> HIDE DEF D
    <3> QED
      BY <3>1
  <2>2. size \in [D -> Nat]
    BY DecoderType
  <2>3. ASSUME NEW d \in D, NEW g \in [D -> D], NEW h \in [D -> D],
               \A e \in D : size[e] < size[d] => g[e] = h[e]
        PROVE  step[g][d] = step[h][d]
    <3>1. AlikeAfter(g, h, d)
      BY <2>3 DEF AlikeAfter
    <3>2. NewBy(g, d) = NewBy(h, d)
      BY <3>1, NewByLocal
    <3> QED
      BY <3>2
  <2> HIDE DEF step, size, D
  <2> QED
    BY <2>1, <2>2, <2>3 DEF Recursion
<1>3. PICK t \in [D -> D] : t = step[t]
  <2> HIDE DEF step, size, D
  <2> QED
    BY <1>1, <1>2, RecursionEnds
<1>4. t = [d \in D |-> NewBy(t, d)]
  <2> HIDE DEF D
  <2>1. step[t] = [d \in D |-> NewBy(t, d)]
    BY Zenon
  <2> QED
    BY <1>3, <2>1, Zenon
<1>5. newObject = CHOOSE f : Is(f)
  BY DEF newObject, NewBy
<1>6. newObject = [d \in D |-> NewBy(newObject, d)]
  <2>1. Is(t)
    BY <1>4, Zenon
  <2> HIDE DEF Is
  <2>2. Is(newObject)
    BY <1>5, <2>1, Zenon
  <2> QED
    BY <2>2, Zenon DEF Is
<1>7. \A d \in D : size[d] = Left(d) /\ Left(d) \in Nat
  BY DecoderType
<1>8. \A d \in D : \A g, h : (\A e \in D : Left(e) < Left(d) => g[e] = h[e]) => NewBy(g, d) = NewBy(h, d)
  BY NewByLocal DEF AlikeAfter
<1> HIDE DEF D, size
<1>9. \A d \in D : t[d] = NewBy(t, d)
  BY <1>4, Zenon
<1>10. \A d \in D : newObject[d] = NewBy(newObject, d)
  BY <1>6, Zenon
<1>11. \A d \in D : newObject[d] = t[d]
  <2>1. \A d \in D : (\A e \in D : Left(e) < Left(d) => newObject[e] = t[e]) => newObject[d] = t[d]
    BY <1>8, <1>9, <1>10, Zenon
  <2>2. Descends(D, size, newObject, t)
    BY <1>7, <2>1, Zenon DEF Descends
  <2> QED
    BY <2>2, SameBySize
<1>12. newObject \in [D -> D]
  <2>1. \A d \in D : newObject[d] \in D
    BY <1>3, <1>11, Zenon
  <2>2. newObject = [d \in D |-> newObject[d]]
    BY <1>6, <1>10, Zenon
  <2> QED
    BY <2>1, <2>2, Zenon
<1> QED
  BY <1>10, <1>12, Zenon DEF D

LEMMA NewGood ==
  \A d \in Decoders : Reading(d, newObject[d])
<1> DEFINE W == {d \in Decoders : Reading(d, newObject[d])}
<1>1. ASSUME NEW d \in Decoders, \A e \in Decoders : Left(e) < Left(d) => e \in W
      PROVE  d \in W
  <2>1. \A e \in Decoders : Left(e) < Left(d) => Reading(e, newObject[e])
    BY <1>1
  <2>2. \A e \in Decoders : Left(e) < Left(d) => newObject[e] \in Decoders
    BY NewIs
  <2>3. Reading(d, NewBy(newObject, d))
    BY <2>1, <2>2, NewByGood
  <2>4. newObject[d] = NewBy(newObject, d)
    BY NewIs
  <2> QED
    BY <2>3, <2>4
<1> HIDE DEF W
<1>2. Reached(W)
  BY <1>1 DEF Reached
<1>3. \A d \in Decoders : d \in W
  BY <1>2, FurtherOn
<1> QED
  BY <1>3 DEF W

LEMMA ObjectValueLast ==
  ASSUME NEW d \in Decoders, NEW B \in Seq(Nat), PrefixOf(d.b, B), NEW g,
         \A e \in Decoders : Left(e) < Left(d) => SameOn(g, e, B),
         objectValue(d, g).ok
  PROVE  objectValue(With(d, B), g) = With(objectValue(d, g), B)
<1> DEFINE w == With(d, B)
           v == objectValue(d, g)
           u == objectValue(w, g)
<1>0. Left(d) \in Nat /\ w \in Decoders
  BY WithIs, DecoderType
<1>1. Left(d) > 0 => Left(w) > 0 /\ Peek(w) = Peek(d)
  BY <1>0, WithFields
<1>2. Left(d) > 0
  <2>1. CASE Left(d) = 0
    <3>1. v = Fail(d)
      BY <2>1, ObjectValueIs
    <3> QED
      BY <3>1, FailAfter
  <2> QED
    BY <1>0, <2>1
<1>3. CASE Peek(d) = tagNil
  <2> DEFINE m == Skip(d, 1)
  <2>1. v = [m EXCEPT !.val = Nothing] /\ u = [Skip(w, 1) EXCEPT !.val = Nothing]
    BY <1>0, <1>1, <1>2, <1>3, ObjectValueIs
  <2>2. Skip(w, 1) = With(m, B) /\ m \in Decoders /\ m.b = d.b
    BY <1>0, <1>2, SkipType, SkipLast
  <2> HIDE DEF m, w
  <2>3. [With(m, B) EXCEPT !.val = Nothing] = With([m EXCEPT !.val = Nothing], B)
    BY <2>2, ValuesType, ValSetLast
  <2> QED
    BY <2>1, <2>2, <2>3 DEF w
<1>4. CASE Peek(d) = tagNew
  <2> DEFINE m == Skip(d, 1)
  <2>1. v = g[m] /\ u = g[Skip(w, 1)]
    BY <1>0, <1>1, <1>2, <1>4, ObjectValueIs
  <2>2. Skip(w, 1) = With(m, B)
    BY <1>0, <1>2, SkipLast
  <2>3. m \in Decoders /\ m.b = d.b /\ Left(m) < Left(d)
    BY <1>2, AfterTag
  <2> HIDE DEF m, w, v
  <2>4. SameOn(g, m, B) /\ v.ok
    BY <2>3 DEF v
  <2>5. g[With(m, B)] = With(g[m], B)
    BY <2>1, <2>3, <2>4 DEF SameOn
  <2> QED
    BY <2>1, <2>2, <2>5 DEF v, w
<1>5. CASE Peek(d) \notin {tagNil, tagNew}
  <2>1. v = Reference(d, Kinds) /\ u = Reference(w, Kinds)
    BY <1>0, <1>1, <1>2, <1>5, ObjectValueIs
  <2>2. Reference(d, Kinds).ok
    BY <2>1
  <2>3. Reference(With(d, B), Kinds) = With(Reference(d, Kinds), B)
    BY <2>2, ReferenceLast
  <2> QED
    BY <2>1, <2>3
<1> QED
  BY <1>3, <1>4, <1>5

LEMMA ValueLast ==
  ASSUME NEW d \in Decoders, NEW B \in Seq(Nat), PrefixOf(d.b, B), NEW g, NEW t,
         \A e \in Decoders : Left(e) < Left(d) => SameOn(g, e, B),
         value(d, t, g).ok
  PROVE  value(With(d, B), t, g) = With(value(d, t, g), B)
<1>2. CASE t = <<At>>
  <2>1. objectValue(d, g).ok
    BY <1>2, ValueIs
  <2>2. objectValue(With(d, B), g) = With(objectValue(d, g), B)
    BY <2>1, ObjectValueLast
  <2> QED
    BY <1>2, <2>2, ValueIs
<1>3. CASE t = <<Plus>>
  <2>1. Counted(d).ok
    BY <1>3, ValueIs
  <2>2. Counted(With(d, B)) = With(Counted(d), B)
    BY <2>1, CountedLast
  <2> QED
    BY <1>3, <2>2, ValueIs
<1>4. CASE t = <<Star>>
  <2>1. sharedString(d).ok
    BY <1>4, ValueIs
  <2>2. sharedString(With(d, B)) = With(sharedString(d), B)
    BY <2>1, SharedStringLast
  <2> QED
    BY <1>4, <2>2, ValueIs
<1>5. CASE t # <<At>> /\ t # <<Plus>> /\ t # <<Star>>
  <2>1. value(d, t, g) = Fail(d)
    BY <1>5, ValueIs
  <2> QED
    BY <2>1, FailAfter
<1> QED
  BY <1>2, <1>3, <1>4, <1>5

LEMMA TypedValueLast ==
  ASSUME NEW d \in Decoders, NEW B \in Seq(Nat), PrefixOf(d.b, B), NEW g,
         \A e \in Decoders : Left(e) < Left(d) => SameOn(g, e, B),
         typedValue(d, g).ok
  PROVE  typedValue(With(d, B), g) = With(typedValue(d, g), B)
<1> DEFINE t == typeEncoding(d)
           w == With(d, B)
           u == typeEncoding(w)
<1>1. t \in Decoders /\ After(d, t) /\ t.b = d.b
  BY TypeEncodingAfter DEF After
<1>2. /\ typedValue(d, g) = IF t.ok THEN value(t, t.val.str, g) ELSE t
      /\ typedValue(w, g) = IF u.ok THEN value(u, u.val.str, g) ELSE u
  BY DEF typedValue, Then
<1>3. t.ok
  <2> HIDE DEF t
  <2>1. CASE ~t.ok
    BY <1>2, <2>1
  <2> QED
    BY <2>1
<1>4. u = With(t, B)
  BY <1>3, TypeEncodingLast
<1> HIDE DEF t, u, w
<1>5. u.ok /\ u.val = t.val
  BY <1>1, <1>3, <1>4, WithFields
<1>6. Left(t) < Left(d) /\ Left(t) \in Nat /\ Left(d) \in Nat
  BY <1>1, <1>3, AfterLeft
<1>7. \A e \in Decoders : Left(e) < Left(t) => SameOn(g, e, B)
  <2>1. \A e \in Decoders : Left(e) < Left(t) => Left(e) < Left(d)
    BY <1>6, DecoderType
  <2> QED
    BY <2>1
<1> DEFINE s == t.val.str
<1>8. typedValue(d, g) = value(t, s, g) /\ typedValue(w, g) = value(u, s, g) /\ value(t, s, g).ok
  BY <1>2, <1>3, <1>5
<1> HIDE DEF s
<1>9. value(With(t, B), s, g) = With(value(t, s, g), B)
  BY <1>1, <1>7, <1>8, ValueLast
<1> QED
  BY <1>4, <1>8, <1>9 DEF w

LEMMA HoldingLast ==
  ASSUME NEW v \in Decoders, NEW B \in Seq(Nat), PrefixOf(v.b, B), NEW slot \in Nat, NEW text \in Seq(Nat)
  PROVE  Holding(With(v, B), slot, text) = With(Holding(v, slot, text), B)
<1> DEFINE x == Filled(v.objects[slot], text)
           w == With(v, B)
           p == Pointer(slot)
           c == Changed(v, slot, x)
<1>1. Fits(v.objects, slot, x)
  <2>1. v.objects \in Seq(Entries)
    BY DecoderType
  <2>2. ASSUME slot \in DOMAIN v.objects PROVE x \in Entries
    <3>1. v.objects[slot] \in Entries
      BY <2>1, <2>2
    <3> QED
      BY <3>1, FilledType
  <2> QED
    BY <2>2 DEF Fits
<1>2. w.objects = v.objects
  BY WithFields
<1>3. Holding(v, slot, text) = [c EXCEPT !.val = p]
  BY HoldingIs
<1>4. Holding(w, slot, text) = [Changed(w, slot, x) EXCEPT !.val = p]
  <2> HIDE DEF w
  <2> QED
    BY <1>2, HoldingIs
<1>5. p \in Values
  BY ValuesType
<1> HIDE DEF x, p
<1>6. c \in Decoders /\ c.b = v.b
  BY <1>1, ChangedType
<1>7. Changed(w, slot, x) = With(c, B)
  BY <1>1, ChangedLast
<1> HIDE DEF c, w
<1>8. [With(c, B) EXCEPT !.val = p] = With([c EXCEPT !.val = p], B)
  BY <1>5, <1>6, ValSetLast
<1> QED
  BY <1>3, <1>4, <1>7, <1>8 DEF w

LEMMA ContentsLast ==
  ASSUME NEW d \in Decoders, NEW B \in Seq(Nat), PrefixOf(d.b, B), NEW slot \in Nat, NEW g,
         \A e \in Decoders : Left(e) < Left(d) => g[e] \in Decoders,
         \A e \in Decoders : Left(e) < Left(d) => Reading(e, g[e]),
         \A e \in Decoders : Left(e) < Left(d) => SameOn(g, e, B),
         objectContents(d, slot, g).ok
  PROVE  objectContents(With(d, B), slot, g) = With(objectContents(d, slot, g), B)
<1> DEFINE v == typedValue(d, g)
           w == With(d, B)
           u == typedValue(w, g)
           wordy == IsString(d.objects[slot].name) /\ v.val.kind = "string"
           backed == IsAttributed(d.objects[slot].name) /\ HasString(v)
           c == objectContents(d, slot, g)
           r == objectContents(w, slot, g)
<1>1. v \in Decoders /\ v.b = d.b
  BY TypedValueGood DEF Reading, After
<1>2. w.objects = d.objects /\ w \in Decoders
  BY WithFields, WithIs
<1>3. /\ ~v.ok => c = v
      /\ v.ok /\ wordy => c = Holding(v, slot, v.val.str)
      /\ v.ok /\ ~wordy /\ backed => c = Holding(v, slot, v.objects[v.val.ref].text)
      /\ v.ok /\ ~wordy /\ ~backed => c = Fail(d)
  BY ContentsIs
<1>4. v.ok /\ (wordy \/ backed)
  <2>1. ~Fail(d).ok
    BY FailAfter
  <2> HIDE DEF v, wordy, backed
  <2>2. CASE ~v.ok
    BY <1>3, <2>2
  <2>3. CASE v.ok /\ ~wordy /\ ~backed
    BY <1>3, <2>1, <2>3
  <2> QED
    BY <2>2, <2>3
<1>5. u = With(v, B)
  BY <1>4, TypedValueLast
<1>6. /\ v.val.str \in Seq(Nat)
      /\ backed => v.objects[v.val.ref].text \in Seq(Nat)
  <2>1. v.objects \in Seq(Entries) /\ v.val.str \in Seq(Nat)
    BY <1>1, DecoderType, ValuesType
  <2>2. backed => v.val.ref \in DOMAIN v.objects
    BY DEF HasString
  <2>3. backed => v.objects[v.val.ref] \in Entries
    BY <2>1, <2>2
  <2> QED
    BY <2>1, <2>3, EntriesType
<1> HIDE DEF v, u
<1>7. u.ok /\ u.val = v.val /\ u.objects = v.objects
  BY <1>1, <1>4, <1>5, WithFields
<1>8. HasString(u) <=> HasString(v)
  BY <1>7 DEF HasString
<1>9. /\ wordy => r = Holding(u, slot, v.val.str)
      /\ ~wordy /\ backed => r = Holding(u, slot, v.objects[v.val.ref].text)
  <2>1. u = typedValue(w, g)
    BY DEF u
  <2> HIDE DEF w
  <2>2. /\ IsString(w.objects[slot].name) /\ u.val.kind = "string" => r = Holding(u, slot, u.val.str)
        /\ ~(IsString(w.objects[slot].name) /\ u.val.kind = "string")
             /\ IsAttributed(w.objects[slot].name) /\ HasString(u)
             => r = Holding(u, slot, u.objects[u.val.ref].text)
    BY <1>7, <2>1, ContentsIs
  <2> QED
    BY <1>2, <1>7, <1>8, <2>2
<1>10. \A text \in Seq(Nat) : Holding(u, slot, text) = With(Holding(v, slot, text), B)
  BY <1>1, <1>5, HoldingLast
<1> HIDE DEF c, r, wordy, backed
<1> QED
  BY <1>3, <1>4, <1>6, <1>9, <1>10 DEF c, r, w

LEMMA BeforeLast ==
  ASSUME NEW d \in Decoders, NEW B \in Seq(Nat), PrefixOf(d.b, B), ItsClass(d).ok
  PROVE  /\ ItsClass(With(d, B)) = With(ItsClass(d), B)
         /\ Before(With(d, B)) = With(Before(d), B)
<1> DEFINE w == With(d, B)
           r == Reserve(d)
           c == ItsClass(d)
           slot == Len(d.objects) + 1
           x == Object(<<>>)
<1>1. /\ r = More(d, x) /\ x \in Entries /\ r \in Decoders /\ r.b = d.b
  BY ReserveIs
<1>2. w \in Decoders /\ w.objects = d.objects
  BY WithIs, WithFields
<1>3. Reserve(w) = More(w, x)
  <2> HIDE DEF w
  <2> QED
    BY <1>2, ReserveIs
<1> HIDE DEF x
<1>4. Reserve(w) = With(r, B)
  <2>1. More(With(d, B), x) = With(More(d, x), B)
    BY <1>1, MoreLast
  <2> QED
    BY <1>1, <1>3, <2>1
<1> HIDE DEF r, w
<1>5. c = class[r]
  BY DEF ItsClass, r
<1>6. SameOn(class, r, B) /\ c.ok
  BY <1>1, ClassLast
<1>7. class[With(r, B)] = With(c, B)
  BY <1>1, <1>5, <1>6 DEF SameOn
<1>8. ItsClass(w) = With(c, B)
  BY <1>4, <1>7 DEF ItsClass
<1>9. Grown(r, c)
  BY <1>1, <1>5, ClassGood
<1> HIDE DEF c
<1>10. c \in Decoders /\ c.b = d.b
  BY <1>1, <1>9 DEF Grown, After
<1> DEFINE u == With(c, B)
<1>11. u.val = c.val /\ u.objects = c.objects /\ u \in Decoders
  BY <1>10, WithFields, WithIs
<1>12. slot \in Nat
  BY BeforeGood
<1>13. Before(d) = ofClass(c, slot)
  BY DEF Before, c
<1>14. Before(w) = ofClass(u, slot)
  BY <1>2, <1>8 DEF Before
<1> HIDE DEF u, slot
<1>15. ofClass(u, slot) = With(ofClass(c, slot), B)
  <2>1. CASE c.val.ref = 0
    <3>1. ofClass(u, slot) = u /\ ofClass(c, slot) = c
      BY <1>11, <2>1 DEF ofClass
    <3> QED
      BY <3>1 DEF u
  <2>2. CASE c.val.ref # 0
    <3>1. c.objects \in Seq(Entries)
      BY <1>10, DecoderType
    <3>2. c.val.ref \in 1 .. Len(c.objects)
      BY <1>6, <1>9, <2>2, <3>1 DEF Grown
    <3> DEFINE y == Object(c.objects[c.val.ref].name)
    <3>3. ofClass(c, slot) = Changed(c, slot, y) /\ Fits(c.objects, slot, y)
      BY <1>10, <1>12, <3>2, OfClassIs
    <3>4. u.val.ref \in 1 .. Len(u.objects)
      BY <1>11, <3>2
    <3>5. ofClass(u, slot) = Changed(u, slot, Object(u.objects[u.val.ref].name))
      BY <1>11, <1>12, <3>4, OfClassIs
    <3>6. ofClass(u, slot) = Changed(u, slot, y)
      BY <1>11, <3>5
    <3> HIDE DEF y
    <3>7. Changed(With(c, B), slot, y) = With(Changed(c, slot, y), B)
      <4>1. c \in Decoders /\ PrefixOf(c.b, B) /\ slot \in Nat
        BY <1>10, <1>12
      <4> QED
        BY <3>3, <4>1, ChangedLast
    <3> QED
      BY <3>3, <3>6, <3>7 DEF u
  <2> QED
    BY <2>1, <2>2
<1> QED
  BY <1>8, <1>13, <1>14, <1>15 DEF c, w, u

LEMMA NewLast ==
  \A d \in Decoders : \A B : SameOn(newObject, d, B)
<1> DEFINE W == {d \in Decoders : \A B : SameOn(newObject, d, B)}
<1>1. ASSUME NEW d \in Decoders, \A e \in Decoders : Left(e) < Left(d) => e \in W,
             NEW B \in Seq(Nat), PrefixOf(d.b, B), newObject[d].ok
      PROVE  newObject[With(d, B)] = With(newObject[d], B)
  <2> DEFINE w == With(d, B)
             c == ItsClass(d)
             b == Before(d)
             slot == Len(d.objects) + 1
             y == objectContents(b, slot, newObject)
  <2>1. w \in Decoders /\ w.objects = d.objects
    BY <1>1, WithIs, WithFields
  <2>2. newObject[d] = IF c.ok THEN y ELSE c
    BY NewIs, NewByIs
  <2>3. newObject[w] = IF ItsClass(w).ok THEN objectContents(Before(w), slot, newObject) ELSE ItsClass(w)
    <3> HIDE DEF w
    <3> QED
      BY <2>1, NewIs, NewByIs
  <2>4. c.ok /\ y.ok
    <3> HIDE DEF c, y
    <3>1. CASE ~c.ok
      BY <1>1, <2>2, <3>1
    <3>2. CASE c.ok
      BY <1>1, <2>2, <3>2
    <3> QED
      BY <3>1, <3>2
  <2>5. ItsClass(w) = With(c, B) /\ Before(w) = With(b, B)
    BY <1>1, <2>4, BeforeLast
  <2>6. c \in Decoders /\ c.b = d.b /\ b \in Decoders /\ b.b = d.b /\ Left(b) < Left(d) /\ slot \in Nat
    BY <2>4, BeforeGood DEF Reading, After
  <2> HIDE DEF c, b, w, slot
  <2>7. ItsClass(w).ok
    BY <1>1, <2>4, <2>5, <2>6, WithFields
  <2>8. /\ \A e \in Decoders : Left(e) < Left(b) => newObject[e] \in Decoders
        /\ \A e \in Decoders : Left(e) < Left(b) => Reading(e, newObject[e])
    BY NewIs, NewGood
  <2>9. \A e \in Decoders : Left(e) < Left(b) => SameOn(newObject, e, B)
    <3>1. \A e \in Decoders : Left(e) < Left(b) => Left(e) < Left(d)
      BY <2>6, DecoderType
    <3> QED
      BY <1>1, <3>1
  <2>10. objectContents(With(b, B), slot, newObject) = With(y, B)
    BY <1>1, <2>4, <2>6, <2>8, <2>9, ContentsLast
  <2> QED
    BY <2>2, <2>3, <2>4, <2>5, <2>7, <2>10 DEF w
<1>2. Reached(W)
  <2>1. ASSUME NEW d \in Decoders, \A e \in Decoders : Left(e) < Left(d) => e \in W
        PROVE  d \in W
    <3>1. \A B \in Seq(Nat) : PrefixOf(d.b, B) /\ newObject[d].ok => newObject[With(d, B)] = With(newObject[d], B)
      BY <1>1, <2>1
    <3>2. \A B : SameOn(newObject, d, B)
      BY <3>1 DEF SameOn
    <3> QED
      BY <3>2
  <2> HIDE DEF W
  <2> QED
    BY <2>1 DEF Reached
<1> HIDE DEF W
<1>3. \A d \in Decoders : d \in W
  BY <1>2, FurtherOn
<1> QED
  BY <1>3 DEF W

(* ------------------------------ DecodeText ----------------------------- *)

Signed4(b) == Len(b) >= 3 /\ b[1] = 4 /\ b[2] = 1 /\ b[3] = Signature

LEMMA StartIs ==
  ASSUME NEW data \in Seq(Nat)
  PROVE  /\ Decoder(data) \in Decoders /\ Decoder(data).b = data /\ Decoder(data).pos = 0
         /\ Decoder(data).ok /\ Decoder(data).strings = <<>> /\ Decoder(data).objects = <<>>
         /\ \A B : With(Decoder(data), B) = Decoder(B)
<1>1. Nothing \in Values /\ <<>> \in Seq(Nat) /\ <<>> \in Seq(Seq(Nat)) /\ <<>> \in Seq(Entries)
      /\ Len(data) \in Nat /\ 0 <= Len(data)
  BY ValuesType
<1>2. Decoder(data) \in Decoders
  BY <1>1 DEF Decoder, Decoders
<1> DEFINE true == TRUE
<1>3. Decoder(data) = Make(data, 0, <<>>, <<>>, true, 0, Nothing)
  BY Zenon DEF Decoder, Make
<1>4. \A B : With(Decoder(data), B) = Decoder(B)
  <2> SUFFICES ASSUME NEW B PROVE With(Decoder(data), B) = Decoder(B)
    OBVIOUS
  <2>1. Decoder(B) = Make(B, 0, <<>>, <<>>, true, 0, Nothing)
    BY Zenon DEF Decoder, Make
  <2> HIDE DEF true
  <2>2. With(Decoder(data), B) = Make(B, 0, <<>>, <<>>, true, 0, Nothing)
    <3> DEFINE m == Make(data, 0, <<>>, <<>>, true, 0, Nothing)
    <3>1. With(Decoder(data), B) = [m EXCEPT !.b = B]
      BY <1>3 DEF With
    <3>2. [m EXCEPT !.b = B] = Make(B, 0, <<>>, <<>>, true, 0, Nothing)
      BY DEF Make
    <3> QED
      BY <3>1, <3>2
  <2> QED
    BY <2>1, <2>2
<1>5. /\ Decoder(data).b = data /\ Decoder(data).pos = 0
      /\ Decoder(data).ok /\ Decoder(data).strings = <<>> /\ Decoder(data).objects = <<>>
  BY DEF Decoder
<1> QED
  BY <1>2, <1>4, <1>5

LEMMA HeaderIs ==
  ASSUME NEW data \in Seq(Nat)
  PROVE  /\ Signed4(data) => header(Decoder(data)) = readInt(Skip(Decoder(data), 3))
         /\ ~Signed4(data) => header(Decoder(data)) = Fail(Decoder(data))
<1> DEFINE d == Decoder(data)
<1>1. d.b = data /\ d.pos = 0
  BY StartIs
<1>2. [d EXCEPT !.pos = 3] = Skip(d, 3)
  <2>1. d.pos + 3 = 3
    BY <1>1
  <2> HIDE DEF d
  <2> QED
    BY <2>1 DEF Skip
<1>3. Len(data) \in Nat
  OBVIOUS
<1> HIDE DEF d
<1>4. header(d) = IF Len(data) < 2 THEN Fail(d)
                  ELSE IF data[2] # 1 \/ Len(data) < 3 THEN Fail(d)
                  ELSE IF data[3] # Signature \/ data[1] # 4 THEN Fail(d)
                  ELSE readInt(Skip(d, 3))
  BY <1>1, <1>2, Zenon DEF header
<1>5. Signed4(data) => header(d) = readInt(Skip(d, 3))
  BY <1>3, <1>4 DEF Signed4
<1>6. ~Signed4(data) => header(d) = Fail(d)
  BY <1>3, <1>4 DEF Signed4
<1> QED
  BY <1>5, <1>6 DEF d

LEMMA HeaderGood ==
  ASSUME NEW data \in Seq(Nat), Signed4(data)
  PROVE  /\ Skip(Decoder(data), 3) \in Decoders /\ Skip(Decoder(data), 3).pos = 3
         /\ Skip(Decoder(data), 3).b = data /\ Skip(Decoder(data), 3).ok
         /\ Skip(Decoder(data), 3).strings = <<>> /\ Skip(Decoder(data), 3).objects = <<>>
         /\ header(Decoder(data)) \in Decoders /\ header(Decoder(data)).b = data
         /\ header(Decoder(data)).strings = <<>> /\ header(Decoder(data)).objects = <<>>
<1> DEFINE d == Decoder(data)
           m == Skip(d, 3)
           r == readInt(m)
<1>1. d \in Decoders /\ d.b = data /\ d.pos = 0 /\ d.ok /\ d.strings = <<>> /\ d.objects = <<>>
  BY StartIs
<1>2. Left(d) = Len(data) /\ Len(data) \in Nat /\ 3 <= Len(data)
  <2>1. Len(data) \in Nat
    OBVIOUS
  <2> HIDE DEF d
  <2> QED
    BY <1>1, <2>1 DEF Left, Signed4
<1> HIDE DEF d
<1> DEFINE three == 3
<1>3. three \in Nat /\ three <= Left(d)
  BY <1>2
<1> HIDE DEF three
<1> DEFINE s == Skip(d, three)
<1>4. /\ s \in Decoders /\ s.b = d.b /\ s.pos = d.pos + three
      /\ s.strings = d.strings /\ s.objects = d.objects
      /\ s.ok = d.ok
  BY <1>1, <1>3, SkipType
<1>9. s = m
  BY Zenon DEF three
<1>10. d.pos + three = 3
  BY <1>1 DEF three
<1> HIDE DEF s, m
<1>5. m \in Decoders /\ m.b = data /\ m.pos = 3 /\ m.strings = <<>> /\ m.objects = <<>> /\ m.ok = d.ok
  BY <1>1, <1>4, <1>9, <1>10
<1> HIDE DEF m
<1>6. header(d) = r
  BY HeaderIs DEF d, m
<1>7. r \in Decoders /\ r.b = m.b /\ r.strings = m.strings /\ r.objects = m.objects
  BY <1>5, ReadIntAfter DEF After
<1> HIDE DEF r
<1>8. m.ok
  BY <1>1, <1>5
<1> QED
  BY <1>5, <1>6, <1>7, <1>8 DEF d, m

LEMMA HeaderLast ==
  ASSUME NEW data \in Seq(Nat), NEW B \in Seq(Nat), PrefixOf(data, B), header(Decoder(data)).ok
  PROVE  /\ Signed4(data) /\ header(Decoder(B)) = With(header(Decoder(data)), B)
<1> DEFINE d == Decoder(data)
           m == Skip(d, 3)
<1>1. d \in Decoders /\ d.b = data /\ With(d, B) = Decoder(B)
  BY StartIs
<1>2. Signed4(data)
  <2>1. CASE ~Signed4(data)
    <3>1. header(d) = Fail(d)
      BY <2>1, HeaderIs
    <3> QED
      BY <1>1, <3>1, FailAfter
  <2> QED
    BY <2>1
<1>3. Signed4(B)
  <2>1. Len(data) \in Nat /\ Len(B) \in Nat /\ Len(data) >= 3 /\ Len(data) <= Len(B)
    BY <1>2 DEF Signed4, PrefixOf
  <2>2. B[1] = data[1] /\ B[2] = data[2] /\ B[3] = data[3]
    <3>1. \A i \in 1 .. Len(data) : B[i] = data[i]
      BY Zenon DEF PrefixOf
    <3> DEFINE n == Len(data)
    <3>2. n \in Nat /\ n >= 3
      BY <2>1
    <3> HIDE DEF n, d, m
    <3>3. 1 \in 1 .. n /\ 2 \in 1 .. n /\ 3 \in 1 .. n
      BY <3>2, SMT
    <3> QED
      BY <3>1, <3>3, Zenon DEF n
  <2> QED
    BY <1>2, <2>1, <2>2 DEF Signed4
<1>4. m \in Decoders /\ m.b = data
  BY <1>2, HeaderGood
<1>5. header(d) = readInt(m) /\ header(Decoder(B)) = readInt(Skip(Decoder(B), 3))
  BY <1>2, <1>3, HeaderIs
<1>6. Skip(Decoder(B), 3) = With(m, B)
  BY <1>1 DEF With, Skip, Decoder
<1> HIDE DEF d, m
<1>7. readInt(m).ok
  BY <1>5 DEF d
<1>8. readInt(With(m, B)) = With(readInt(m), B)
  BY <1>4, <1>7, ReadIntLast
<1> QED
  BY <1>2, <1>5, <1>6, <1>8 DEF d

(* Whatever bytes an archive is made of, a text DecodeText decodes from the   *)
(* beginning of it is the text it decodes from the whole: it never takes a   *)
(* cut value for a shorter one.                                             *)
THEOREM DecodeLast ==
  ASSUME NEW data \in Seq(Nat), NEW B \in Seq(Nat), PrefixOf(data, B), ~DecodeText(data).err
  PROVE  DecodeText(B) = DecodeText(data)
<1> DEFINE h == header(Decoder(data))
           v == typedValue(h, newObject)
           h2 == header(Decoder(B))
           v2 == typedValue(h2, newObject)
           r == IF h.ok THEN v ELSE h
           r2 == IF h2.ok THEN v2 ELSE h2
<1>1. DecodeText(data) = TextOf(r) /\ DecodeText(B) = TextOf(r2)
  BY DEF DecodeText, Then
<1> HIDE DEF h, v, h2, v2
<1>2. r.ok /\ HasString(r)
  <2> HIDE DEF r, r2
  <2> QED
    BY <1>1 DEF TextOf
<1>3. h.ok /\ v.ok /\ r = v
  <2>1. CASE ~h.ok
    BY <1>2, <2>1
  <2>2. CASE h.ok
    BY <1>2, <2>2
  <2> QED
    BY <2>1, <2>2
<1>4. h2 = With(h, B) /\ Signed4(data)
  BY <1>3, HeaderLast DEF h, h2
<1>5. h \in Decoders /\ h.b = data
  BY <1>4, HeaderGood DEF h
<1>6. h2.ok
  BY <1>3, <1>4, <1>5, WithFields
<1>7. v2 = With(v, B)
  <2>1. \A e \in Decoders : Left(e) < Left(h) => SameOn(newObject, e, B)
    BY NewLast
  <2>2. typedValue(h, newObject).ok /\ PrefixOf(h.b, B)
    BY <1>3, <1>5 DEF v
  <2>3. typedValue(With(h, B), newObject) = With(typedValue(h, newObject), B)
    BY <1>5, <2>1, <2>2, TypedValueLast
  <2> QED
    BY <1>4, <2>3 DEF v, v2
<1>8. v \in Decoders /\ v.b = data
  <2>1. \A e \in Decoders : Left(e) < Left(h) => newObject[e] \in Decoders /\ Reading(e, newObject[e])
    BY NewIs, NewGood
  <2>2. v \in Decoders /\ Reading(h, v)
    BY <1>5, <2>1, TypedValueGood DEF v
  <2> QED
    BY <1>5, <2>2 DEF Reading, After
<1>9. v2.ok /\ v2.val = v.val /\ v2.objects = v.objects
  BY <1>3, <1>7, <1>8, WithFields
<1>10. TextOf(v2) = TextOf(v)
  BY <1>3, <1>9 DEF TextOf, HasString
<1> QED
  BY <1>1, <1>3, <1>6, <1>10

(***************************************************************************)
(* Reading what was written                                                *)
(***************************************************************************)

(* The bytes s lie ahead of the decoder.                                   *)
ByteAt(d, i) == d.b[d.pos + i]
Ahead(d, s) == d.pos + Len(s) <= Len(d.b) /\ \A i \in 1 .. Len(s) : ByteAt(d, i) = s[i]

(* s is read as the integer v.                                             *)
Spelled(s, v) ==
  /\ s \in Seq(Nat) /\ Len(s) > 0
  /\ \A d \in Decoders : Ahead(d, s) =>
       /\ Left(d) > 0 /\ Peek(d) = s[1]
       /\ readInt(d) = Make(d.b, d.pos + Len(s), d.strings, d.objects, d.ok, v, d.val)

LEMMA AheadFirst ==
  ASSUME NEW d \in Decoders, NEW s \in Seq(Nat), Len(s) > 0, Ahead(d, s)
  PROVE  Left(d) >= Len(s) /\ Left(d) > 0 /\ Peek(d) = s[1]
<1>1. /\ d.pos \in Nat /\ Len(d.b) \in Nat /\ d.b \in Seq(Nat)
  BY DecoderType
<1>2. Left(d) >= Len(s)
  BY <1>1 DEF Ahead, Left
<1>3. 1 \in 1 .. Len(s)
  OBVIOUS
<1>4. ByteAt(d, 1) = s[1]
  BY <1>3 DEF Ahead
<1> QED
  BY <1>1, <1>2, <1>4 DEF ByteAt, Peek, Left

LEMMA ByteSpelled ==
  ASSUME NEW c \in Nat, c <= 255, c \notin {tagInt16, tagInt32}, NEW v, v = int8(c)
  PROVE  Spelled(<<c>>, v)
<1> DEFINE s == <<c>>
<1>1. s \in Seq(Nat) /\ Len(s) = 1 /\ s[1] = c
  OBVIOUS
<1> HIDE DEF s
<1>2. ASSUME NEW d \in Decoders, Ahead(d, s)
      PROVE  /\ Left(d) > 0 /\ Peek(d) = s[1]
             /\ readInt(d) = Make(d.b, d.pos + Len(s), d.strings, d.objects, d.ok, v, d.val)
  <2>0. Left(d) >= Len(s) /\ Left(d) > 0 /\ Peek(d) = s[1]
    <3>1. s \in Seq(Nat) /\ Len(s) > 0
      BY <1>1
    <3> QED
      BY <3>1, <1>2, AheadFirst
  <2>1. Left(d) >= 1 /\ Left(d) > 0 /\ Peek(d) = c
    BY <1>1, <2>0
  <2>2. Width(d) = 1 /\ IntAt(d) = v
    BY <2>1 DEF Width, IntAt, tagInt16, tagInt32
  <2>3. ~(Left(d) < Width(d))
    BY <2>1, <2>2, DecoderType
  <2>4. readInt(d) = Make(d.b, d.pos + Width(d), d.strings, d.objects, d.ok, IntAt(d), d.val)
    BY <2>3, ReadIntIs
  <2> QED
    BY <1>1, <2>1, <2>2, <2>4
<1> QED
  BY <1>1, <1>2 DEF Spelled, s

LEMMA SmallSpelled ==
  ASSUME NEW v \in Nat, v <= 127
  PROVE  Spelled(<<v>>, v)
<1>1. int8(v) = v
  BY DEF int8, Signed
<1>2. v <= 255 /\ v \notin {tagInt16, tagInt32}
  BY DEF tagInt16, tagInt32
<1> QED
  BY <1>1, <1>2, ByteSpelled

LEMMA TagSpelled ==
  ASSUME NEW i \in Nat, 1 <= i, i <= 110, NEW c, c = refBase + i - 1, NEW v, v = i - 1 - refOffset
  PROVE  c \in Nat /\ 146 <= c /\ c <= 255 /\ Spelled(<<c>>, v)
<1>1. c \in Nat /\ 146 <= c /\ c <= 255
  BY DEF refBase
<1>2. int8(c) = v
  BY DEF int8, Signed, refBase, refOffset
<1>3. c \in Nat /\ c <= 255 /\ c \notin {tagInt16, tagInt32}
  BY <1>1 DEF tagInt16, tagInt32
<1> QED
  BY <1>1, <1>2, <1>3, ByteSpelled

LEMMA BytesOf ==
  ASSUME NEW v \in Nat
  PROVE  /\ byte(v, 1) \in 0 .. 255 /\ byte(v, 256) \in 0 .. 255
         /\ byte(v, 65536) \in 0 .. 255 /\ byte(v, 256 * 65536) \in 0 .. 255
         /\ v < 65536 => v = byte(v, 1) + 256 * byte(v, 256)
         /\ v <= 2147483647 => /\ byte(v, 256 * 65536) < 128
                              /\ v = byte(v, 1) + 256 * (byte(v, 256) + 256 * (byte(v, 65536) + 256 * byte(v, 256 * 65536)))
<1>0. 256 * 65536 = 16777216
  OBVIOUS
<1>1. /\ byte(v, 1) = v % 256 /\ byte(v, 256) = (v \div 256) % 256
      /\ byte(v, 65536) = (v \div 65536) % 256 /\ byte(v, 256 * 65536) = (v \div 16777216) % 256
  BY <1>0 DEF byte
<1>2. v \div 256 \in Nat /\ v \div 65536 \in Nat /\ v \div 16777216 \in Nat
  OBVIOUS
<1>3. \A x \in Nat : x % 256 \in 0 .. 255 /\ x \div 256 \in Nat /\ x = (x % 256) + 256 * (x \div 256)
  OBVIOUS
<1>4. v \div 65536 = (v \div 256) \div 256 /\ v \div 16777216 = (v \div 65536) \div 256
  OBVIOUS
<1>5. v < 65536 => v \div 256 \in 0 .. 255
  OBVIOUS
<1>6. v <= 2147483647 => v \div 16777216 \in 0 .. 127
  OBVIOUS
<1>7. \A x \in 0 .. 255 : x % 256 = x
  OBVIOUS
<1>8. v < 65536 => v = byte(v, 1) + 256 * byte(v, 256)
  <2> SUFFICES ASSUME v < 65536 PROVE v = byte(v, 1) + 256 * byte(v, 256)
    OBVIOUS
  <2>1. v \div 256 \in 0 .. 255
    BY <1>5
  <2>2. byte(v, 256) = v \div 256
    BY <1>1, <1>7, <2>1
  <2>3. v = (v % 256) + 256 * (v \div 256)
    BY <1>3
  <2> QED
    BY <1>1, <2>2, <2>3
<1>9. /\ v = byte(v, 1) + 256 * (v \div 256)
      /\ v \div 256 = byte(v, 256) + 256 * (v \div 65536)
      /\ v \div 65536 = byte(v, 65536) + 256 * (v \div 16777216)
  BY <1>1, <1>2, <1>3, <1>4
<1>10. v <= 2147483647 => v \div 16777216 = byte(v, 256 * 65536) /\ byte(v, 256 * 65536) < 128
  <2> SUFFICES ASSUME v <= 2147483647 PROVE v \div 16777216 = byte(v, 256 * 65536) /\ byte(v, 256 * 65536) < 128
    OBVIOUS
  <2>1. v \div 16777216 \in 0 .. 127
    BY <1>6
  <2>2. byte(v, 256 * 65536) = v \div 16777216
    BY <1>1, <1>7, <2>1
  <2> QED
    BY <2>1, <2>2
<1>11. v <= 2147483647 =>
         v = byte(v, 1) + 256 * (byte(v, 256) + 256 * (byte(v, 65536) + 256 * byte(v, 256 * 65536)))
  <2> SUFFICES ASSUME v <= 2147483647
               PROVE  v = byte(v, 1) + 256 * (byte(v, 256) + 256 * (byte(v, 65536) + 256 * byte(v, 256 * 65536)))
    OBVIOUS
  <2> DEFINE top == byte(v, 256 * 65536)
  <2>1. v \div 16777216 = top
    BY <1>10
  <2> HIDE DEF top
  <2>2. v = byte(v, 1) + 256 * (byte(v, 256) + 256 * (byte(v, 65536) + 256 * top))
    BY <1>9, <2>1
  <2> QED
    BY <2>2 DEF top
<1>12. byte(v, 1) \in 0 .. 255 /\ byte(v, 256) \in 0 .. 255
  BY <1>1, <1>2, <1>3
<1>13. byte(v, 65536) \in 0 .. 255 /\ byte(v, 256 * 65536) \in 0 .. 255
  BY <1>1, <1>2, <1>3
<1> QED
  BY <1>8, <1>10, <1>11, <1>12, <1>13

ShortBytes(v) == <<tagInt16, byte(v, 1), byte(v, 256)>>
LongBytes(v) == <<tagInt32, byte(v, 1), byte(v, 256), byte(v, 65536), byte(v, 256 * 65536)>>

LEMMA ShortSpelled ==
  ASSUME NEW v \in Nat, v <= 32767
  PROVE  Spelled(ShortBytes(v), v)
<1> DEFINE p == byte(v, 1)
           q == byte(v, 256)
           s == <<tagInt16, p, q>>
<1>1. p \in 0 .. 255 /\ q \in 0 .. 255 /\ v = p + 256 * q
  <2>1. v \in Nat /\ v < 65536
    OBVIOUS
  <2> QED
    BY <2>1, BytesOf
<1> HIDE DEF p, q
<1>2. s \in Seq(Nat) /\ Len(s) = 3 /\ s[1] = tagInt16 /\ s[2] = p /\ s[3] = q
  BY <1>1 DEF tagInt16
<1> HIDE DEF s
<1>3. ASSUME NEW d \in Decoders, Ahead(d, s)
      PROVE  /\ Left(d) > 0 /\ Peek(d) = s[1]
             /\ readInt(d) = Make(d.b, d.pos + Len(s), d.strings, d.objects, d.ok, v, d.val)
  <2>0. s \in Seq(Nat) /\ Len(s) > 0
    BY <1>2
  <2>1. Left(d) >= Len(s) /\ Left(d) > 0 /\ Peek(d) = s[1]
    BY <2>0, <1>3, AheadFirst
  <2>2. ByteAt(d, 2) = s[2] /\ ByteAt(d, 3) = s[3]
    <3>1. 2 \in 1 .. Len(s) /\ 3 \in 1 .. Len(s)
      BY <1>2
    <3> QED
      BY <3>1, <1>3 DEF Ahead
  <2>3. Width(d) = 3
    BY <1>2, <2>1 DEF Width
  <2>4. IntAt(d) = Signed(p + 256 * q, 65536)
    BY <1>2, <2>1, <2>2 DEF IntAt, ByteAt
  <2>5. Signed(v, 65536) = v
    BY DEF Signed
  <2>6. ~(Left(d) < Width(d))
    BY <1>2, <2>1, <2>3, DecoderType
  <2>7. readInt(d) = Make(d.b, d.pos + Width(d), d.strings, d.objects, d.ok, IntAt(d), d.val)
    BY <2>6, ReadIntIs
  <2> QED
    BY <1>1, <1>2, <2>1, <2>3, <2>4, <2>5, <2>7
<1> QED
  BY <1>2, <1>3 DEF Spelled, ShortBytes, s, p, q

LEMMA LongSpelled ==
  ASSUME NEW v \in Nat, v <= 2147483647
  PROVE  Spelled(LongBytes(v), v)
<1> DEFINE p == byte(v, 1)
           q == byte(v, 256)
           t == byte(v, 65536)
           u == byte(v, 256 * 65536)
           s == <<tagInt32, p, q, t, u>>
<1>1. /\ p \in 0 .. 255 /\ q \in 0 .. 255 /\ t \in 0 .. 255 /\ u \in 0 .. 127
      /\ v = p + 256 * (q + 256 * (t + 256 * u))
  <2>1. v \in Nat /\ v <= 2147483647
    OBVIOUS
  <2>2. p \in 0 .. 255 /\ q \in 0 .. 255 /\ t \in 0 .. 255 /\ u \in 0 .. 255
    BY <2>1, BytesOf
  <2>3. u < 128 /\ v = p + 256 * (q + 256 * (t + 256 * u))
    BY <2>1, BytesOf
  <2> HIDE DEF p, q, t, u
  <2> QED
    BY <2>2, <2>3
<1> HIDE DEF p, q, t, u
<1>2. s \in Seq(Nat) /\ Len(s) = 5 /\ s[1] = tagInt32 /\ s[2] = p /\ s[3] = q /\ s[4] = t /\ s[5] = u
  BY <1>1 DEF tagInt32
<1> HIDE DEF s
<1>3. ASSUME NEW d \in Decoders, Ahead(d, s)
      PROVE  /\ Left(d) > 0 /\ Peek(d) = s[1]
             /\ readInt(d) = Make(d.b, d.pos + Len(s), d.strings, d.objects, d.ok, v, d.val)
  <2>0. s \in Seq(Nat) /\ Len(s) > 0
    BY <1>2
  <2>1. Left(d) >= Len(s) /\ Left(d) > 0 /\ Peek(d) = s[1]
    BY <2>0, <1>3, AheadFirst
  <2>2. ByteAt(d, 2) = p /\ ByteAt(d, 3) = q /\ ByteAt(d, 4) = t /\ ByteAt(d, 5) = u
    <3>1. 2 \in 1 .. Len(s) /\ 3 \in 1 .. Len(s) /\ 4 \in 1 .. Len(s) /\ 5 \in 1 .. Len(s)
      BY <1>2
    <3>2. ByteAt(d, 2) = s[2] /\ ByteAt(d, 3) = s[3] /\ ByteAt(d, 4) = s[4] /\ ByteAt(d, 5) = s[5]
      BY <3>1, <1>3 DEF Ahead
    <3> QED
      BY <1>2, <3>2
  <2>3. Width(d) = 5
    BY <1>2, <2>1 DEF Width, tagInt16, tagInt32
  <2>4. IntAt(d) = p + 256 * (q + 256 * (t + 256 * Signed(u, 256)))
    <3>1. Peek(d) = tagInt32 /\ Peek(d) # tagInt16
      BY <1>2, <2>1 DEF tagInt16, tagInt32
    <3>2. IntAt(d) = d.b[d.pos + 2] + 256 * (d.b[d.pos + 3] + 256 * (d.b[d.pos + 4] + 256 * Signed(d.b[d.pos + 5], 256)))
      BY <3>1 DEF IntAt
    <3> QED
      BY <2>2, <3>2 DEF ByteAt
  <2>5. Signed(u, 256) = u
    BY <1>1 DEF Signed
  <2>6. ~(Left(d) < Width(d))
    BY <1>2, <2>1, <2>3, DecoderType
  <2>7. readInt(d) = Make(d.b, d.pos + Width(d), d.strings, d.objects, d.ok, IntAt(d), d.val)
    BY <2>6, ReadIntIs
  <2>8. IntAt(d) = v
    BY <1>1, <2>4, <2>5
  <2> QED
    BY <1>2, <2>1, <2>3, <2>8, <2>7
<1> QED
  BY <1>2, <1>3 DEF Spelled, LongBytes, s, p, q, t, u

LEMMA IntSpelled ==
  ASSUME NEW v \in Nat, v <= 2147483647
  PROVE  Spelled(appendInt(v), v)
<1>1. CASE v <= 127
  <2>1. appendInt(v) = <<v>>
    BY <1>1, SMT DEF appendInt
  <2>2. Spelled(<<v>>, v)
    BY <1>1, SmallSpelled
  <2> QED
    BY <2>1, <2>2
<1>2. CASE ~(v <= 127) /\ v <= 32767
  <2>1. -32768 <= v
    OBVIOUS
  <2> QED
    <3>1. appendInt(v) = ShortBytes(v)
      BY <1>2, <2>1, SMT DEF appendInt, ShortBytes
    <3>2. Spelled(ShortBytes(v), v)
      BY <1>2, ShortSpelled
    <3> QED
      BY <3>1, <3>2
<1>3. CASE ~(v <= 127) /\ ~(v <= 32767)
  <2>1. appendInt(v) = LongBytes(v)
    BY <1>3, SMT DEF appendInt, LongBytes
  <2>2. Spelled(LongBytes(v), v)
    BY LongSpelled, SMT
  <2> QED
    BY <2>1, <2>2
<1> QED
  BY <1>1, <1>2, <1>3

(* The number of a table's first x, and how many a writer can spell.         *)
Place(table, x) == SelectInSeq(table, LAMBDA y : y = x)
Room(wide) == refOffset + (IF wide THEN 32768 ELSE 128)

LEMMA PlaceFirst ==
  ASSUME NEW table \in Seq(Nat), NEW x, Contains(table, x)
  PROVE  /\ Place(table, x) \in 1 .. Len(table) /\ table[Place(table, x)] = x
         /\ \A j \in 1 .. Len(table) : table[j] = x => Place(table, x) <= j
<1> DEFINE I == { i \in 1 .. Len(table) : table[i] = x }
<1>1. Place(table, x) = IF I # {} THEN Min(I) ELSE 0
  BY Zenon DEF Place, SelectInSeq
<1>2. I \in SUBSET Nat /\ I # {}
  BY DEF Contains
<1>3. \E m \in I : \A i \in I : m <= i
  BY <1>2, LeastNatural
<1>4. Min(I) \in I /\ \A i \in I : Min(I) <= i
  BY <1>3 DEF Min
<1> QED
  BY <1>1, <1>2, <1>4

LEMMA NumberIs ==
  ASSUME NEW w, NEW table, NEW x, NEW i, i = Place(table, x), NEW beyond, beyond = i - 1 - refOffset
  PROVE  Number(w, table, x) = IF i <= refOffset THEN <<refBase + i - 1>>
                               ELSE IF w.wide THEN ShortBytes(beyond) ELSE <<beyond>>
BY Zenon DEF Number, Place, ShortBytes

LEMMA NumberSpelled ==
  ASSUME NEW w, NEW table \in Seq(Nat), NEW x, Contains(table, x), Len(table) <= Room(w.wide)
  PROVE  /\ Spelled(Number(w, table, x), Place(table, x) - 1 - refOffset)
         /\ Number(w, table, x)[1] \notin {tagNew, tagNil}
         /\ Place(table, x) = 1 => Number(w, table, x) = <<refBase>>
<1>1. PICK i : i = Place(table, x)
  OBVIOUS
<1>2. PICK beyond : beyond = i - 1 - refOffset
  OBVIOUS
<1>3. i \in Nat /\ 1 <= i /\ i <= Room(w.wide)
  <2>1. i \in 1 .. Len(table) /\ Len(table) \in Nat
    BY <1>1, PlaceFirst
  <2>2. Room(w.wide) \in Nat
    BY DEF Room, refOffset, refBase
  <2> QED
    BY <2>1, <2>2
<1>4. Number(w, table, x) = IF i <= refOffset THEN <<refBase + i - 1>>
                            ELSE IF w.wide THEN ShortBytes(beyond) ELSE <<beyond>>
  BY <1>1, <1>2, NumberIs
<1>5. CASE i <= refOffset
  <2>1. PICK c : c = refBase + i - 1
    OBVIOUS
  <2>2. i <= 110
    BY <1>5 DEF refOffset, refBase
  <2>3. c \in Nat /\ 146 <= c /\ c <= 255 /\ Spelled(<<c>>, beyond)
    BY <1>2, <1>3, <2>1, <2>2, TagSpelled
  <2>4. Number(w, table, x) = <<c>>
    BY <1>4, <1>5, <2>1
  <2>5. i = 1 => c = refBase
    BY <2>1 DEF refBase
  <2>6. <<c>>[1] = c /\ c \notin {tagNew, tagNil}
    BY <2>3 DEF tagNew, tagNil
  <2> QED
    BY <1>1, <1>2, <2>3, <2>4, <2>5, <2>6
<1>6. CASE ~(i <= refOffset) /\ w.wide
  <2>1. beyond \in Nat /\ beyond <= 32767
    BY <1>2, <1>3, <1>6 DEF Room, refOffset, refBase
  <2>2. Number(w, table, x) = ShortBytes(beyond)
    BY <1>4, <1>6
  <2>3. Spelled(ShortBytes(beyond), beyond)
    BY <2>1, ShortSpelled
  <2>4. ShortBytes(beyond)[1] = tagInt16 /\ tagInt16 \notin {tagNew, tagNil}
    BY DEF ShortBytes, tagInt16, tagNew, tagNil
  <2>5. i # 1
    BY <1>6 DEF refOffset, refBase
  <2> QED
    BY <1>1, <1>2, <2>2, <2>3, <2>4, <2>5
<1>7. CASE ~(i <= refOffset) /\ ~w.wide
  <2>1. beyond \in Nat /\ beyond <= 127
    BY <1>2, <1>3, <1>7 DEF Room, refOffset, refBase
  <2>2. Number(w, table, x) = <<beyond>>
    BY <1>4, <1>7
  <2>3. Spelled(<<beyond>>, beyond)
    BY <2>1, SmallSpelled
  <2>4. <<beyond>>[1] = beyond /\ beyond \notin {tagNew, tagNil}
    BY <2>1 DEF tagNew, tagNil
  <2>5. i # 1
    BY <1>7 DEF refOffset, refBase
  <2> QED
    BY <1>1, <1>2, <2>2, <2>3, <2>4, <2>5
<1> QED
  BY <1>5, <1>6, <1>7

LEMMA RefIndexReads ==
  ASSUME NEW d \in Decoders, NEW s, NEW i \in Nat, 1 <= i, Spelled(s, i - 1 - refOffset), Ahead(d, s)
  PROVE  /\ refIndex(d).b = d.b /\ refIndex(d).pos = d.pos + Len(s) /\ refIndex(d).strings = d.strings
         /\ refIndex(d).objects = d.objects /\ refIndex(d).ok = d.ok /\ refIndex(d).int = i - 1
<1> DEFINE r == readInt(d)
<1>1. r = Make(d.b, d.pos + Len(s), d.strings, d.objects, d.ok, i - 1 - refOffset, d.val)
  BY DEF Spelled
<1>2. r \in Decoders
  BY ReadIntAfter
<1>3. refIndex(d) = [r EXCEPT !.int = r.int + refOffset]
  BY DEF refIndex
<1> HIDE DEF r
<1>4. /\ r.b = d.b /\ r.pos = d.pos + Len(s) /\ r.strings = d.strings /\ r.objects = d.objects
      /\ r.ok = d.ok /\ r.int = i - 1 - refOffset /\ r.val = d.val
  BY <1>1, MadeFields
<1>5. r.int + refOffset = i - 1
  BY <1>4 DEF refOffset, refBase
<1> DEFINE j == i - 1
           f == [r EXCEPT !.int = j]
<1>6. j \in Int
  OBVIOUS
<1>7. refIndex(d) = f
  BY <1>3, <1>5
<1> HIDE DEF j
<1>8. /\ f.int = j /\ f.b = r.b /\ f.pos = r.pos /\ f.strings = r.strings /\ f.objects = r.objects
      /\ f.ok = r.ok
  BY <1>2, <1>6, IntSet
<1> HIDE DEF f
<1>9. f.ok = d.ok
  BY <1>4, <1>8
<1>10. f.b = d.b /\ f.pos = d.pos + Len(s) /\ f.strings = d.strings /\ f.objects = d.objects
  BY <1>4, <1>8
<1> QED
  BY <1>7, <1>8, <1>9, <1>10 DEF j

LEMMA LenConcat ==
  ASSUME NEW x \in Seq(Nat), NEW y \in Seq(Nat)
  PROVE  /\ x \o y \in Seq(Nat) /\ Len(x \o y) = Len(x) + Len(y)
         /\ Len(x) \in Nat /\ Len(y) \in Nat
BY ConcatProperties

LEMMA PrefixParts ==
  ASSUME NEW x \in Seq(Nat), NEW y \in Seq(Nat), NEW z \in Seq(Nat), PrefixOf(x \o y, z)
  PROVE  PrefixOf(x, z)
<1> DEFINE u == x \o y
<1>1. /\ u \in Seq(Nat) /\ Len(u) = Len(x) + Len(y) /\ Len(x) \in Nat /\ Len(y) \in Nat
      /\ \A i \in 1 .. Len(x) : u[i] = x[i]
  BY ConcatProperties
<1>2. PrefixOf(u, z)
  OBVIOUS
<1> HIDE DEF u
<1>3. Len(z) \in Nat /\ Len(u) <= Len(z) /\ \A i \in 1 .. Len(u) : z[i] = u[i]
  BY <1>2 DEF PrefixOf
<1>4. \A i \in 1 .. Len(x) : i \in 1 .. Len(u)
  BY <1>1
<1> QED
  BY <1>1, <1>3, <1>4 DEF PrefixOf

LEMMA AheadTaken ==
  ASSUME NEW d \in Decoders, NEW x \in Seq(Nat), NEW s \in Seq(Nat), d.pos = Len(x),
         PrefixOf(x \o s, d.b)
  PROVE  Ahead(d, s)
<1> DEFINE u == x \o s
<1>1. /\ u \in Seq(Nat) /\ Len(u) = Len(x) + Len(s) /\ Len(x) \in Nat /\ Len(s) \in Nat
  BY ConcatProperties
<1>1a. \A i \in 1 .. Len(s) : u[Len(x) + i] = s[i]
  <2> SUFFICES ASSUME NEW i \in 1 .. Len(s) PROVE u[Len(x) + i] = s[i]
    OBVIOUS
  <2>1. \A j \in Len(x) + 1 .. Len(x) + Len(s) : u[j] = s[j - Len(x)]
    BY ConcatProperties
  <2>2. Len(x) + i \in Len(x) + 1 .. Len(x) + Len(s) /\ Len(x) + i - Len(x) = i
    BY <1>1
  <2> HIDE DEF u
  <2>3. u[Len(x) + i] = s[Len(x) + i - Len(x)]
    BY <2>1, <2>2
  <2> QED
    BY <2>2, <2>3
<1>2. PrefixOf(u, d.b)
  OBVIOUS
<1> HIDE DEF u
<1>3. Len(u) <= Len(d.b) /\ \A i \in 1 .. Len(u) : d.b[i] = u[i]
  BY <1>2 DEF PrefixOf
<1>4. ASSUME NEW i \in 1 .. Len(s) PROVE ByteAt(d, i) = s[i]
  <2>1. Len(x) + i \in 1 .. Len(u)
    BY <1>1
  <2>2. d.b[Len(x) + i] = u[Len(x) + i]
    BY <1>3, <2>1
  <2> QED
    BY <1>1a, <2>2 DEF ByteAt
<1> QED
  BY <1>1, <1>3, <1>4 DEF Ahead

LEMMA OneByte ==
  ASSUME NEW b \in Seq(Nat), NEW k \in 1 .. Len(b)
  PROVE  SubSeq(b, k, k) = <<b[k]>>
<1> DEFINE u == SubSeq(b, k, k)
<1>1. k \in 1 .. Len(b) + 1 /\ k \in k - 1 .. Len(b) /\ k <= k /\ k \in Nat
  OBVIOUS
<1>2. u \in Seq(Nat) /\ Len(u) = 1 /\ u[1] = b[k]
  BY <1>1, SubSeqProperties
<1> HIDE DEF u
<1>3. u = <<u[1]>>
  BY <1>2
<1> QED
  BY <1>2, <1>3 DEF u

(* A one-symbol string as it is written the first time.                     *)
NewString(name) == <<tagNew, 1, name>>

LEMMA NewStringRead ==
  ASSUME NEW d \in Decoders, NEW name \in Nat, Ahead(d, NewString(name))
  PROVE  /\ Left(d) > 0 /\ Peek(d) = tagNew
         /\ sharedString(d) = Make(d.b, d.pos + 3, Append(d.strings, <<name>>), d.objects, d.ok, 1, Str(<<name>>)) \/ ~d.ok
<1> DEFINE s == NewString(name)
           t == <<1>>
           e == Skip(d, 1)
           n == readInt(e)
<1>1. s \in Seq(Nat) /\ Len(s) = 3 /\ s[1] = tagNew /\ s[2] = 1 /\ s[3] = name
  BY DEF NewString, tagNew
<1>1a. Ahead(d, s)
  OBVIOUS
<1> HIDE DEF s
<1>2. Left(d) >= 3 /\ Left(d) > 0 /\ Peek(d) = tagNew
  <2>1. s \in Seq(Nat) /\ Len(s) > 0
    BY <1>1
  <2>2. Left(d) >= Len(s) /\ Left(d) > 0 /\ Peek(d) = s[1]
    BY <2>1, <1>1a, AheadFirst
  <2> QED
    BY <1>1, <2>2
<1>3. ByteAt(d, 2) = 1 /\ ByteAt(d, 3) = name
  <2>1. 2 \in 1 .. Len(s) /\ 3 \in 1 .. Len(s)
    BY <1>1
  <2>2. ByteAt(d, 2) = s[2] /\ ByteAt(d, 3) = s[3]
    BY <1>1a, <2>1 DEF Ahead
  <2> QED
    BY <1>1, <2>2
<1>4. d.b \in Seq(Nat) /\ d.pos \in Nat /\ Len(d.b) \in Nat /\ Left(d) = Len(d.b) - d.pos
  BY DecoderType DEF Left
<1>5. /\ e \in Decoders /\ e.b = d.b /\ e.pos = d.pos + 1 /\ e.strings = d.strings
      /\ e.objects = d.objects /\ e.val = d.val
  BY <1>2, <1>4, SkipType
<1>5a. e.ok = d.ok
  BY <1>2, <1>4, SkipType
<1>6. t \in Seq(Nat) /\ Len(t) = 1 /\ t[1] = 1
  OBVIOUS
<1> HIDE DEF e, t
<1>7. Ahead(e, t)
  <2>1. e.pos + Len(t) <= Len(e.b)
    BY <1>2, <1>4, <1>5, <1>6
  <2>2. ByteAt(e, 1) = 1
    <3>1. e.pos + 1 = d.pos + 2
      BY <1>4, <1>5
    <3> QED
      BY <1>3, <1>5, <3>1 DEF ByteAt
  <2>3. \A i \in 1 .. Len(t) : i = 1
    BY <1>6
  <2> QED
    BY <1>6, <2>1, <2>2, <2>3 DEF Ahead
<1>8. Spelled(t, 1)
  <2> DEFINE one == 1
  <2>1. one \in Nat /\ one <= 127
    OBVIOUS
  <2> HIDE DEF one
  <2>2. Spelled(<<one>>, one)
    BY <2>1, SmallSpelled
  <2> QED
    BY <2>2 DEF t, one
<1>9. n = Make(e.b, e.pos + Len(t), e.strings, e.objects, e.ok, 1, e.val)
  BY <1>5, <1>7, <1>8 DEF Spelled
<1>10. n \in Decoders
  BY <1>5, ReadIntAfter
<1>11. /\ n.b = d.b /\ n.pos = d.pos + 2 /\ n.strings = d.strings /\ n.objects = d.objects
       /\ n.int = 1 /\ n.val = d.val
  <2>1. e.pos + Len(t) = d.pos + 2
    BY <1>4, <1>5, <1>6
  <2> HIDE DEF n
  <2> QED
    BY <1>5, <1>9, <2>1, MadeFields
<1>11a. n.ok = d.ok
  <2> HIDE DEF n
  <2> QED
    BY <1>5a, <1>9, MadeFields
<1> SUFFICES ASSUME d.ok
    PROVE sharedString(d) = Make(d.b, d.pos + 3, Append(d.strings, <<name>>), d.objects, d.ok, 1, Str(<<name>>))
  BY <1>2
<1>12. n.ok /\ ~(n.int < 0 \/ n.int > Left(n))
  BY <1>2, <1>4, <1>11, <1>11a DEF Left
<1>13. Counted(e) = [Skip(n, n.int) EXCEPT !.val = Str(SubSeq(n.b, n.pos + 1, n.pos + n.int))]
  BY <1>5, <1>12, CountedIs
<1>14. SubSeq(n.b, n.pos + 1, n.pos + n.int) = <<name>>
  <2>1. n.pos + n.int = d.pos + 3 /\ n.pos + 1 = d.pos + 3
    BY <1>4, <1>11
  <2>2. d.b[d.pos + 3] = name
    BY <1>3 DEF ByteAt
  <2> DEFINE k == d.pos + 3
  <2>3. k \in 1 .. Len(d.b)
    BY <1>2, <1>4
  <2>4. SubSeq(n.b, n.pos + 1, n.pos + n.int) = SubSeq(d.b, k, k) /\ d.b[k] = name
    BY <1>11, <2>1, <2>2
  <2> HIDE DEF k
  <2>5. SubSeq(d.b, k, k) = <<d.b[k]>>
    BY <1>4, <2>3, OneByte
  <2> QED
    BY <2>4, <2>5
<1> DEFINE m == Skip(n, 1)
           c == Counted(e)
<1>15. /\ m \in Decoders /\ m.b = d.b /\ m.pos = d.pos + 3 /\ m.strings = d.strings /\ m.objects = d.objects
       /\ m.int = 1
  <2>1. 1 <= Left(n)
    BY <1>2, <1>4, <1>11 DEF Left
  <2>2. /\ m \in Decoders /\ m.b = n.b /\ m.pos = n.pos + 1 /\ m.strings = n.strings /\ m.objects = n.objects
        /\ m.int = n.int
    BY <1>10, <2>1, SkipType
  <2> QED
    BY <1>4, <1>11, <2>2
<1>15a. m.ok = d.ok
  <2>1. 1 <= Left(n)
    BY <1>2, <1>4, <1>11 DEF Left
  <2>2. m.ok = n.ok
    BY <1>10, <2>1, SkipType
  <2> QED
    BY <1>11a, <2>2
<1>16. c = [m EXCEPT !.val = Str(<<name>>)]
  BY <1>11, <1>13, <1>14
<1> HIDE DEF m
<1>17. c = Make(m.b, m.pos, m.strings, m.objects, m.ok, m.int, Str(<<name>>))
  BY <1>15, <1>16, SetVal
<1>18. c \in Decoders
  BY <1>5, CountedAfter
<1> HIDE DEF c
<1>19. /\ c.b = d.b /\ c.pos = d.pos + 3 /\ c.strings = d.strings /\ c.objects = d.objects
       /\ c.int = 1 /\ c.val = Str(<<name>>)
  BY <1>15, <1>17, MadeFields
<1>19a. c.ok = d.ok
  <2>0. <<name>> \in Seq(Nat)
    OBVIOUS
  <2>1. Str(<<name>>) \in Values
    BY <2>0, ValuesType
  <2>2. c.ok = m.ok
    BY <1>15, <1>16, <2>1, ValSet
  <2> QED
    BY <1>15a, <2>2
<1>20. Str(<<name>>).str = <<name>>
  BY DEF Str
<1>21. Entered(c) = [c EXCEPT !.strings = Append(d.strings, <<name>>)]
  BY <1>19, <1>20 DEF Entered
<1>22. [c EXCEPT !.strings = Append(d.strings, <<name>>)]
         = Make(c.b, c.pos, Append(d.strings, <<name>>), c.objects, c.ok, c.int, c.val)
  BY <1>18, SetStrings
<1>23. sharedString(d) = Entered(c)
  <2>1. c.ok
    BY <1>19a
  <2>2. sharedString(d) = IF c.ok THEN Entered(c) ELSE c
    BY <1>2, SharedStringIs DEF c, e
  <2> QED
    BY <2>1, <2>2
<1> QED
  BY <1>19, <1>19a, <1>21, <1>22, <1>23

LEMMA EmitIs ==
  ASSUME NEW w \in Writers, NEW s \in Seq(Nat)
  PROVE  /\ Emit(w, s) \in Writers /\ Emit(w, s).b = w.b \o s /\ Emit(w, s).strings = w.strings
         /\ Emit(w, s).objects = w.objects /\ Emit(w, s).wide = w.wide
         /\ w.b \in Seq(Nat) /\ w.strings \in Seq(Nat) /\ w.objects \in Seq(Nat)
<1>1. w.b \o s \in Seq(Nat)
  BY ConcatProperties DEF Writers
<1> DEFINE x == w.b \o s
<1>2. Emit(w, s) = [w EXCEPT !.b = x]
  BY DEF Emit
<1>3. x \in Seq(Nat)
  BY <1>1
<1> HIDE DEF x
<1>4. /\ [w EXCEPT !.b = x] \in Writers /\ [w EXCEPT !.b = x].b = x
      /\ [w EXCEPT !.b = x].strings = w.strings /\ [w EXCEPT !.b = x].objects = w.objects
      /\ [w EXCEPT !.b = x].wide = w.wide
  BY <1>3 DEF Writers
<1>5. w.b \in Seq(Nat) /\ w.strings \in Seq(Nat) /\ w.objects \in Seq(Nat)
  BY DEF Writers
<1> QED
  BY <1>2, <1>4, <1>5 DEF x

Listing(w, x) == [w EXCEPT !.objects = Append(@, x)]
Naming(w, x) == [w EXCEPT !.strings = Append(@, x)]

LEMMA ListingIs ==
  ASSUME NEW w \in Writers, NEW x \in Nat
  PROVE  /\ Listing(w, x) \in Writers /\ Listing(w, x).b = w.b /\ Listing(w, x).strings = w.strings
         /\ Listing(w, x).objects = Append(w.objects, x) /\ Listing(w, x).wide = w.wide
<1> DEFINE o == Append(w.objects, x)
<1>1. o \in Seq(Nat)
  BY AppendProperties DEF Writers
<1>2. Listing(w, x) = [w EXCEPT !.objects = o]
  BY DEF Listing
<1> HIDE DEF o
<1>3. /\ [w EXCEPT !.objects = o] \in Writers /\ [w EXCEPT !.objects = o].b = w.b
      /\ [w EXCEPT !.objects = o].strings = w.strings /\ [w EXCEPT !.objects = o].objects = o
      /\ [w EXCEPT !.objects = o].wide = w.wide
  BY <1>1 DEF Writers
<1> QED
  BY <1>2, <1>3 DEF o

LEMMA NamingIs ==
  ASSUME NEW w \in Writers, NEW x \in Nat
  PROVE  /\ Naming(w, x) \in Writers /\ Naming(w, x).b = w.b /\ Naming(w, x).objects = w.objects
         /\ Naming(w, x).strings = Append(w.strings, x) /\ Naming(w, x).wide = w.wide
<1> DEFINE o == Append(w.strings, x)
<1>1. o \in Seq(Nat)
  BY AppendProperties DEF Writers
<1>2. Naming(w, x) = [w EXCEPT !.strings = o]
  BY DEF Naming
<1> HIDE DEF o
<1>3. /\ [w EXCEPT !.strings = o] \in Writers /\ [w EXCEPT !.strings = o].b = w.b
      /\ [w EXCEPT !.strings = o].objects = w.objects /\ [w EXCEPT !.strings = o].strings = o
      /\ [w EXCEPT !.strings = o].wide = w.wide
  BY <1>1 DEF Writers
<1> QED
  BY <1>2, <1>3 DEF o

LEMMA ThreeBytes ==
  ASSUME NEW a \in Nat, NEW b \in Nat, NEW c \in Nat
  PROVE  (<<a>> \o <<b>>) \o <<c>> = <<a, b, c>>
<1> DEFINE p == <<a>>
           q == <<b>>
           r == <<c>>
           u == p \o q
           v == u \o r
           s == <<a, b, c>>
<1>1. /\ p \in Seq(Nat) /\ Len(p) = 1 /\ p[1] = a
      /\ q \in Seq(Nat) /\ Len(q) = 1 /\ q[1] = b
      /\ r \in Seq(Nat) /\ Len(r) = 1 /\ r[1] = c
  OBVIOUS
<1>2. s \in Seq(Nat) /\ Len(s) = 3 /\ s[1] = a /\ s[2] = b /\ s[3] = c
  OBVIOUS
<1> HIDE DEF p, q, r, s
<1>3. u \in Seq(Nat) /\ Len(u) = 2 /\ u[1] = a /\ u[2] = b
  <2>1. u = Append(p, b)
    BY <1>1, AppendIsConcat DEF q
  <2>2. p \in Seq(Nat)
    BY <1>1
  <2> HIDE DEF u
  <2>3. u \in Seq(Nat) /\ Len(u) = Len(p) + 1 /\ u[Len(p) + 1] = b /\ \A i \in 1 .. Len(p) : u[i] = p[i]
    BY <2>1, <2>2, AppendProperties
  <2> QED
    BY <1>1, <2>3
<1> HIDE DEF u
<1>4. v \in Seq(Nat) /\ Len(v) = 3 /\ v[1] = a /\ v[2] = b /\ v[3] = c
  <2>1. v = Append(u, c)
    BY <1>3, AppendIsConcat DEF r
  <2>2. u \in Seq(Nat)
    BY <1>3
  <2> HIDE DEF v
  <2>3. v \in Seq(Nat) /\ Len(v) = Len(u) + 1 /\ v[Len(u) + 1] = c /\ \A i \in 1 .. Len(u) : v[i] = u[i]
    BY <2>1, <2>2, AppendProperties
  <2> QED
    BY <1>3, <2>3
<1> HIDE DEF v
<1>5. \A i \in 1 .. Len(v) : v[i] = s[i]
  <2>1. \A i \in 1 .. 3 : i = 1 \/ i = 2 \/ i = 3
    OBVIOUS
  <2> QED
    BY <1>2, <1>4, <2>1
<1>6. v = s
  BY <1>2, <1>4, <1>5, SeqEqual
<1> QED
  BY <1>6 DEF p, q, r, u, v, s

LEMMA SmallInts ==
  /\ appendInt(0) = <<0>> /\ appendInt(1) = <<1>>
  /\ \A x \in Nat : NewString(x) = <<tagNew>> \o appendInt(1) \o <<x>>
<1> DEFINE one == <<1>>
<1>1. appendInt(0) = <<0>> /\ appendInt(1) = one
  BY SMT DEF appendInt
<1>2. ASSUME NEW x \in Nat PROVE NewString(x) = <<tagNew>> \o one \o <<x>>
  <2> DEFINE b == 1
             a == tagNew
  <2>1. a \in Nat /\ b \in Nat
    BY DEF tagNew
  <2> HIDE DEF a, b
  <2>2. (<<a>> \o <<b>>) \o <<x>> = <<a, b, x>>
    BY <2>1, ThreeBytes
  <2> QED
    BY <2>2, Zenon DEF NewString, a, b
<1> HIDE DEF one
<1> QED
  BY <1>1, <1>2 DEF one

LEMMA SharedStringWritten ==
  ASSUME NEW w \in Writers, NEW s \in Nat
  PROVE  /\ Contains(w.strings, s) => appendSharedString(w, s) = Emit(w, Number(w, w.strings, s))
         /\ ~Contains(w.strings, s) => appendSharedString(w, s) = Naming(Emit(w, NewString(s)), s)
<1>1. NewString(s) = <<tagNew>> \o appendInt(1) \o <<s>>
  BY SmallInts
<1> QED
  BY <1>1, Zenon DEF appendSharedString, Naming

(* Every string of an archive but the first, "@", is the name of a class of   *)
(* its object table: the names are never written by reference.              *)
Wrote(w) ==
  /\ w \in Writers
  /\ Len(w.strings) > 0 => w.strings[1] = At
  /\ \A i \in 1 .. Len(w.strings) : w.strings[i] = At \/ Contains(w.objects, w.strings[i])

LEMMA ContainsMore ==
  ASSUME NEW o \in Seq(Nat), NEW x \in Nat, NEW y
  PROVE  Contains(Append(o, x), y) <=> Contains(o, y) \/ y = x
<1> DEFINE a == Append(o, x)
<1>1. /\ a \in Seq(Nat) /\ Len(a) = Len(o) + 1 /\ Len(o) \in Nat /\ a[Len(o) + 1] = x
      /\ \A i \in 1 .. Len(o) : a[i] = o[i]
  BY AppendProperties
<1> HIDE DEF a
<1>2. ASSUME Contains(o, y) PROVE Contains(a, y)
  <2>1. PICK i \in 1 .. Len(o) : o[i] = y
    BY <1>2 DEF Contains
  <2>2. i \in 1 .. Len(a) /\ a[i] = y
    BY <1>1, <2>1
  <2> QED
    BY <2>2 DEF Contains
<1>3. Contains(a, x)
  <2>1. Len(o) + 1 \in 1 .. Len(a)
    BY <1>1
  <2> QED
    BY <1>1, <2>1 DEF Contains
<1>4. ASSUME Contains(a, y) PROVE Contains(o, y) \/ y = x
  <2>1. PICK i \in 1 .. Len(a) : a[i] = y
    BY <1>4 DEF Contains
  <2>2. CASE i \in 1 .. Len(o)
    <3>1. o[i] = y
      BY <1>1, <2>1, <2>2
    <3> QED
      BY <2>2, <3>1 DEF Contains
  <2>3. CASE i \notin 1 .. Len(o)
    <3>1. i = Len(o) + 1
      BY <1>1, <2>3
    <3> QED
      BY <1>1, <2>1, <3>1
  <2> QED
    BY <2>2, <2>3
<1> QED
  BY <1>2, <1>3, <1>4 DEF a

LEMMA AppendNameIs ==
  ASSUME NEW w, Wrote(w), NEW name \in Nat, name # At, ~Contains(w.objects, name)
  PROVE  LET n == appendName(w, name) IN
         /\ n \in Writers
         /\ n.b = ((w.b \o <<tagNew>>) \o NewString(name)) \o <<0>>
         /\ n.strings = Append(w.strings, name) /\ n.objects = Append(w.objects, name)
         /\ n.wide = w.wide
<1> DEFINE w1 == Emit(w, <<tagNew>>)
           w2 == Listing(w1, name)
           w3 == Emit(w2, NewString(name))
           w4 == Naming(w3, name)
<1>0. w \in Writers
  BY DEF Wrote
<1>1. <<tagNew>> \in Seq(Nat) /\ NewString(name) \in Seq(Nat) /\ <<0>> \in Seq(Nat)
  BY DEF tagNew, NewString
<1>2. /\ w1 \in Writers /\ w1.b = w.b \o <<tagNew>> /\ w1.strings = w.strings
      /\ w1.objects = w.objects /\ w1.wide = w.wide
  BY <1>0, <1>1, EmitIs
<1>3. /\ w2 \in Writers /\ w2.b = w1.b /\ w2.strings = w1.strings
      /\ w2.objects = Append(w1.objects, name) /\ w2.wide = w1.wide
  BY <1>2, ListingIs
<1>4. ~Contains(w2.strings, name)
  <2> SUFFICES ASSUME NEW i \in 1 .. Len(w.strings) PROVE w.strings[i] # name
    <3> HIDE DEF w1, w2
    <3> QED
      BY <1>2, <1>3 DEF Contains
  <2> QED
    BY DEF Wrote
<1>5. appendSharedString(w2, name) = w4
  BY <1>3, <1>4, SharedStringWritten
<1>6. /\ w3 \in Writers /\ w3.b = w2.b \o NewString(name) /\ w3.strings = w2.strings
      /\ w3.objects = w2.objects /\ w3.wide = w2.wide
  BY <1>1, <1>3, EmitIs
<1>7. /\ w4 \in Writers /\ w4.b = w3.b /\ w4.objects = w3.objects
      /\ w4.strings = Append(w3.strings, name) /\ w4.wide = w3.wide
  BY <1>6, NamingIs
<1>8. appendName(w, name) = Emit(w4, <<0>>)
  <2>1. appendName(w, name) = Emit(appendSharedString(w2, name), appendInt(0))
    BY DEF appendName, Listing
  <2> QED
    BY <1>5, <2>1, SmallInts
<1> HIDE DEF w1, w2, w3, w4
<1>9. /\ Emit(w4, <<0>>) \in Writers /\ Emit(w4, <<0>>).b = w4.b \o <<0>>
      /\ Emit(w4, <<0>>).strings = w4.strings
      /\ Emit(w4, <<0>>).objects = w4.objects /\ Emit(w4, <<0>>).wide = w4.wide
  BY <1>1, <1>7, EmitIs
<1> QED
  BY <1>2, <1>3, <1>6, <1>7, <1>8, <1>9

LEMMA WroteName ==
  ASSUME NEW w, Wrote(w), NEW n \in Writers, NEW name \in Nat, Len(w.strings) > 0,
         n.strings = Append(w.strings, name), n.objects = Append(w.objects, name)
  PROVE  Wrote(n) /\ Len(n.strings) > 0
<1>1. w.strings \in Seq(Nat) /\ w.objects \in Seq(Nat)
  BY DEF Wrote, Writers
<1>2. /\ n.strings \in Seq(Nat) /\ Len(n.strings) = Len(w.strings) + 1 /\ Len(w.strings) \in Nat
      /\ n.strings[Len(w.strings) + 1] = name /\ \A i \in 1 .. Len(w.strings) : n.strings[i] = w.strings[i]
  BY <1>1, AppendProperties
<1>3. \A y : Contains(n.objects, y) <=> Contains(w.objects, y) \/ y = name
  BY <1>1, ContainsMore
<1>4. ASSUME NEW i \in 1 .. Len(n.strings) PROVE n.strings[i] = At \/ Contains(n.objects, n.strings[i])
  <2>1. CASE i \in 1 .. Len(w.strings)
    <3>1. w.strings[i] = At \/ Contains(w.objects, w.strings[i])
      BY <2>1 DEF Wrote
    <3> QED
      BY <1>2, <1>3, <2>1, <3>1
  <2>2. CASE i \notin 1 .. Len(w.strings)
    <3>1. i = Len(w.strings) + 1
      BY <1>2, <2>2
    <3> QED
      BY <1>2, <1>3, <3>1
  <2> QED
    BY <2>1, <2>2
<1>5. n.strings[1] = At
  <2>1. w.strings[1] = At /\ 1 \in 1 .. Len(w.strings)
    BY <1>2 DEF Wrote
  <2> QED
    BY <1>2, <2>1
<1>6. Len(n.strings) > 0
  BY <1>2
<1> QED
  BY <1>4, <1>5, <1>6 DEF Wrote

(* The decoder has read what the writer wrote, and made its tables of it.    *)
EntryOf(o, x) == IF x = 0 THEN o.kind = "object" ELSE o = Class(<<x>>)
StringsOf(ss, ws) == Len(ss) = Len(ws) /\ \A i \in 1 .. Len(ws) : ss[i] = <<ws[i]>>
ObjectsOf(os, ws) == Len(os) = Len(ws) /\ \A i \in 1 .. Len(ws) : EntryOf(os[i], ws[i])

Reads(d, w) ==
  /\ d \in Decoders /\ d.pos = Len(w.b) /\ PrefixOf(w.b, d.b)
  /\ StringsOf(d.strings, w.strings) /\ ObjectsOf(d.objects, w.objects)

LEMMA StringsMore ==
  ASSUME NEW ss \in Seq(Seq(Nat)), NEW ws \in Seq(Nat), StringsOf(ss, ws), NEW x \in Nat
  PROVE  StringsOf(Append(ss, <<x>>), Append(ws, x))
<1> DEFINE one == <<x>>
           sx == Append(ss, one)
           wx == Append(ws, x)
<1>0. one \in Seq(Nat)
  OBVIOUS
<1> HIDE DEF one
<1>1. /\ Len(sx) = Len(ss) + 1 /\ Len(ss) \in Nat /\ sx[Len(ss) + 1] = one
      /\ \A i \in 1 .. Len(ss) : sx[i] = ss[i]
  BY <1>0, AppendProperties
<1>2. /\ Len(wx) = Len(ws) + 1 /\ Len(ws) \in Nat /\ wx[Len(ws) + 1] = x
      /\ \A i \in 1 .. Len(ws) : wx[i] = ws[i]
  BY AppendProperties
<1>3. Len(ss) = Len(ws) /\ \A i \in 1 .. Len(ws) : ss[i] = <<ws[i]>>
  BY DEF StringsOf
<1> HIDE DEF sx, wx
<1>4. ASSUME NEW i \in 1 .. Len(wx) PROVE sx[i] = <<wx[i]>>
  <2>1. CASE i \in 1 .. Len(ws)
    <3>1. sx[i] = ss[i] /\ wx[i] = ws[i] /\ ss[i] = <<ws[i]>>
      BY <1>1, <1>2, <1>3, <2>1
    <3> QED
      BY <3>1
  <2>2. CASE i \notin 1 .. Len(ws)
    <3>1. i = Len(ws) + 1
      BY <1>2, <2>2
    <3>2. sx[i] = one /\ wx[i] = x
      BY <1>1, <1>2, <1>3, <3>1
    <3> QED
      BY <3>2 DEF one
  <2> QED
    BY <2>1, <2>2
<1>5. Len(sx) = Len(wx)
  BY <1>1, <1>2, <1>3
<1>6. StringsOf(sx, wx)
  BY <1>4, <1>5 DEF StringsOf
<1> QED
  BY <1>6 DEF sx, wx, one

LEMMA ObjectsMore ==
  ASSUME NEW os \in Seq(Entries), NEW ws \in Seq(Nat), ObjectsOf(os, ws), NEW x \in Nat,
         NEW ox \in Seq(Entries), Len(ox) = Len(os) + 1, \A i \in 1 .. Len(os) : ox[i] = os[i],
         EntryOf(ox[Len(os) + 1], x)
  PROVE  ObjectsOf(ox, Append(ws, x))
<1> DEFINE wx == Append(ws, x)
<1>2. /\ Len(wx) = Len(ws) + 1 /\ Len(ws) \in Nat /\ wx[Len(ws) + 1] = x
      /\ \A i \in 1 .. Len(ws) : wx[i] = ws[i]
  BY AppendProperties
<1>3. Len(os) = Len(ws) /\ \A i \in 1 .. Len(ws) : EntryOf(os[i], ws[i])
  BY DEF ObjectsOf
<1> HIDE DEF wx
<1>4. ASSUME NEW i \in 1 .. Len(wx) PROVE EntryOf(ox[i], wx[i])
  <2>1. CASE i \in 1 .. Len(ws)
    <3>1. ox[i] = os[i] /\ wx[i] = ws[i] /\ EntryOf(os[i], ws[i])
      BY <1>2, <1>3, <2>1
    <3> QED
      BY <3>1
  <2>2. CASE i \notin 1 .. Len(ws)
    <3>1. i = Len(ws) + 1
      BY <1>2, <2>2
    <3> QED
      BY <1>2, <1>3, <3>1
  <2> QED
    BY <2>1, <2>2
<1>5. Len(ox) = Len(wx)
  BY <1>2, <1>3
<1>6. ObjectsOf(ox, wx)
  BY <1>4, <1>5 DEF ObjectsOf
<1> QED
  BY <1>6 DEF wx

LEMMA ReadsTag ==
  ASSUME NEW d, NEW w \in Writers, Reads(d, w), NEW t \in Nat, PrefixOf(w.b \o <<t>>, d.b)
  PROVE  /\ Left(d) > 0 /\ Peek(d) = t /\ d \in Decoders
         /\ Skip(d, 1) \in Decoders /\ Skip(d, 1).pos = Len(w.b \o <<t>>) /\ Skip(d, 1).b = d.b
         /\ Skip(d, 1).strings = d.strings /\ Skip(d, 1).objects = d.objects
         /\ Skip(d, 1).ok = d.ok /\ Skip(d, 1).val = d.val
<1> DEFINE s == <<t>>
<1>1. s \in Seq(Nat) /\ Len(s) = 1 /\ s[1] = t
  OBVIOUS
<1>2. d \in Decoders /\ d.pos = Len(w.b) /\ w.b \in Seq(Nat) /\ PrefixOf(w.b \o s, d.b)
  BY DEF Reads, Writers
<1> HIDE DEF s
<1>3. Ahead(d, s)
  BY <1>1, <1>2, AheadTaken
<1>4. Left(d) > 0 /\ Peek(d) = t
  <2>1. Len(s) > 0
    BY <1>1
  <2> QED
    BY <1>1, <1>2, <1>3, <2>1, AheadFirst
<1>5. Len(w.b \o s) = d.pos + 1
  <2>1. Len(w.b \o s) = Len(w.b) + Len(s)
    <3>1. s \in Seq(Nat)
      BY <1>1
    <3> QED
      BY <1>2, <3>1, LenConcat
  <2> QED
    BY <1>1, <1>2, <2>1
<1>6. 1 <= Left(d)
  BY <1>2, <1>4, DecoderType
<1>7. /\ Skip(d, 1) \in Decoders /\ Skip(d, 1).pos = d.pos + 1 /\ Skip(d, 1).b = d.b
      /\ Skip(d, 1).strings = d.strings /\ Skip(d, 1).objects = d.objects
      /\ Skip(d, 1).ok = d.ok /\ Skip(d, 1).val = d.val
  BY <1>2, <1>6, SkipType
<1> QED
  BY <1>2, <1>4, <1>5, <1>7 DEF s

LEMMA NameRead ==
  ASSUME NEW d, NEW w, Reads(d, w), d.ok, Wrote(w), NEW name \in Nat, name # 0, name # At,
         ~Contains(w.objects, name), NEW n, n = appendName(w, name), PrefixOf(n.b, d.b),
         NEW c, c = NameAndVersion(Skip(d, 1), Len(d.objects) + 1)
  PROVE  /\ Left(d) > 0 /\ Peek(d) = tagNew
         /\ c.ok /\ c.b = d.b /\ Reads(c, n)
<1> DEFINE x1 == w.b \o <<tagNew>>
           x2 == x1 \o NewString(name)
           x3 == x2 \o <<0>>
           slot == Len(d.objects) + 1
<1>1. /\ n \in Writers /\ n.b = x3
      /\ n.strings = Append(w.strings, name) /\ n.objects = Append(w.objects, name)
  BY AppendNameIs
<1>2. <<tagNew>> \in Seq(Nat) /\ NewString(name) \in Seq(Nat) /\ Len(NewString(name)) = 3 /\ <<0>> \in Seq(Nat)
  BY DEF tagNew, NewString
<1>3. /\ d \in Decoders /\ w \in Writers /\ w.b \in Seq(Nat) /\ w.strings \in Seq(Nat) /\ w.objects \in Seq(Nat)
      /\ d.b \in Seq(Nat) /\ d.objects \in Seq(Entries) /\ d.strings \in Seq(Seq(Nat))
  BY DecoderType DEF Reads, Wrote, Writers
<1>4. x1 \in Seq(Nat)
  BY <1>2, <1>3, LenConcat
<1>5. x2 \in Seq(Nat) /\ Len(x2) = Len(x1) + 3
  <2> HIDE DEF x1
  <2>1. x2 \in Seq(Nat) /\ Len(x2) = Len(x1) + Len(NewString(name))
    BY <1>2, <1>4, LenConcat
  <2> QED
    BY <1>2, <2>1
<1>6. PrefixOf(x3, d.b)
  BY <1>1
<1>7. PrefixOf(x2, d.b)
  <2> HIDE DEF x2
  <2> QED
    BY <1>2, <1>3, <1>5, <1>6, PrefixParts
<1>8. PrefixOf(x1, d.b)
  <2> HIDE DEF x1
  <2> QED
    BY <1>2, <1>3, <1>4, <1>7, PrefixParts
<1> DEFINE d1 == Skip(d, 1)
           d2 == More(d1, Reserved)
           s == sharedString(d2)
           x == Class(<<name>>)
           c0 == Changed(s, slot, x)
<1>9. /\ Left(d) > 0 /\ Peek(d) = tagNew /\ d1 \in Decoders /\ d1.pos = Len(x1) /\ d1.b = d.b
      /\ d1.strings = d.strings /\ d1.objects = d.objects
  <2>1. tagNew \in Nat
    BY DEF tagNew
  <2> QED
    BY <1>3, <1>8, <2>1, ReadsTag
<1>9a. d1.ok
  <2>1. tagNew \in Nat
    BY DEF tagNew
  <2>2. d1.ok = d.ok
    BY <1>3, <1>8, <2>1, ReadsTag
  <2> QED
    BY <2>2
<1>10. c = NameAndVersion(d1, slot)
  OBVIOUS
<1> HIDE DEF d1
<1>11. /\ d2 \in Decoders /\ d2.b = d.b /\ d2.pos = Len(x1) /\ d2.strings = d.strings
       /\ d2.objects = Append(d.objects, Reserved)
       /\ Len(d2.objects) = slot /\ slot \in Nat
  <2>1. Reserved \in Entries
    BY EntriesType
  <2>2. /\ d2 \in Decoders /\ d2.b = d1.b /\ d2.pos = d1.pos /\ d2.strings = d1.strings
        /\ d2.objects = Append(d1.objects, Reserved)
        /\ Len(d2.objects) = Len(d1.objects) + 1 /\ Len(d1.objects) \in Nat
    BY <1>9, <2>1, MoreType
  <2> QED
    BY <1>9, <2>2
<1>11a. d2.ok
  <2>1. Reserved \in Entries
    BY EntriesType
  <2>2. d2.ok = d1.ok
    BY <1>9, <2>1, MoreType
  <2> QED
    BY <1>9a, <2>2
<1> HIDE DEF d2
<1>12. Ahead(d2, NewString(name))
  <2> HIDE DEF x1
  <2>1. PrefixOf(x1 \o NewString(name), d2.b)
    BY <1>7, <1>11
  <2> QED
    BY <1>2, <1>4, <1>11, <2>1, AheadTaken
<1>13. s = Make(d2.b, d2.pos + 3, Append(d2.strings, <<name>>), d2.objects, d2.ok, 1, Str(<<name>>))
  BY <1>11, <1>11a, <1>12, NewStringRead
<1>14. s \in Decoders
  BY <1>11, SharedStringAfter
<1> HIDE DEF s
<1>15. /\ s.b = d.b /\ s.pos = Len(x2) /\ s.strings = Append(d.strings, <<name>>)
       /\ s.objects = Append(d.objects, Reserved) /\ s.val = Str(<<name>>)
  <2> DEFINE one == <<name>>
             p == d2.pos + 3
             t == Append(d2.strings, one)
             u == Str(one)
             i == 1
  <2>0. s = Make(d2.b, p, t, d2.objects, d2.ok, i, u)
    BY <1>13
  <2> HIDE DEF one, p, t, u, i
  <2>1. s.b = d2.b /\ s.pos = p /\ s.strings = t /\ s.objects = d2.objects /\ s.val = u
    BY <2>0, MadeFields
  <2> HIDE DEF x1, x2
  <2> QED
    BY <1>5, <1>11, <2>1 DEF one, p, t, u
<1>15a. s.ok
  <2>1. s.ok = d2.ok
    BY <1>13, MadeFields
  <2> QED
    BY <1>11a, <2>1
<1>16. c = readInt(c0)
  <2>1. s.val.str = <<name>>
    BY <1>15 DEF Str
  <2>2. c = readInt(Changed(s, slot, Class(s.val.str)))
    BY <1>10, <1>15a, NameAndVersionIs DEF s, d2
  <2> QED
    BY <2>1, <2>2
<1>17. x \in Entries /\ Fits(s.objects, slot, x)
  <2>1. <<name>> \in Seq(Nat)
    OBVIOUS
  <2>2. x \in Entries
    BY <2>1, EntriesType
  <2> QED
    BY <2>2 DEF Fits
<1> HIDE DEF x
<1>18. /\ c0 \in Decoders /\ c0.b = d.b /\ c0.pos = Len(x2) /\ c0.strings = Append(d.strings, <<name>>)
       /\ Len(c0.objects) = slot
       /\ \A k \in 1 .. slot : c0.objects[k] = IF k = slot THEN x ELSE s.objects[k]
  <2>1. Len(s.objects) = slot
    BY <1>11, <1>15
  <2>2. /\ c0 \in Decoders /\ c0.b = s.b /\ c0.pos = s.pos /\ c0.strings = s.strings
        /\ Len(c0.objects) = Len(s.objects)
        /\ \A k \in 1 .. Len(s.objects) : c0.objects[k] = IF k = slot THEN x ELSE s.objects[k]
    BY <1>11, <1>14, <1>17, ChangedType
  <2> HIDE DEF slot, c0, x2
  <2> QED
    BY <1>15, <2>1, <2>2
<1>18a. c0.ok
  <2>1. c0.ok = s.ok
    BY <1>11, <1>14, <1>17, ChangedType
  <2> QED
    BY <1>15a, <2>1
<1> HIDE DEF c0
<1>19. ObjectsOf(c0.objects, n.objects)
  <2>1. /\ Len(Append(d.objects, Reserved)) = Len(d.objects) + 1 /\ Len(d.objects) \in Nat
        /\ \A k \in 1 .. Len(d.objects) : Append(d.objects, Reserved)[k] = d.objects[k]
    BY <1>3, EntriesType, AppendProperties
  <2>2. \A k \in 1 .. Len(d.objects) : c0.objects[k] = d.objects[k]
    <3> SUFFICES ASSUME NEW k \in 1 .. Len(d.objects) PROVE c0.objects[k] = d.objects[k]
      OBVIOUS
    <3>1. k \in 1 .. slot /\ k # slot
      BY <2>1
    <3>2. c0.objects[k] = s.objects[k]
      BY <1>18, <3>1
    <3> QED
      BY <1>15, <2>1, <3>2
  <2>3. c0.objects[slot] = x
    BY <1>11, <1>18
  <2>4. EntryOf(c0.objects[slot], name)
    BY <2>3 DEF EntryOf, x
  <2>5. c0.objects \in Seq(Entries) /\ Len(c0.objects) = Len(d.objects) + 1
    BY <1>18, DecoderType
  <2>6. ObjectsOf(d.objects, w.objects)
    BY DEF Reads
  <2>7. ObjectsOf(c0.objects, Append(w.objects, name))
    BY <1>3, <2>2, <2>4, <2>5, <2>6, ObjectsMore
  <2> QED
    BY <1>1, <2>7
<1>20. StringsOf(c0.strings, n.strings)
  <2>1. StringsOf(d.strings, w.strings)
    BY DEF Reads
  <2> QED
    BY <1>1, <1>3, <1>18, <2>1, StringsMore
<1>21. /\ c \in Decoders /\ c.b = d.b /\ c.pos = Len(x3) /\ c.strings = c0.strings /\ c.objects = c0.objects
       /\ c.ok
  <2> DEFINE t == <<0>>
  <2>1. t \in Seq(Nat) /\ Len(t) = 1 /\ x3 = x2 \o t
    OBVIOUS
  <2>2. Spelled(t, 0)
    <3> DEFINE zero == 0
    <3>1. zero \in Nat /\ zero <= 127
      OBVIOUS
    <3> HIDE DEF zero
    <3>2. Spelled(<<zero>>, zero)
      BY <3>1, SmallSpelled
    <3> QED
      BY <3>2 DEF zero
  <2> HIDE DEF t, x2, x3
  <2>3. Ahead(c0, t)
    <3>1. PrefixOf(x2 \o t, c0.b)
      BY <1>6, <1>18, <2>1
    <3> QED
      BY <1>5, <1>18, <2>1, <3>1, AheadTaken
  <2>4. c = Make(c0.b, c0.pos + Len(t), c0.strings, c0.objects, c0.ok, 0, c0.val)
    BY <1>16, <1>18, <2>2, <2>3 DEF Spelled
  <2>5. c \in Decoders
    BY <1>16, <1>18, ReadIntAfter
  <2>6. /\ c.b = c0.b /\ c.pos = c0.pos + Len(t) /\ c.strings = c0.strings /\ c.objects = c0.objects
    BY <2>4, MadeFields
  <2>7. c.ok = c0.ok
    BY <2>4, MadeFields
  <2>8. Len(x3) = Len(x2) + Len(t)
    BY <1>5, <2>1, LenConcat
  <2> QED
    BY <1>18, <1>18a, <2>5, <2>6, <2>7, <2>8
<1>22. Reads(c, n)
  <2>1. c.pos = Len(n.b) /\ PrefixOf(n.b, c.b)
    BY <1>1, <1>21
  <2> QED
    BY <1>19, <1>20, <1>21, <2>1 DEF Reads
<1> QED
  BY <1>9, <1>21, <1>22

LEMMA ByteType ==
  ASSUME NEW v \in Nat
  PROVE  byte(v, 1) \in Nat /\ byte(v, 256) \in Nat
BY SMT DEF byte

LEMMA NumberType ==
  ASSUME NEW w, NEW table \in Seq(Nat), NEW x, Contains(table, x)
  PROVE  Number(w, table, x) \in Seq(Nat)
<1>1. PICK i : i = Place(table, x)
  OBVIOUS
<1>2. PICK beyond : beyond = i - 1 - refOffset
  OBVIOUS
<1>3. i \in Nat /\ 1 <= i
  <2>1. i \in 1 .. Len(table) /\ Len(table) \in Nat
    BY <1>1, PlaceFirst
  <2> QED
    BY <2>1
<1>4. Number(w, table, x) = IF i <= refOffset THEN <<refBase + i - 1>>
                            ELSE IF w.wide THEN ShortBytes(beyond) ELSE <<beyond>>
  BY <1>1, <1>2, NumberIs
<1>5. <<refBase + i - 1>> \in Seq(Nat)
  BY <1>3 DEF refBase
<1>6. CASE i <= refOffset
  BY <1>4, <1>5, <1>6
<1>7. CASE ~(i <= refOffset)
  <2>1. beyond \in Nat
    BY <1>2, <1>3, <1>7 DEF refOffset, refBase
  <2>2. byte(beyond, 1) \in Nat /\ byte(beyond, 256) \in Nat
    BY <2>1, ByteType
  <2>3. ShortBytes(beyond) \in Seq(Nat) /\ <<beyond>> \in Seq(Nat)
    BY <2>1, <2>2 DEF ShortBytes, tagInt16
  <2> QED
    BY <1>4, <1>7, <2>3
<1> QED
  BY <1>6, <1>7

LEMMA SharedStringType ==
  ASSUME NEW w \in Writers, NEW s \in Nat
  PROVE  appendSharedString(w, s) \in Writers
<1>0. w.strings \in Seq(Nat)
  BY DEF Writers
<1>1. CASE Contains(w.strings, s)
  <2>1. Number(w, w.strings, s) \in Seq(Nat)
    BY <1>0, <1>1, NumberType
  <2> QED
    BY <1>1, <2>1, SharedStringWritten, EmitIs
<1>2. CASE ~Contains(w.strings, s)
  <2>1. NewString(s) \in Seq(Nat)
    BY DEF NewString, tagNew
  <2>2. Emit(w, NewString(s)) \in Writers
    BY <2>1, EmitIs
  <2> QED
    BY <1>2, <2>2, SharedStringWritten, NamingIs
<1> QED
  BY <1>1, <1>2

LEMMA AppendNameType ==
  ASSUME NEW w \in Writers, NEW name \in Nat
  PROVE  appendName(w, name) \in Writers
<1> DEFINE w1 == Emit(w, <<tagNew>>)
           w2 == Listing(w1, name)
           w3 == appendSharedString(w2, name)
<1>1. <<tagNew>> \in Seq(Nat) /\ <<0>> \in Seq(Nat)
  BY DEF tagNew
<1>2. w1 \in Writers
  BY <1>1, EmitIs
<1>3. w2 \in Writers
  BY <1>2, ListingIs
<1>4. w3 \in Writers
  BY <1>3, SharedStringType
<1>5. appendName(w, name) = Emit(w3, <<0>>)
  BY SmallInts DEF appendName, Listing
<1> HIDE DEF w3
<1> QED
  BY <1>1, <1>4, <1>5, EmitIs

(* A class chain as it is written, when g writes the shorter ones.           *)
ClassWritten(g, names, w) ==
  IF names = <<>> THEN Emit(w, <<tagNil>>)
  ELSE IF Contains(w.objects, Head(names))
  THEN Emit(w, Number(w, w.objects, Head(names)))
  ELSE g[Tail(names)][appendName(w, Head(names))]
ChainWritten(g, names) == [w \in Writers |-> ClassWritten(g, names, w)]
ChainWriters == [Writers -> Writers]

LEMMA HeadAndTail ==
  ASSUME NEW names \in Seq(Nat), names # <<>>
  PROVE  /\ Head(names) \in Nat /\ Tail(names) \in Seq(Nat) /\ Len(Tail(names)) < Len(names)
         /\ Len(names) \in Nat /\ Len(Tail(names)) \in Nat
         /\ names[1] = Head(names) /\ \A i \in 1 .. Len(Tail(names)) : i + 1 \in 1 .. Len(names) /\ Tail(names)[i] = names[i + 1]
BY HeadTailProperties

LEMMA ChainWrittenType ==
  ASSUME NEW names \in Seq(Nat), NEW g \in [Seq(Nat) -> ChainWriters]
  PROVE  ChainWritten(g, names) \in ChainWriters
<1> SUFFICES ASSUME NEW w \in Writers PROVE ClassWritten(g, names, w) \in Writers
  BY Zenon DEF ChainWritten, ChainWriters
<1>0. w.objects \in Seq(Nat)
  BY DEF Writers
<1>1. CASE names = <<>>
  <2>1. <<tagNil>> \in Seq(Nat)
    BY DEF tagNil
  <2> QED
    BY <1>1, <2>1, EmitIs DEF ClassWritten
<1>2. CASE names # <<>> /\ Contains(w.objects, Head(names))
  <2>1. Number(w, w.objects, Head(names)) \in Seq(Nat)
    BY <1>0, <1>2, NumberType
  <2> QED
    BY <1>2, <2>1, EmitIs DEF ClassWritten
<1>3. CASE names # <<>> /\ ~Contains(w.objects, Head(names))
  <2>1. Head(names) \in Nat /\ Tail(names) \in Seq(Nat)
    BY <1>3, HeadAndTail
  <2>2. appendName(w, Head(names)) \in Writers
    BY <2>1, AppendNameType
  <2>3. g[Tail(names)] \in [Writers -> Writers]
    BY <2>1 DEF ChainWriters
  <2>4. g[Tail(names)][appendName(w, Head(names))] \in Writers
    BY <2>2, <2>3
  <2> QED
    BY <1>3, <2>4 DEF ClassWritten
<1> QED
  BY <1>1, <1>2, <1>3

LEMMA ChainWrittenLocal ==
  ASSUME NEW names \in Seq(Nat), NEW g, NEW h,
         \A short \in Seq(Nat) : Len(short) < Len(names) => g[short] = h[short]
  PROVE  ChainWritten(g, names) = ChainWritten(h, names)
<1>1. names # <<>> => g[Tail(names)] = h[Tail(names)]
  BY HeadAndTail
<1>2. \A w : ClassWritten(g, names, w) = ClassWritten(h, names, w)
  BY <1>1, Zenon DEF ClassWritten
<1> QED
  BY <1>2, Zenon DEF ChainWritten

LEMMA AppendClassIs ==
  /\ appendClass \in [Seq(Nat) -> ChainWriters]
  /\ \A names \in Seq(Nat) : \A w \in Writers :
       appendClass[names][w] = ClassWritten(appendClass, names, w)
<1> DEFINE D == Seq(Nat)
           S == ChainWriters
           step == [g \in [D -> S] |-> [names \in D |-> ChainWritten(g, names)]]
           size == [names \in D |-> Len(names)]
           Is(f) == f = [names \in D |-> ChainWritten(f, names)]
<1>1. S # {}
  <2>1. [w \in Writers |-> w] \in S
    BY DEF ChainWriters
  <2> QED
    BY <2>1
<1>2. Recursion(step, size, D, S)
  <2>1. step \in [[D -> S] -> [D -> S]]
    BY ChainWrittenType
  <2>2. size \in [D -> Nat]
    BY LenProperties
  <2>3. ASSUME NEW d \in D, NEW g \in [D -> S], NEW h \in [D -> S],
               \A e \in D : size[e] < size[d] => g[e] = h[e]
        PROVE  step[g][d] = step[h][d]
    <3>1. ChainWritten(g, d) = ChainWritten(h, d)
      BY <2>3, ChainWrittenLocal
    <3> QED
      BY <3>1
  <2> HIDE DEF step, size, D, S
  <2> QED
    BY <2>1, <2>2, <2>3 DEF Recursion
<1>3. PICK t \in [D -> S] : t = step[t]
  <2> HIDE DEF step, size, D, S
  <2> QED
    BY <1>1, <1>2, RecursionEnds
<1>4. t = [names \in D |-> ChainWritten(t, names)]
  <2> HIDE DEF D, S
  <2>1. step[t] = [names \in D |-> ChainWritten(t, names)]
    BY Zenon
  <2> QED
    BY <1>3, <2>1, Zenon
<1>5. appendClass = CHOOSE f : Is(f)
  BY Zenon DEF appendClass, ChainWritten, ClassWritten
<1>6. appendClass = [names \in D |-> ChainWritten(appendClass, names)]
  <2>1. Is(t)
    BY <1>4, Zenon
  <2> HIDE DEF Is
  <2>2. Is(appendClass)
    BY <1>5, <2>1, Zenon
  <2> QED
    BY <2>2, Zenon DEF Is
<1>7. \A d \in D : size[d] = Len(d) /\ Len(d) \in Nat
  BY LenProperties
<1>8. \A d \in D : \A g, h : (\A e \in D : Len(e) < Len(d) => g[e] = h[e]) => ChainWritten(g, d) = ChainWritten(h, d)
  BY ChainWrittenLocal
<1> HIDE DEF D, S, size
<1>9. \A d \in D : t[d] = ChainWritten(t, d)
  BY <1>4, Zenon
<1>10. \A d \in D : appendClass[d] = ChainWritten(appendClass, d)
  BY <1>6, Zenon
<1>11. \A d \in D : appendClass[d] = t[d]
  <2>1. \A d \in D : (\A e \in D : Len(e) < Len(d) => appendClass[e] = t[e]) => appendClass[d] = t[d]
    BY <1>8, <1>9, <1>10, Zenon
  <2>2. Descends(D, size, appendClass, t)
    BY <1>7, <2>1, Zenon DEF Descends
  <2> QED
    BY <2>2, SameBySize
<1>12. appendClass \in [D -> S]
  <2>1. \A d \in D : appendClass[d] \in S
    BY <1>3, <1>11, Zenon
  <2>2. appendClass = [d \in D |-> appendClass[d]]
    BY <1>6, <1>10, Zenon
  <2> QED
    BY <2>1, <2>2, Zenon
<1>13. \A names \in D : \A w \in Writers : appendClass[names][w] = ClassWritten(appendClass, names, w)
  BY <1>10, Zenon DEF ChainWritten
<1> QED
  BY <1>12, <1>13, Zenon DEF D, S

LEMMA PrefixTransitive ==
  ASSUME NEW x, NEW y, NEW z, PrefixOf(x, y), PrefixOf(y, z), Len(x) \in Nat, Len(y) \in Nat, Len(z) \in Nat
  PROVE  PrefixOf(x, z)
<1>1. \A i \in 1 .. Len(x) : i \in 1 .. Len(y)
  BY DEF PrefixOf
<1> QED
  BY <1>1 DEF PrefixOf

LEMMA PrefixOfConcat ==
  ASSUME NEW x \in Seq(Nat), NEW y \in Seq(Nat)
  PROVE  PrefixOf(x, x \o y)
<1> DEFINE u == x \o y
<1>1. /\ Len(u) = Len(x) + Len(y) /\ Len(x) \in Nat /\ Len(y) \in Nat
      /\ \A i \in 1 .. Len(x) : u[i] = x[i]
  BY ConcatProperties
<1> HIDE DEF u
<1>2. PrefixOf(x, u)
  BY <1>1 DEF PrefixOf
<1> QED
  BY <1>2 DEF u

LEMMA PrefixOfAppend ==
  ASSUME NEW o \in Seq(Nat), NEW x \in Nat
  PROVE  PrefixOf(o, Append(o, x)) /\ Len(Append(o, x)) = Len(o) + 1 /\ Append(o, x)[Len(o) + 1] = x
<1> DEFINE u == Append(o, x)
<1>1. /\ Len(u) = Len(o) + 1 /\ Len(o) \in Nat /\ u[Len(o) + 1] = x
      /\ \A i \in 1 .. Len(o) : u[i] = o[i]
  BY AppendProperties
<1> HIDE DEF u
<1>2. PrefixOf(o, u)
  BY <1>1 DEF PrefixOf
<1> QED
  BY <1>1, <1>2 DEF u

LEMMA PrefixOfItself ==
  ASSUME NEW x, Len(x) \in Nat
  PROVE  PrefixOf(x, x)
BY DEF PrefixOf

(* What more was written.                                                  *)
Longer(w, n) ==
  /\ w \in Writers /\ n \in Writers /\ n.wide = w.wide
  /\ PrefixOf(w.b, n.b) /\ PrefixOf(w.objects, n.objects)

LEMMA LongerTransitive ==
  ASSUME NEW w, NEW n, NEW m, Longer(w, n), Longer(n, m)
  PROVE  Longer(w, m)
<1>1. \A x \in Writers : Len(x.b) \in Nat /\ Len(x.objects) \in Nat
  BY LenProperties DEF Writers
<1>2. w \in Writers /\ n \in Writers /\ m \in Writers /\ m.wide = w.wide
  BY DEF Longer
<1>3. PrefixOf(w.b, m.b)
  BY <1>1, <1>2, PrefixTransitive DEF Longer
<1>4. PrefixOf(w.objects, m.objects)
  BY <1>1, <1>2, PrefixTransitive DEF Longer
<1> QED
  BY <1>2, <1>3, <1>4 DEF Longer

LEMMA LongerEmit ==
  ASSUME NEW w \in Writers, NEW s \in Seq(Nat)
  PROVE  Longer(w, Emit(w, s))
<1>1. /\ Emit(w, s) \in Writers /\ Emit(w, s).b = w.b \o s
      /\ Emit(w, s).objects = w.objects /\ Emit(w, s).wide = w.wide
      /\ w.b \in Seq(Nat) /\ w.objects \in Seq(Nat)
  BY EmitIs
<1>2. PrefixOf(w.b, w.b \o s)
  BY <1>1, PrefixOfConcat
<1>3. PrefixOf(w.objects, w.objects)
  BY <1>1, LenProperties, PrefixOfItself
<1> QED
  BY <1>1, <1>2, <1>3 DEF Longer

LEMMA LongerName ==
  ASSUME NEW w, Wrote(w), NEW name \in Nat, name # At, ~Contains(w.objects, name), NEW n, n = appendName(w, name)
  PROVE  /\ Longer(w, n) /\ Len(n.objects) = Len(w.objects) + 1 /\ n.objects[Len(w.objects) + 1] = name
<1>0. w \in Writers /\ w.b \in Seq(Nat) /\ w.objects \in Seq(Nat)
  BY DEF Wrote, Writers
<1>1. /\ n \in Writers /\ n.b = ((w.b \o <<tagNew>>) \o NewString(name)) \o <<0>>
      /\ n.objects = Append(w.objects, name) /\ n.wide = w.wide
  BY AppendNameIs
<1> DEFINE x1 == w.b \o <<tagNew>>
           x2 == x1 \o NewString(name)
           x3 == x2 \o <<0>>
<1>2. <<tagNew>> \in Seq(Nat) /\ NewString(name) \in Seq(Nat) /\ <<0>> \in Seq(Nat)
  BY DEF tagNew, NewString
<1>3. x1 \in Seq(Nat) /\ PrefixOf(w.b, x1)
  BY <1>0, <1>2, LenConcat, PrefixOfConcat
<1>4. x2 \in Seq(Nat) /\ PrefixOf(x1, x2)
  <2> HIDE DEF x1
  <2> QED
    BY <1>2, <1>3, LenConcat, PrefixOfConcat
<1>5. x3 \in Seq(Nat) /\ PrefixOf(x2, x3)
  <2> HIDE DEF x2
  <2> QED
    BY <1>2, <1>4, LenConcat, PrefixOfConcat
<1> HIDE DEF x1, x2, x3
<1>6. PrefixOf(w.b, x3)
  <2>1. \A x \in Seq(Nat) : Len(x) \in Nat
    BY LenProperties
  <2>2. PrefixOf(w.b, x2)
    BY <1>0, <1>3, <1>4, <2>1, PrefixTransitive
  <2> QED
    BY <1>0, <1>4, <1>5, <2>1, <2>2, PrefixTransitive
<1>7. PrefixOf(w.b, n.b)
  BY <1>1, <1>6 DEF x1, x2, x3
<1>8. PrefixOf(w.objects, n.objects) /\ Len(n.objects) = Len(w.objects) + 1 /\ n.objects[Len(w.objects) + 1] = name
  BY <1>0, <1>1, PrefixOfAppend
<1> QED
  BY <1>0, <1>1, <1>7, <1>8 DEF Longer

(* Names an archive may have of classes.                                    *)
Named(names) == names \in Seq(Nat) /\ \A i \in 1 .. Len(names) : names[i] # 0 /\ names[i] # At

LEMMA NamedParts ==
  ASSUME NEW names, Named(names), names # <<>>
  PROVE  /\ Head(names) \in Nat /\ Head(names) # 0 /\ Head(names) # At
         /\ Named(Tail(names)) /\ Len(Tail(names)) < Len(names)
<1>1. names \in Seq(Nat)
  BY DEF Named
<1>2. /\ Head(names) \in Nat /\ Tail(names) \in Seq(Nat) /\ Len(Tail(names)) < Len(names)
      /\ Len(names) \in Nat /\ Len(Tail(names)) \in Nat
      /\ names[1] = Head(names)
      /\ \A i \in 1 .. Len(Tail(names)) : i + 1 \in 1 .. Len(names) /\ Tail(names)[i] = names[i + 1]
  BY <1>1, HeadAndTail
<1>3. 1 \in 1 .. Len(names)
  BY <1>2
<1>4. Head(names) # 0 /\ Head(names) # At
  BY <1>2, <1>3 DEF Named
<1>5. \A i \in 1 .. Len(Tail(names)) : Tail(names)[i] # 0 /\ Tail(names)[i] # At
  BY <1>2 DEF Named
<1> QED
  BY <1>2, <1>4, <1>5 DEF Named

LEMMA WroteEmit ==
  ASSUME NEW w, Wrote(w), NEW s \in Seq(Nat)
  PROVE  /\ Wrote(Emit(w, s)) /\ Longer(w, Emit(w, s)) /\ Emit(w, s).strings = w.strings
         /\ Emit(w, s).objects = w.objects /\ Emit(w, s).b = w.b \o s
<1>0. w \in Writers
  BY DEF Wrote
<1>1. /\ Emit(w, s) \in Writers /\ Emit(w, s).strings = w.strings /\ Emit(w, s).objects = w.objects
      /\ Emit(w, s).b = w.b \o s
  BY <1>0, EmitIs
<1>2. Wrote(Emit(w, s))
  BY <1>1 DEF Wrote
<1> QED
  BY <1>0, <1>1, <1>2, LongerEmit

(* Induction over the class chains.                                        *)
ChainStep(W) ==
  \A names \in Seq(Nat) :
    Named(names) /\ (names # <<>> => Tail(names) \in W) => names \in W

LEMMA ByChain ==
  ASSUME NEW W, ChainStep(W), NEW names, Named(names)
  PROVE  names \in W
<1> DEFINE D == { x \in Seq(Nat) : Named(x) }
           size == [x \in D |-> Len(x)]
<1>1. \A d \in D : size[d] = Len(d) /\ size[d] \in Nat
  BY LenProperties
<1>2. ASSUME NEW d \in D, \A e \in D : size[e] < size[d] => e \in W
      PROVE  d \in W
  <2>1. d # <<>> => Tail(d) \in W
    <3> SUFFICES ASSUME d # <<>> PROVE Tail(d) \in W
      OBVIOUS
    <3>1. Named(d)
      OBVIOUS
    <3>2. Named(Tail(d)) /\ Len(Tail(d)) < Len(d)
      BY <3>1, NamedParts
    <3>3. Tail(d) \in D
      BY <3>2 DEF Named
    <3> QED
      BY <1>1, <1>2, <3>2, <3>3
  <2> QED
    BY <2>1 DEF ChainStep
<1>3. names \in D
  BY DEF Named
<1> HIDE DEF D, size
<1>4. Climbs(D, size, W)
  BY <1>1, <1>2 DEF Climbs
<1>5. D \subseteq W
  BY <1>4, BySize
<1> QED
  BY <1>3, <1>5

(* A chain added to an archive leaves a good one.                           *)
GoodAfter(w, n) == Wrote(n) /\ Longer(w, n) /\ Len(n.strings) > 0
GoodChain(names) == \A w : Wrote(w) /\ Len(w.strings) > 0 => GoodAfter(w, appendClass[names][w])

LEMMA ChainGood ==
  ASSUME NEW names, Named(names)
  PROVE  GoodChain(names)
<1> DEFINE W == { x \in Seq(Nat) : GoodChain(x) }
<1>1. ASSUME NEW x \in Seq(Nat), Named(x), x # <<>> => Tail(x) \in W PROVE x \in W
  <2> SUFFICES ASSUME NEW w, Wrote(w), Len(w.strings) > 0 PROVE GoodAfter(w, appendClass[x][w])
    BY DEF GoodChain
  <2>1. w \in Writers /\ w.objects \in Seq(Nat)
    BY DEF Wrote, Writers
  <2>2. appendClass[x][w] = ClassWritten(appendClass, x, w)
    BY <2>1, AppendClassIs
  <2>3. CASE x = <<>>
    <3>1. <<tagNil>> \in Seq(Nat)
      BY DEF tagNil
    <3>2. appendClass[x][w] = Emit(w, <<tagNil>>)
      BY <2>2, <2>3 DEF ClassWritten
    <3> QED
      BY <3>1, <3>2, WroteEmit DEF GoodAfter
  <2>4. CASE x # <<>> /\ Contains(w.objects, Head(x))
    <3>1. Number(w, w.objects, Head(x)) \in Seq(Nat)
      BY <2>1, <2>4, NumberType
    <3>2. appendClass[x][w] = Emit(w, Number(w, w.objects, Head(x)))
      BY <2>2, <2>4 DEF ClassWritten
    <3> QED
      BY <3>1, <3>2, WroteEmit DEF GoodAfter
  <2>5. CASE x # <<>> /\ ~Contains(w.objects, Head(x))
    <3> DEFINE h == Head(x)
               m == appendName(w, h)
    <3>1. h \in Nat /\ h # 0 /\ h # At
      BY <1>1, <2>5, NamedParts
    <3>2. appendClass[x][w] = appendClass[Tail(x)][m]
      BY <2>2, <2>5 DEF ClassWritten
    <3>3. /\ m \in Writers /\ m.strings = Append(w.strings, h) /\ m.objects = Append(w.objects, h)
      BY <2>5, <3>1, AppendNameIs
    <3>4. Longer(w, m)
      BY <2>5, <3>1, LongerName
    <3> HIDE DEF m, h
    <3>5. Wrote(m) /\ Len(m.strings) > 0
      BY <3>1, <3>3, WroteName
    <3>6. GoodChain(Tail(x))
      BY <1>1, <2>5
    <3>7. GoodAfter(m, appendClass[Tail(x)][m])
      BY <3>5, <3>6 DEF GoodChain
    <3> QED
      BY <3>2, <3>4, <3>7, LongerTransitive DEF GoodAfter
  <2> QED
    BY <2>3, <2>4, <2>5
<1> HIDE DEF W
<1>2. ChainStep(W)
  BY <1>1 DEF ChainStep
<1>3. names \in W
  BY <1>2, ByChain
<1> QED
  BY <1>3 DEF W

LEMMA ReadsVal ==
  ASSUME NEW e, NEW n, Reads(e, n), e.ok, NEW x \in Values, NEW c, c = [e EXCEPT !.val = x]
  PROVE  Reads(c, n) /\ c.ok /\ c.b = e.b /\ c.val = x /\ c.objects = e.objects /\ c.pos = e.pos
<1>0. e \in Decoders
  BY DEF Reads
<1>1. /\ c \in Decoders /\ c.val = x /\ c.b = e.b /\ c.pos = e.pos /\ c.strings = e.strings
      /\ c.objects = e.objects
  BY <1>0, ValSet
<1>2. c.ok = e.ok
  BY <1>0, ValSet
<1>3. Reads(c, n)
  BY <1>1 DEF Reads
<1> QED
  BY <1>1, <1>2, <1>3

ClassFound(c, d, n, names) ==
  /\ c.ok /\ c.b = d.b /\ Reads(c, n)
  /\ names = <<>> => c.val.ref = 0
  /\ names # <<>> => c.val.ref \in 1 .. Len(n.objects) /\ n.objects[c.val.ref] = Head(names)

LEMMA NilRead ==
  ASSUME NEW d, NEW w \in Writers, Reads(d, w), d.ok, NEW n, n = Emit(w, <<tagNil>>), PrefixOf(n.b, d.b)
  PROVE  ClassFound(class[d], d, n, <<>>)
<1> DEFINE e == Skip(d, 1)
<1>1. tagNil \in Nat /\ <<tagNil>> \in Seq(Nat)
  BY DEF tagNil
<1>2. n \in Writers /\ n.b = w.b \o <<tagNil>> /\ n.strings = w.strings /\ n.objects = w.objects
  BY <1>1, EmitIs
<1>3. /\ Left(d) > 0 /\ Peek(d) = tagNil /\ d \in Decoders
      /\ e \in Decoders /\ e.pos = Len(n.b) /\ e.b = d.b
      /\ e.strings = d.strings /\ e.objects = d.objects
  BY <1>1, <1>2, ReadsTag
<1>4. e.ok
  <2>1. e.ok = d.ok
    BY <1>1, <1>2, ReadsTag
  <2> QED
    BY <2>1
<1>5. Reads(e, n)
  <2> HIDE DEF e
  <2> QED
    BY <1>2, <1>3 DEF Reads
<1>6. class[d] = [e EXCEPT !.val = Nothing]
  BY <1>3, ClassIs, ClassByIs
<1>7. Nothing \in Values /\ Nothing.ref = 0
  BY ValuesType DEF Nothing, Pointer
<1> HIDE DEF e
<1>8. /\ Reads(class[d], n) /\ class[d].ok /\ class[d].b = e.b /\ class[d].val = Nothing
  BY <1>4, <1>5, <1>6, <1>7, ReadsVal
<1> QED
  BY <1>3, <1>7, <1>8 DEF ClassFound

KnownFound(c, d, n, h) ==
  /\ c.ok /\ c.b = d.b /\ Reads(c, n)
  /\ c.val.ref \in 1 .. Len(n.objects) /\ n.objects[c.val.ref] = h

LEMMA KnownRead ==
  ASSUME NEW d, NEW w, Wrote(w), Reads(d, w), d.ok, NEW h, h # 0, Contains(w.objects, h),
         Len(w.objects) <= Room(w.wide),
         NEW n, n = Emit(w, Number(w, w.objects, h)), PrefixOf(n.b, d.b),
         NEW c, c = class[d]
  PROVE  KnownFound(c, d, n, h)
<1> DEFINE s == Number(w, w.objects, h)
           i == Place(w.objects, h)
           r == refIndex(d)
<1>0. w \in Writers /\ w.objects \in Seq(Nat) /\ w.b \in Seq(Nat) /\ d \in Decoders
  BY DEF Wrote, Writers, Reads
<1>1. s \in Seq(Nat) /\ Spelled(s, i - 1 - refOffset) /\ s[1] \notin {tagNew, tagNil}
  BY <1>0, NumberType, NumberSpelled
<1>2. i \in 1 .. Len(w.objects) /\ w.objects[i] = h
  BY <1>0, PlaceFirst
<1>3. n \in Writers /\ n.b = w.b \o s /\ n.strings = w.strings /\ n.objects = w.objects
  BY <1>0, <1>1, EmitIs
<1> HIDE DEF s, i
<1>4. Ahead(d, s)
  BY <1>0, <1>1, <1>3, AheadTaken DEF Reads
<1>5. i \in Nat /\ 1 <= i
  BY <1>2
<1>9. r.b = d.b /\ r.pos = d.pos + Len(s) /\ r.strings = d.strings /\ r.objects = d.objects /\ r.int = i - 1
  BY <1>0, <1>1, <1>4, <1>5, RefIndexReads
<1>10. r.ok
  <2>1. r.ok = d.ok
    BY <1>0, <1>1, <1>4, <1>5, RefIndexReads
  <2> QED
    BY <2>1
<1>7. r \in Decoders
  BY <1>0, RefIndexAfter
<1>8. Left(d) > 0 /\ Peek(d) = s[1]
  BY <1>0, <1>1, <1>4 DEF Spelled
<1> HIDE DEF r
<1>11. Reads(r, n)
  <2>1. Len(n.b) = d.pos + Len(s)
    BY <1>0, <1>1, <1>3, LenConcat DEF Reads
  <2> QED
    BY <1>3, <1>7, <1>9, <2>1 DEF Reads
<1>12. Len(d.objects) = Len(w.objects) /\ d.objects[i] = Class(<<h>>)
  BY <1>2 DEF Reads, ObjectsOf, EntryOf
<1>13. ~(r.int < 0 \/ r.int >= Len(d.objects)) /\ r.int + 1 = i
  BY <1>2, <1>9, <1>12
<1>14. d.objects[i].kind \in {"class"}
  BY <1>12 DEF Class
<1>15. Reference(d, {"class"}) = [r EXCEPT !.val = Pointer(i)]
  <2>1. Reference(d, {"class"}) =
          IF r.int < 0 \/ r.int >= Len(d.objects) THEN Fail(d)
          ELSE IF d.objects[r.int + 1].kind \notin {"class"} THEN Fail(d)
          ELSE [r EXCEPT !.val = Pointer(r.int + 1)]
    BY <1>0, <1>10, ReferenceIs DEF r
  <2> QED
    BY <1>13, <1>14, <2>1
<1>16. c = [r EXCEPT !.val = Pointer(i)]
  <2>1. class[d] = Reference(d, {"class"})
    BY <1>0, <1>1, <1>8, ClassIs, ClassByIs
  <2> QED
    BY <1>15, <2>1
<1>17. Pointer(i) \in Values /\ Pointer(i).ref = i
  BY <1>5, ValuesType
<1>18. Reads(c, n) /\ c.ok /\ c.b = r.b /\ c.val = Pointer(i)
  BY <1>10, <1>11, <1>16, <1>17, ReadsVal
<1> QED
  BY <1>2, <1>3, <1>9, <1>17, <1>18 DEF KnownFound

(* A class chain is read back as it was written.                           *)
ReadsBack(names) ==
  \A d, w, n :
    /\ Wrote(w) /\ Len(w.strings) > 0 /\ Reads(d, w) /\ d.ok
    /\ n = appendClass[names][w] /\ PrefixOf(n.b, d.b) /\ Len(n.objects) <= Room(w.wide)
    => ClassFound(class[d], d, n, names)

LEMMA NewClassRead ==
  ASSUME NEW names, Named(names), names # <<>>, ReadsBack(Tail(names)),
         NEW d, NEW w, Wrote(w), Len(w.strings) > 0, Reads(d, w), d.ok,
         ~Contains(w.objects, Head(names)),
         NEW n, n = appendClass[names][w], PrefixOf(n.b, d.b), Len(n.objects) <= Room(w.wide)
  PROVE  ClassFound(class[d], d, n, names)
<1> DEFINE h == Head(names)
           m == appendName(w, h)
           slot == Len(d.objects) + 1
           c0 == NameAndVersion(Skip(d, 1), slot)
           e == class[c0]
<1>0. /\ w \in Writers /\ w.objects \in Seq(Nat) /\ w.b \in Seq(Nat) /\ d \in Decoders
      /\ Len(d.b) \in Nat /\ names \in Seq(Nat)
  BY DecoderType DEF Wrote, Writers, Reads, Named
<1>1. h \in Nat /\ h # 0 /\ h # At /\ Named(Tail(names))
  BY NamedParts
<1>2. n = appendClass[Tail(names)][m]
  <2>1. n = ClassWritten(appendClass, names, w)
    BY <1>0, AppendClassIs
  <2> QED
    BY <2>1 DEF ClassWritten
<1>3. /\ m \in Writers /\ m.strings = Append(w.strings, h) /\ m.objects = Append(w.objects, h) /\ m.wide = w.wide
  BY <1>1, AppendNameIs
<1>4. Longer(w, m) /\ Len(m.objects) = Len(w.objects) + 1 /\ m.objects[Len(w.objects) + 1] = h
  BY <1>1, LongerName
<1>5. Wrote(m) /\ Len(m.strings) > 0
  <2> HIDE DEF m, h
  <2> QED
    BY <1>1, <1>3, WroteName
<1>6. Wrote(n) /\ Longer(m, n)
  <2>1. GoodChain(Tail(names))
    BY <1>1, ChainGood
  <2> HIDE DEF m
  <2>2. GoodAfter(m, appendClass[Tail(names)][m])
    BY <1>5, <2>1 DEF GoodChain
  <2> QED
    BY <1>2, <2>2 DEF GoodAfter
<1>7. PrefixOf(m.b, d.b)
  <2>1. m.b \in Seq(Nat) /\ n.b \in Seq(Nat)
    BY <1>3, <1>6 DEF Wrote, Writers
  <2>2. Len(m.b) \in Nat /\ Len(n.b) \in Nat /\ PrefixOf(m.b, n.b)
    BY <1>6, <2>1, LenProperties DEF Longer
  <2> HIDE DEF m
  <2> QED
    BY <1>0, <2>2, PrefixTransitive
<1>8. Left(d) > 0 /\ Peek(d) = tagNew /\ c0.ok /\ c0.b = d.b /\ Reads(c0, m)
  BY <1>1, <1>7, NameRead
<1>9. ClassFound(e, c0, n, Tail(names))
  <2>1. n = appendClass[Tail(names)][m] /\ PrefixOf(n.b, c0.b) /\ Len(n.objects) <= Room(m.wide)
    BY <1>2, <1>3, <1>8
  <2> HIDE DEF m, c0, e
  <2>2. ClassFound(class[c0], c0, n, Tail(names))
    BY <1>5, <1>8, <2>1 DEF ReadsBack
  <2> QED
    BY <2>2 DEF e
<1>10. class[d] = [e EXCEPT !.val = Pointer(slot)]
  <2>1. class[d] = [Super(class, d) EXCEPT !.val = Pointer(slot)]
    BY <1>0, <1>8, ClassIs, ClassByIs
  <2>2. Super(class, d) = e
    BY <1>8 DEF Super
  <2> QED
    BY <2>1, <2>2
<1>11. slot = Len(w.objects) + 1 /\ slot \in Nat /\ Pointer(slot) \in Values /\ Pointer(slot).ref = slot
  <2>1. Len(d.objects) = Len(w.objects) /\ Len(w.objects) \in Nat
    BY <1>0, LenProperties DEF Reads, ObjectsOf
  <2>2. slot = Len(w.objects) + 1 /\ slot \in Nat
    BY <2>1
  <2> HIDE DEF slot
  <2> QED
    BY <2>2, ValuesType
<1>12. slot \in 1 .. Len(n.objects) /\ n.objects[slot] = h
  <2>1. PrefixOf(m.objects, n.objects) /\ Len(n.objects) \in Nat
    BY <1>6, LenProperties DEF Longer, Writers
  <2>2. slot \in 1 .. Len(m.objects)
    BY <1>4, <1>11
  <2> HIDE DEF m, slot
  <2>3. n.objects[slot] = m.objects[slot] /\ slot \in 1 .. Len(n.objects)
    BY <2>1, <2>2 DEF PrefixOf
  <2> QED
    BY <1>4, <1>11, <2>3
<1> HIDE DEF e, c0, slot, h, m
<1>13. e.ok /\ e.b = d.b /\ Reads(e, n)
  BY <1>8, <1>9 DEF ClassFound
<1>14. Reads(class[d], n) /\ class[d].ok /\ class[d].b = e.b /\ class[d].val = Pointer(slot)
  BY <1>10, <1>11, <1>13, ReadsVal
<1> QED
  BY <1>11, <1>12, <1>13, <1>14 DEF ClassFound, h

LEMMA ChainRead ==
  ASSUME NEW names, Named(names)
  PROVE  ReadsBack(names)
<1> DEFINE W == { x \in Seq(Nat) : ReadsBack(x) }
<1>1. ASSUME NEW x \in Seq(Nat), Named(x), x # <<>> => Tail(x) \in W PROVE x \in W
  <2> SUFFICES ASSUME NEW d, NEW w, NEW n, Wrote(w), Len(w.strings) > 0, Reads(d, w), d.ok,
                      n = appendClass[x][w], PrefixOf(n.b, d.b), Len(n.objects) <= Room(w.wide)
               PROVE  ClassFound(class[d], d, n, x)
    BY DEF ReadsBack
  <2>1. w \in Writers /\ w.objects \in Seq(Nat)
    BY DEF Wrote, Writers
  <2>2. n = ClassWritten(appendClass, x, w)
    BY <2>1, AppendClassIs
  <2>3. CASE x = <<>>
    <3>1. n = Emit(w, <<tagNil>>)
      BY <2>2, <2>3 DEF ClassWritten
    <3>2. ClassFound(class[d], d, n, <<>>)
      BY <2>1, <3>1, NilRead
    <3> QED
      BY <2>3, <3>2
  <2>4. CASE x # <<>> /\ Contains(w.objects, Head(x))
    <3> DEFINE h == Head(x)
    <3>1. h # 0
      BY <1>1, <2>4, NamedParts
    <3>2. n = Emit(w, Number(w, w.objects, h))
      BY <2>2, <2>4 DEF ClassWritten
    <3>3. n.objects = w.objects
      <4>1. Number(w, w.objects, h) \in Seq(Nat)
        BY <2>1, <2>4, NumberType
      <4> QED
        BY <2>1, <3>2, <4>1, EmitIs
    <3>4. Len(w.objects) <= Room(w.wide)
      BY <3>3
    <3>4a. Contains(w.objects, h)
      BY <2>4
    <3> HIDE DEF h
    <3> DEFINE c == class[d]
    <3>4b. c = class[d]
      OBVIOUS
    <3> HIDE DEF c
    <3>5. KnownFound(c, d, n, h)
      BY <3>1, <3>2, <3>4, <3>4a, <3>4b, KnownRead
    <3> QED
      BY <2>4, <3>4b, <3>5 DEF ClassFound, KnownFound, h
  <2>5. CASE x # <<>> /\ ~Contains(w.objects, Head(x))
    <3>1. ReadsBack(Tail(x))
      BY <1>1, <2>5
    <3> QED
      BY <1>1, <2>5, <3>1, NewClassRead
  <2> QED
    BY <2>3, <2>4, <2>5
<1> HIDE DEF W
<1>2. ChainStep(W)
  BY <1>1 DEF ChainStep
<1>3. names \in W
  BY <1>2, ByChain
<1> QED
  BY <1>3 DEF W

(* What comes ahead of an object's class.                                   *)
ObjectStarted(w) == Listing(Emit(appendSharedString(w, At), <<tagNew>>), 0)

LEMMA StartedType ==
  ASSUME NEW w \in Writers
  PROVE  ObjectStarted(w) \in Writers
<1> DEFINE w1 == appendSharedString(w, At)
           w2 == Emit(w1, <<tagNew>>)
<1>1. w1 \in Writers
  BY SharedStringType DEF At
<1>2. w2 \in Writers
  <2>1. <<tagNew>> \in Seq(Nat)
    BY DEF tagNew
  <2> HIDE DEF w1
  <2> QED
    BY <1>1, <2>1, EmitIs
<1> HIDE DEF w2
<1>3. Listing(w2, 0) \in Writers
  <2> DEFINE zero == 0
  <2>1. zero \in Nat
    OBVIOUS
  <2> HIDE DEF zero
  <2>2. Listing(w2, zero) \in Writers
    BY <1>2, <2>1, ListingIs
  <2> QED
    BY <2>2 DEF zero
<1> QED
  BY <1>3 DEF ObjectStarted, w1, w2

LEMMA AppendObjectIs ==
  ASSUME NEW w, NEW names
  PROVE  appendObject(w, names) = appendClass[names][ObjectStarted(w)]
BY Zenon DEF appendObject, ObjectStarted, Listing

LEMMA AppendObjectType ==
  ASSUME NEW w \in Writers, NEW names \in Seq(Nat)
  PROVE  appendObject(w, names) \in Writers
<1>1. ObjectStarted(w) \in Writers
  BY StartedType
<1>2. appendClass[names] \in [Writers -> Writers]
  BY AppendClassIs DEF ChainWriters
<1>3. appendClass[names][ObjectStarted(w)] \in Writers
  BY <1>1, <1>2
<1> QED
  BY <1>3, AppendObjectIs

(* The archive with k attributed strings open around the string to come.     *)
NestedBy(shape, g, k) ==
  IF k = 0 THEN Emit(Writer(shape.wide), Header) ELSE appendObject(g[k - 1], shape.wrappers[k])
Nesting(shape) ==
  LET upTo[k \in 0 .. Len(shape.wrappers)] ==
        IF k = 0 THEN Emit(Writer(shape.wide), Header)
        ELSE appendObject(upTo[k - 1], shape.wrappers[k])
  IN  upTo

LEMMA OpenedIs ==
  ASSUME NEW shape
  PROVE  Opened(shape) = appendObject(Nesting(shape)[Len(shape.wrappers)], shape.string)
BY Zenon DEF Opened, Nesting

LEMMA HeaderIsBytes ==
  Header = <<4, 1, Signature, tagInt16, 232, 3>>
<1>1. appendInt(1000) = <<tagInt16, byte(1000, 1), byte(1000, 256)>>
  BY SMT DEF appendInt
<1>2. byte(1000, 1) = 232 /\ byte(1000, 256) = 3
  BY SMT DEF byte
<1> DEFINE a == <<4, 1, Signature>>
           b == <<tagInt16, 232, 3>>
           c == <<4, 1, Signature, tagInt16, 232, 3>>
           u == a \o b
<1>3. Header = u
  <2>1. appendInt(1000) = b
    BY <1>1, <1>2, SMT
  <2>2. Header = a \o appendInt(1000)
    BY SMT DEF Header
  <2> HIDE DEF a, b
  <2> QED
    BY <2>1, <2>2, SMT
<1>4. /\ a \in Seq(Nat) /\ Len(a) = 3 /\ a[1] = 4 /\ a[2] = 1 /\ a[3] = Signature
  BY DEF Signature
<1>5. /\ b \in Seq(Nat) /\ Len(b) = 3 /\ b[1] = tagInt16 /\ b[2] = 232 /\ b[3] = 3
  BY DEF tagInt16
<1>6. /\ c \in Seq(Nat) /\ Len(c) = 6 /\ c[1] = 4 /\ c[2] = 1 /\ c[3] = Signature
      /\ c[4] = tagInt16 /\ c[5] = 232 /\ c[6] = 3
  BY DEF Signature, tagInt16
<1> HIDE DEF a, b, c
<1>7. u \in Seq(Nat) /\ Len(u) = Len(a) + Len(b)
      /\ \A i \in 1 .. Len(a) + Len(b) : u[i] = IF i <= Len(a) THEN a[i] ELSE b[i - Len(a)]
  <2>1. a \in Seq(Nat) /\ b \in Seq(Nat)
    BY <1>4, <1>5
  <2> QED
    BY <2>1, ConcatProperties
<1> HIDE DEF u
<1>8. Len(u) = 6 /\ \A i \in 1 .. 6 : u[i] = IF i <= 3 THEN a[i] ELSE b[i - 3]
  BY <1>4, <1>5, <1>7
<1>9. u[1] = a[1] /\ u[2] = a[2] /\ u[3] = a[3] /\ u[4] = b[1] /\ u[5] = b[2] /\ u[6] = b[3]
  BY <1>8
<1>10. \A i \in 1 .. Len(u) : u[i] = c[i]
  <2>1. \A i \in 1 .. 6 : i = 1 \/ i = 2 \/ i = 3 \/ i = 4 \/ i = 5 \/ i = 6
    OBVIOUS
  <2> QED
    BY <1>4, <1>5, <1>6, <1>8, <1>9, <2>1
<1>11. u = c
  <2>1. u \in Seq(Nat) /\ c \in Seq(Nat) /\ Len(u) = Len(c)
    BY <1>6, <1>7, <1>8
  <2> QED
    BY <1>10, <2>1, SeqEqual
<1> QED
  BY <1>3, <1>11 DEF c

Shaped(shape) == shape.wide \in BOOLEAN /\ shape.wrappers \in Seq(Seq(Nat))

LEMMA BlankWriter ==
  ASSUME NEW wide \in BOOLEAN
  PROVE  LET w == Emit(Writer(wide), Header) IN
         /\ w \in Writers /\ w.b = Header /\ w.strings = <<>> /\ w.objects = <<>> /\ w.wide = wide
<1> DEFINE v == Writer(wide)
<1>1. v \in Writers /\ v.b = <<>> /\ v.strings = <<>> /\ v.objects = <<>> /\ v.wide = wide
  BY DEF Writer, Writers
<1>2. Header \in Seq(Nat)
  BY HeaderIsBytes DEF Signature, tagInt16
<1>3. <<>> \o Header = Header
  BY <1>2, ConcatEmptySeq
<1> HIDE DEF v
<1>4. /\ Emit(v, Header) \in Writers /\ Emit(v, Header).b = v.b \o Header
      /\ Emit(v, Header).strings = v.strings
      /\ Emit(v, Header).objects = v.objects /\ Emit(v, Header).wide = v.wide
  BY <1>1, <1>2, EmitIs
<1> QED
  BY <1>1, <1>3, <1>4 DEF v

LEMMA NestedByType ==
  ASSUME NEW shape, Shaped(shape), NEW k \in 0 .. Len(shape.wrappers),
         NEW g, k # 0 => g[k - 1] \in Writers
  PROVE  NestedBy(shape, g, k) \in Writers
<1>1. CASE k = 0
  BY <1>1, BlankWriter DEF NestedBy, Shaped
<1>2. CASE k # 0
  <2>1. shape.wrappers[k] \in Seq(Nat)
    BY <1>2 DEF Shaped
  <2>2. g[k - 1] \in Writers
    BY <1>2
  <2>3. appendObject(g[k - 1], shape.wrappers[k]) \in Writers
    BY <2>1, <2>2, AppendObjectType
  <2> QED
    BY <1>2, <2>3 DEF NestedBy
<1> QED
  BY <1>1, <1>2

LEMMA NestedByLocal ==
  ASSUME NEW shape, NEW n \in Nat, NEW k \in 0 .. n, NEW g, NEW h,
         \A e \in 0 .. n : e < k => g[e] = h[e]
  PROVE  NestedBy(shape, g, k) = NestedBy(shape, h, k)
<1>1. k # 0 => g[k - 1] = h[k - 1]
  <2>1. k # 0 => k - 1 \in 0 .. n /\ k - 1 < k
    OBVIOUS
  <2> QED
    BY <2>1
<1> QED
  BY <1>1, Zenon DEF NestedBy

LEMMA NestingIs ==
  ASSUME NEW shape, Shaped(shape)
  PROVE  \A k \in 0 .. Len(shape.wrappers) :
           /\ Nesting(shape)[k] \in Writers
           /\ Nesting(shape)[k] = NestedBy(shape, Nesting(shape), k)
<1> DEFINE D == 0 .. Len(shape.wrappers)
           S == Writers
           step == [g \in [D -> S] |-> [k \in D |-> NestedBy(shape, g, k)]]
           size == [k \in D |-> k]
           Is(f) == f = [k \in D |-> NestedBy(shape, f, k)]
           up == Nesting(shape)
<1>0. Len(shape.wrappers) \in Nat
  BY LenProperties DEF Shaped
<1>1. S # {}
  BY BlankWriter DEF Shaped
<1>2. Recursion(step, size, D, S)
  <2>1. step \in [[D -> S] -> [D -> S]]
    <3>1. ASSUME NEW g \in [D -> S], NEW k \in D PROVE NestedBy(shape, g, k) \in S
      <4>1. k # 0 => k - 1 \in D
        BY <1>0
      <4>2. k # 0 => g[k - 1] \in Writers
        BY <4>1
      <4> QED
        BY <4>2, NestedByType
    <3> HIDE DEF D, S
    <3> QED
      BY <3>1
  <2>2. size \in [D -> Nat]
    BY <1>0
  <2>3. ASSUME NEW d \in D, NEW g \in [D -> S], NEW h \in [D -> S],
               \A e \in D : size[e] < size[d] => g[e] = h[e]
        PROVE  step[g][d] = step[h][d]
    <3>1. NestedBy(shape, g, d) = NestedBy(shape, h, d)
      BY <1>0, <2>3, NestedByLocal
    <3> HIDE DEF D, S
    <3> QED
      BY <3>1
  <2> HIDE DEF step, size, D, S
  <2> QED
    BY <2>1, <2>2, <2>3 DEF Recursion
<1>3. PICK t \in [D -> S] : t = step[t]
  <2> HIDE DEF step, size, D, S
  <2> QED
    BY <1>1, <1>2, RecursionEnds
<1>4. t = [k \in D |-> NestedBy(shape, t, k)]
  <2> HIDE DEF D, S
  <2>1. step[t] = [k \in D |-> NestedBy(shape, t, k)]
    BY Zenon
  <2> QED
    BY <1>3, <2>1, Zenon
<1>5. up = CHOOSE f : Is(f)
  BY Zenon DEF Nesting, NestedBy
<1>6. up = [k \in D |-> NestedBy(shape, up, k)]
  <2>1. Is(t)
    BY <1>4, Zenon
  <2> HIDE DEF Is, up
  <2>2. Is(up)
    BY <1>5, <2>1, Zenon
  <2> QED
    BY <2>2, Zenon DEF Is
<1>7. \A d \in D : size[d] = d /\ d \in Nat
  BY <1>0
<1>8. \A d \in D : \A g, h : (\A e \in D : e < d => g[e] = h[e]) => NestedBy(shape, g, d) = NestedBy(shape, h, d)
  BY <1>0, NestedByLocal
<1> HIDE DEF D, S, size, up
<1>9. \A d \in D : t[d] = NestedBy(shape, t, d)
  BY <1>4, Zenon
<1>10. \A d \in D : up[d] = NestedBy(shape, up, d)
  BY <1>6, Zenon
<1>11. \A d \in D : up[d] = t[d]
  <2>1. \A d \in D : (\A e \in D : e < d => up[e] = t[e]) => up[d] = t[d]
    BY <1>8, <1>9, <1>10, Zenon
  <2>2. Descends(D, size, up, t)
    BY <1>7, <2>1, Zenon DEF Descends
  <2> QED
    BY <2>2, SameBySize
<1>12. \A d \in D : up[d] \in S
  BY <1>3, <1>11, Zenon
<1> QED
  BY <1>10, <1>12, Zenon DEF D, S, up

LEMMA TypeAgain ==
  ASSUME NEW d, NEW w, Wrote(w), Reads(d, w), d.ok, Contains(w.strings, At),
         NEW n, n = appendSharedString(w, At)
  PROVE  /\ Wrote(n) /\ Longer(w, n) /\ n.objects = w.objects /\ n.strings = w.strings
         /\ PrefixOf(n.b, d.b) =>
              /\ typeEncoding(d).ok /\ typeEncoding(d).b = d.b /\ typeEncoding(d).val = Str(<<At>>)
              /\ Reads(typeEncoding(d), n)
<1>0. w \in Writers /\ w.strings \in Seq(Nat) /\ w.b \in Seq(Nat) /\ d \in Decoders
  BY DEF Wrote, Writers, Reads
<1> DEFINE s == <<refBase>>
<1>1. Place(w.strings, At) = 1 /\ w.strings[1] = At /\ Len(w.strings) >= 1
  <2>1. /\ Place(w.strings, At) \in 1 .. Len(w.strings)
        /\ \A j \in 1 .. Len(w.strings) : w.strings[j] = At => Place(w.strings, At) <= j
    BY <1>0, PlaceFirst
  <2>2. Len(w.strings) \in Nat /\ Len(w.strings) > 0
    BY <1>0, <2>1, LenProperties
  <2>3. w.strings[1] = At /\ 1 \in 1 .. Len(w.strings)
    BY <2>2 DEF Wrote
  <2> QED
    BY <2>1, <2>2, <2>3
<1>2. Number(w, w.strings, At) = s
  <2> DEFINE i == Place(w.strings, At)
             beyond == i - 1 - refOffset
  <2>1. Number(w, w.strings, At) = IF i <= refOffset THEN <<refBase + i - 1>>
                                   ELSE IF w.wide THEN ShortBytes(beyond) ELSE <<beyond>>
    BY NumberIs
  <2>2. i = 1 /\ i <= refOffset /\ refBase + i - 1 = refBase
    BY <1>1 DEF refOffset, refBase
  <2> HIDE DEF i, beyond
  <2> QED
    BY <2>1, <2>2
<1>3. s \in Seq(Nat) /\ Len(s) = 1 /\ s[1] = refBase
  BY DEF refBase
<1>4. Spelled(s, 1 - 1 - refOffset)
  <2> DEFINE i == 1
             c == refBase + i - 1
             v == i - 1 - refOffset
  <2>1. i \in Nat /\ 1 <= i /\ i <= 110
    OBVIOUS
  <2>2. c = refBase
    BY DEF refBase
  <2> HIDE DEF i
  <2>3. Spelled(<<c>>, v)
    BY <2>1, TagSpelled
  <2> QED
    BY <2>2, <2>3 DEF i
<1>5. n = Emit(w, s)
  BY <1>0, <1>2, SharedStringWritten DEF At
<1> HIDE DEF s
<1>6. /\ Wrote(n) /\ Longer(w, n) /\ n.objects = w.objects /\ n.strings = w.strings /\ n.b = w.b \o s
  BY <1>3, <1>5, WroteEmit
<1> SUFFICES ASSUME PrefixOf(n.b, d.b)
             PROVE  /\ typeEncoding(d).ok /\ typeEncoding(d).b = d.b /\ typeEncoding(d).val = Str(<<At>>)
                    /\ Reads(typeEncoding(d), n)
  BY <1>6
<1>7. Ahead(d, s)
  BY <1>0, <1>3, <1>6, AheadTaken DEF Reads
<1> DEFINE r == refIndex(d)
           one == 1
<1>8. one \in Nat /\ 1 <= one /\ Spelled(s, one - 1 - refOffset) /\ one - 1 = 0
  BY <1>4
<1> HIDE DEF one
<1>9. r.b = d.b /\ r.pos = d.pos + Len(s) /\ r.strings = d.strings /\ r.objects = d.objects /\ r.int = one - 1
  BY <1>0, <1>7, <1>8, RefIndexReads
<1>10. r.ok
  <2>1. r.ok = d.ok
    BY <1>0, <1>7, <1>8, RefIndexReads
  <2> QED
    BY <2>1
<1>11. r \in Decoders
  BY <1>0, RefIndexAfter
<1>12. Left(d) > 0 /\ Peek(d) = refBase
  BY <1>0, <1>3, <1>4, <1>7 DEF Spelled
<1> HIDE DEF r
<1>13. Reads(r, n)
  <2>1. Len(n.b) = d.pos + Len(s)
    <3>1. s \in Seq(Nat)
      BY <1>3
    <3>2. Len(w.b \o s) = Len(w.b) + Len(s)
      BY <3>1, <1>0, LenConcat
    <3> QED
      BY <1>6, <3>2 DEF Reads
  <2> QED
    BY <1>6, <1>9, <1>11, <2>1 DEF Reads
<1>14. Len(d.strings) = Len(w.strings) /\ d.strings[1] = <<At>>
  BY <1>1 DEF Reads, StringsOf
<1>15. r.int = 0 /\ ~(r.int < 0 \/ r.int >= Len(d.strings)) /\ r.int + 1 = 1
  BY <1>1, <1>8, <1>9, <1>14
<1>16. typeEncoding(d) = sharedString(d)
  <2>1. Peek(d) >= refBase
    BY <1>12 DEF refBase
  <2> QED
    BY <1>0, <1>12, <2>1, TypeEncodingIs
<1>17. sharedString(d) = [r EXCEPT !.val = Str(<<At>>)]
  <2>1. Peek(d) \notin {tagNil, tagNew}
    BY <1>12 DEF refBase, tagNil, tagNew
  <2>2. sharedString(d) = IF ~r.ok THEN r
                          ELSE IF r.int < 0 \/ r.int >= Len(d.strings) THEN Fail(d)
                          ELSE [r EXCEPT !.val = Str(d.strings[r.int + 1])]
    BY <1>0, <1>12, <2>1, SharedStringIs DEF r
  <2> QED
    BY <1>10, <1>14, <1>15, <2>2
<1>18. Str(<<At>>) \in Values
  <2>1. <<At>> \in Seq(Nat)
    BY DEF At
  <2> QED
    BY <2>1, ValuesType
<1> DEFINE x == Str(<<At>>)
<1>19. typeEncoding(d) = [r EXCEPT !.val = x] /\ x \in Values
  BY <1>16, <1>17, <1>18
<1> HIDE DEF x
<1>20. /\ Reads(typeEncoding(d), n) /\ typeEncoding(d).ok /\ typeEncoding(d).b = r.b /\ typeEncoding(d).val = x
  BY <1>10, <1>13, <1>19, ReadsVal
<1> QED
  BY <1>9, <1>20 DEF x

LEMMA TypeFirstWritten ==
  ASSUME NEW w, Wrote(w), ~Contains(w.strings, At), NEW n, n = appendSharedString(w, At)
  PROVE  /\ Wrote(n) /\ Longer(w, n) /\ n.b = w.b \o NewString(At)
         /\ n.strings = Append(w.strings, At) /\ Len(n.strings) > 0 /\ n.objects = w.objects
<1> DEFINE s == NewString(At)
           e == Emit(w, s)
<1>0. /\ w \in Writers /\ w.strings \in Seq(Nat) /\ w.b \in Seq(Nat) /\ w.objects \in Seq(Nat) /\ At \in Nat
  BY DEF Wrote, Writers, At
<1>1. s \in Seq(Nat) /\ Len(s) = 3
  BY <1>0 DEF NewString, tagNew
<1>2. n = Naming(e, At)
  BY <1>0, SharedStringWritten
<1>3. /\ e \in Writers /\ e.b = w.b \o s /\ e.strings = w.strings /\ e.objects = w.objects /\ Longer(w, e)
  BY <1>0, <1>1, EmitIs, LongerEmit
<1> HIDE DEF e
<1>4. /\ n \in Writers /\ n.b = e.b /\ n.objects = e.objects
      /\ n.strings = Append(e.strings, At) /\ n.wide = e.wide
  <2> DEFINE a == At
  <2>1. a \in Nat /\ n = Naming(e, a)
    BY <1>0, <1>2
  <2> HIDE DEF a
  <2>2. /\ Naming(e, a) \in Writers /\ Naming(e, a).b = e.b /\ Naming(e, a).objects = e.objects
        /\ Naming(e, a).strings = Append(e.strings, a) /\ Naming(e, a).wide = e.wide
    BY <1>3, <2>1, NamingIs
  <2>3. n.strings = Append(e.strings, a)
    BY <2>1, <2>2
  <2> QED
    BY <2>1, <2>2, <2>3 DEF a
<1>5. w.strings = <<>>
  <2>1. Len(w.strings) = 0
    <3> SUFFICES ASSUME Len(w.strings) # 0 PROVE FALSE
      OBVIOUS
    <3>1. Len(w.strings) \in Nat
      BY <1>0, LenProperties
    <3>2. Len(w.strings) > 0
      BY <3>1
    <3>3. w.strings[1] = At /\ 1 \in 1 .. Len(w.strings)
      BY <3>1, <3>2 DEF Wrote
    <3> QED
      BY <3>3 DEF Contains
  <2> QED
    BY <1>0, <2>1, EmptySeq
<1>6. n.strings \in Seq(Nat) /\ Len(n.strings) = 1 /\ n.strings[1] = At
  BY <1>0, <1>3, <1>4, <1>5
<1>7. Wrote(n)
  <2>1. \A i \in 1 .. Len(n.strings) : n.strings[i] = At
    <3>1. \A i \in 1 .. Len(n.strings) : i = 1
      BY <1>6
    <3> QED
      BY <1>6, <3>1
  <2> QED
    BY <1>4, <1>6, <2>1 DEF Wrote
<1>8. Longer(w, n)
  BY <1>3, <1>4 DEF Longer
<1> QED
  BY <1>3, <1>4, <1>6, <1>7, <1>8

(* The type of an object, however it is written.                            *)
LEMMA TypeWritten ==
  ASSUME NEW w, Wrote(w), NEW n, n = appendSharedString(w, At)
  PROVE  Wrote(n) /\ Longer(w, n) /\ n.objects = w.objects /\ Len(n.strings) > 0
<1>0. w \in Writers /\ w.strings \in Seq(Nat) /\ At \in Nat
  BY DEF Wrote, Writers, At
<1>1. CASE ~Contains(w.strings, At)
  BY <1>1, TypeFirstWritten
<1>2. CASE Contains(w.strings, At)
  <2> DEFINE s == Number(w, w.strings, At)
  <2>1. s \in Seq(Nat)
    BY <1>0, <1>2, NumberType
  <2>2. n = Emit(w, s)
    BY <1>0, <1>2, SharedStringWritten
  <2> HIDE DEF s
  <2>3. Wrote(n) /\ Longer(w, n) /\ n.strings = w.strings /\ n.objects = w.objects
    BY <2>1, <2>2, WroteEmit
  <2>4. Len(w.strings) > 0
    <3>1. PICK i \in 1 .. Len(w.strings) : w.strings[i] = At
      BY <1>2 DEF Contains
    <3> QED
      BY <1>0, <3>1, LenProperties
  <2> QED
    BY <2>3, <2>4
<1> QED
  BY <1>1, <1>2

LEMMA TypeFirst ==
  ASSUME NEW d, NEW w, Wrote(w), Reads(d, w), d.ok, ~Contains(w.strings, At),
         NEW n, n = appendSharedString(w, At), PrefixOf(n.b, d.b)
  PROVE  /\ typeEncoding(d).ok /\ typeEncoding(d).b = d.b /\ typeEncoding(d).val = Str(<<At>>)
         /\ Reads(typeEncoding(d), n)
<1> DEFINE s == NewString(At)
           t == typeEncoding(d)
<1>0. /\ w \in Writers /\ w.strings \in Seq(Nat) /\ w.b \in Seq(Nat) /\ w.objects \in Seq(Nat)
      /\ d \in Decoders /\ At \in Nat /\ d.strings \in Seq(Seq(Nat))
  BY DecoderType DEF Wrote, Writers, Reads, At
<1>1. s \in Seq(Nat) /\ Len(s) = 3
  BY <1>0 DEF NewString, tagNew
<1>4. /\ n.b = w.b \o s /\ n.objects = w.objects /\ n.strings = Append(w.strings, At)
  BY TypeFirstWritten
<1> SUFFICES t.ok /\ t.b = d.b /\ t.val = Str(<<At>>) /\ Reads(t, n)
  OBVIOUS
<1> HIDE DEF s
<1>9. Ahead(d, s)
  BY <1>0, <1>1, <1>4, AheadTaken DEF Reads
<1>10. /\ Left(d) > 0 /\ Peek(d) = tagNew
       /\ sharedString(d) = Make(d.b, d.pos + 3, Append(d.strings, <<At>>), d.objects, d.ok, 1, Str(<<At>>))
  BY <1>0, <1>9, NewStringRead DEF s
<1>11. t = sharedString(d)
  <2>1. Peek(d) \in {tagNew, tagNil}
    BY <1>10
  <2> QED
    BY <1>0, <1>10, <2>1, TypeEncodingIs
<1>12. t \in Decoders
  BY <1>0, TypeEncodingAfter
<1> HIDE DEF t
<1>13. /\ t.b = d.b /\ t.pos = d.pos + 3 /\ t.strings = Append(d.strings, <<At>>)
       /\ t.objects = d.objects /\ t.val = Str(<<At>>) /\ t.ok
  <2> DEFINE one == <<At>>
             p == d.pos + 3
             ss == Append(d.strings, one)
             u == Str(one)
             i == 1
             true == TRUE
  <2>0. t = Make(d.b, p, ss, d.objects, true, i, u)
    BY <1>10, <1>11
  <2> HIDE DEF one, p, ss, u, i, true
  <2>1. t.b = d.b /\ t.pos = p /\ t.strings = ss /\ t.objects = d.objects /\ t.val = u /\ t.ok = true
    BY <2>0, MadeFields
  <2>2. t.ok
    BY <2>1 DEF true
  <2> QED
    BY <2>1, <2>2 DEF one, p, ss, u
<1>14. Reads(t, n)
  <2>1. t.pos = Len(n.b)
    <3>1. Len(w.b \o s) = Len(w.b) + Len(s)
      BY <1>0, <1>1, LenConcat
    <3> QED
      BY <1>1, <1>4, <1>13, <3>1 DEF Reads
  <2>2. StringsOf(t.strings, n.strings)
    <3>1. StringsOf(d.strings, w.strings)
      BY DEF Reads
    <3> QED
      BY <1>0, <1>4, <1>13, <3>1, StringsMore
  <2>3. ObjectsOf(t.objects, n.objects)
    BY <1>4, <1>13 DEF Reads
  <2> QED
    BY <1>12, <1>13, <2>1, <2>2, <2>3 DEF Reads
<1> QED
  BY <1>13, <1>14

LEMMA TypeRead ==
  ASSUME NEW d, NEW w, Wrote(w), Reads(d, w), d.ok,
         NEW n, n = appendSharedString(w, At), PrefixOf(n.b, d.b)
  PROVE  /\ typeEncoding(d).ok /\ typeEncoding(d).b = d.b /\ typeEncoding(d).val = Str(<<At>>)
         /\ Reads(typeEncoding(d), n)
<1>1. CASE Contains(w.strings, At)
  BY <1>1, TypeAgain
<1>2. CASE ~Contains(w.strings, At)
  BY <1>2, TypeFirst
<1> QED
  BY <1>1, <1>2

(* What comes ahead of an object's class is good too.                       *)
LEMMA StartedGood ==
  ASSUME NEW w, Wrote(w), NEW n, n = ObjectStarted(w)
  PROVE  /\ Wrote(n) /\ Longer(w, n) /\ Len(n.strings) > 0
         /\ n.b = appendSharedString(w, At).b \o <<tagNew>>
         /\ n.strings = appendSharedString(w, At).strings /\ n.objects = Append(w.objects, 0)
<1> DEFINE t == appendSharedString(w, At)
           s == <<tagNew>>
           e == Emit(t, s)
           z == 0
<1>1. Wrote(t) /\ Longer(w, t) /\ t.objects = w.objects /\ Len(t.strings) > 0
  BY TypeWritten
<1>2. s \in Seq(Nat) /\ z \in Nat
  BY DEF tagNew
<1>3. n = Listing(e, z)
  BY DEF ObjectStarted
<1> HIDE DEF t, s, z
<1>4. /\ Wrote(e) /\ Longer(t, e) /\ e.strings = t.strings /\ e.objects = t.objects /\ e.b = t.b \o s
  BY <1>1, <1>2, WroteEmit
<1> HIDE DEF e
<1>5. e \in Writers /\ e.objects \in Seq(Nat)
  BY <1>4 DEF Wrote, Writers
<1>6. /\ n \in Writers /\ n.b = e.b /\ n.strings = e.strings
      /\ n.objects = Append(e.objects, z) /\ n.wide = e.wide
  BY <1>2, <1>3, <1>5, ListingIs
<1>7. PrefixOf(e.objects, n.objects)
  BY <1>2, <1>5, <1>6, PrefixOfAppend
<1>8. PrefixOf(e.b, n.b)
  <2>1. Len(e.b) \in Nat
    BY <1>5, LenProperties DEF Writers
  <2> QED
    BY <1>6, <2>1, PrefixOfItself
<1>9. Longer(e, n)
  BY <1>5, <1>6, <1>7, <1>8 DEF Longer
<1>10. Longer(w, n)
  <2>1. Longer(w, e)
    BY <1>1, <1>4, LongerTransitive
  <2> QED
    BY <1>9, <2>1, LongerTransitive
<1>11. Wrote(n)
  <2>1. \A i \in 1 .. Len(n.strings) : n.strings[i] = At \/ Contains(n.objects, n.strings[i])
    <3> TAKE i \in 1 .. Len(n.strings)
    <3>1. n.strings[i] = At \/ Contains(e.objects, n.strings[i])
      BY <1>4, <1>6 DEF Wrote
    <3> DEFINE y == n.strings[i]
    <3>2. y = At \/ Contains(e.objects, y)
      BY <3>1
    <3> HIDE DEF y
    <3>3. Contains(Append(e.objects, z), y) <=> Contains(e.objects, y) \/ y = z
      BY <1>2, <1>5, ContainsMore
    <3>4. y = At \/ Contains(n.objects, y)
      BY <1>6, <3>2, <3>3
    <3> QED
      BY <3>4 DEF y
  <2>2. Len(n.strings) > 0 => n.strings[1] = At
    BY <1>4, <1>6 DEF Wrote
  <2> QED
    BY <1>6, <2>1, <2>2 DEF Wrote
<1> QED
  BY <1>1, <1>4, <1>6, <1>10, <1>11 DEF t, s, z

(* The decoder behind the tag of an object, and the object's number.         *)
Inside(d) == Skip(typeEncoding(d), 1)

StartFound(d, w, n) ==
  /\ Inside(d) \in Decoders /\ Inside(d).b = d.b /\ Len(Inside(d).objects) = Len(w.objects)
  /\ Reserve(Inside(d)).ok /\ Reserve(Inside(d)).b = d.b /\ Reads(Reserve(Inside(d)), n)
  /\ typedValue(d, newObject) = newObject[Inside(d)]

LEMMA StartedRead ==
  ASSUME NEW d, NEW w, Wrote(w), Reads(d, w), d.ok,
         NEW n, n = ObjectStarted(w), PrefixOf(n.b, d.b)
  PROVE  StartFound(d, w, n)
<1> DEFINE t == typeEncoding(d)
           s == appendSharedString(w, At)
           o == Inside(d)
           e == Reserve(o)
           tag == tagNew
<1>0. d \in Decoders /\ w \in Writers /\ Len(d.b) \in Nat
  BY DecoderType DEF Reads, Wrote
<1>1. Wrote(s) /\ s.objects = w.objects
  BY TypeWritten
<1>2. /\ Wrote(n) /\ n.b = s.b \o <<tag>> /\ n.strings = s.strings /\ n.objects = Append(w.objects, 0)
  BY StartedGood
<1>3. s \in Writers /\ s.b \in Seq(Nat) /\ tag \in Nat
  BY <1>1 DEF Wrote, Writers, tagNew
<1> HIDE DEF tag
<1>4. PrefixOf(s.b, d.b)
  <2> DEFINE x == s.b
             one == <<tag>>
  <2>1. x \in Seq(Nat) /\ one \in Seq(Nat)
    BY <1>3
  <2> HIDE DEF s, one, x
  <2>2. PrefixOf(x, x \o one) /\ Len(x \o one) \in Nat /\ Len(x) \in Nat
    BY <2>1, PrefixOfConcat, LenConcat
  <2>3. PrefixOf(x \o one, d.b)
    BY <1>2 DEF x, one
  <2>4. PrefixOf(x, d.b)
    BY <1>0, <2>2, <2>3, PrefixTransitive
  <2> QED
    BY <2>4 DEF x
<1>5. t.ok /\ t.b = d.b /\ t.val = Str(<<At>>) /\ Reads(t, s)
  <2> HIDE DEF t, s
  <2>1. s = appendSharedString(w, At)
    BY DEF s
  <2>2. /\ typeEncoding(d).ok /\ typeEncoding(d).b = d.b /\ typeEncoding(d).val = Str(<<At>>)
        /\ Reads(typeEncoding(d), s)
    BY <1>4, <2>1, TypeRead
  <2> QED
    BY <2>2 DEF t
<1>6. o = Skip(t, 1)
  BY DEF Inside
<1> HIDE DEF t, s, o
<1>7. /\ Left(t) > 0 /\ Peek(t) = tag /\ t \in Decoders
      /\ o \in Decoders /\ o.pos = Len(s.b \o <<tag>>) /\ o.b = t.b
      /\ o.strings = t.strings /\ o.objects = t.objects /\ o.ok = t.ok
  <2>1. PrefixOf(s.b \o <<tag>>, t.b)
    BY <1>2, <1>5
  <2> QED
    BY <1>3, <1>5, <1>6, <2>1, ReadsTag
<1>8. o.ok
  BY <1>5, <1>7
<1>9. /\ e = More(o, Object(<<>>)) /\ Object(<<>>) \in Entries
      /\ e \in Decoders /\ e.b = o.b /\ e.pos = o.pos /\ e.ok = o.ok /\ e.strings = o.strings
  BY <1>7, ReserveIs
<1> DEFINE x == Object(<<>>)
<1>10. x \in Entries /\ x.kind = "object"
  BY <1>9 DEF Object
<1> HIDE DEF x, e
<1>11. e.objects = Append(o.objects, x) /\ o.objects \in Seq(Entries)
  BY <1>7, <1>9, <1>10, MoreType, DecoderType DEF x
<1>12. ObjectsOf(o.objects, w.objects) /\ w.objects \in Seq(Nat)
  BY <1>0, <1>1, <1>5, <1>7 DEF Reads, Writers
<1>13. ObjectsOf(e.objects, n.objects)
  <2> DEFINE p == o.objects
             q == Append(p, x)
             z == 0
             v == w.objects
  <2>1. /\ p \in Seq(Entries) /\ q \in Seq(Entries) /\ Len(q) = Len(p) + 1
        /\ (\A i \in 1 .. Len(p) : q[i] = p[i]) /\ q[Len(p) + 1] = x
    BY <1>10, <1>11, AppendProperties
  <2>2. EntryOf(x, z) /\ z \in Nat
    BY <1>10 DEF EntryOf
  <2>3. v \in Seq(Nat) /\ ObjectsOf(p, v)
    BY <1>12
  <2> HIDE DEF p, q, z, v
  <2>4. ObjectsOf(q, Append(v, z))
    BY <2>1, <2>2, <2>3, ObjectsMore
  <2> QED
    BY <1>2, <1>11, <2>4 DEF p, q, z, v
<1>14. StringsOf(e.strings, n.strings)
  BY <1>2, <1>5, <1>7, <1>9 DEF Reads
<1>15. Reads(e, n)
  BY <1>2, <1>5, <1>7, <1>9, <1>13, <1>14 DEF Reads
<1>16. typedValue(d, newObject) = newObject[o]
  <2>1. typedValue(d, newObject) = value(t, t.val.str, newObject)
    BY <1>5 DEF typedValue, Then, t
  <2>2. t.val.str = <<At>>
    BY <1>5 DEF Str
  <2>3. value(t, t.val.str, newObject) = objectValue(t, newObject)
    BY <2>2, ValueIs
  <2>4. objectValue(t, newObject) = newObject[Skip(t, 1)]
    BY <1>7, ObjectValueIs DEF tag
  <2> QED
    BY <1>6, <2>1, <2>3, <2>4
<1>17. Len(o.objects) = Len(w.objects)
  BY <1>12 DEF ObjectsOf
<1>18. e.ok
  BY <1>8, <1>9
<1> QED
  BY <1>5, <1>7, <1>9, <1>15, <1>16, <1>17, <1>18 DEF StartFound, o, e

(* An object leaves a good archive, with the object at its number.           *)
LEMMA ObjectGood ==
  ASSUME NEW w, Wrote(w), NEW names, Named(names), NEW n, n = appendObject(w, names)
  PROVE  /\ Wrote(n) /\ Longer(w, n)
         /\ n = appendClass[names][ObjectStarted(w)] /\ Longer(ObjectStarted(w), n)
         /\ Wrote(ObjectStarted(w)) /\ Len(ObjectStarted(w).strings) > 0
         /\ Len(w.objects) + 1 \in 1 .. Len(n.objects) /\ n.objects[Len(w.objects) + 1] = 0
<1> DEFINE m == ObjectStarted(w)
           slot == Len(w.objects) + 1
           z == 0
<1>1. Wrote(m) /\ Longer(w, m) /\ Len(m.strings) > 0 /\ m.objects = Append(w.objects, z)
  BY StartedGood
<1>2. n = appendClass[names][m]
  BY AppendObjectIs
<1>3. w.objects \in Seq(Nat) /\ z \in Nat /\ Len(w.objects) \in Nat
  BY LenProperties DEF Wrote, Writers
<1> HIDE DEF m, z
<1>4. Wrote(n) /\ Longer(m, n)
  <2>1. GoodChain(names)
    BY ChainGood
  <2>2. GoodAfter(m, appendClass[names][m])
    BY <1>1, <2>1 DEF GoodChain
  <2> QED
    BY <1>2, <2>2 DEF GoodAfter
<1>5. Len(m.objects) = slot /\ m.objects[slot] = z
  BY <1>1, <1>3, PrefixOfAppend
<1>6. PrefixOf(m.objects, n.objects) /\ Len(n.objects) \in Nat
  BY <1>4, LenProperties DEF Longer, Writers
<1>7. slot \in 1 .. Len(m.objects)
  BY <1>3, <1>5
<1> HIDE DEF slot
<1>8. slot \in 1 .. Len(n.objects) /\ n.objects[slot] = z
  <2>1. n.objects[slot] = m.objects[slot]
    BY <1>6, <1>7 DEF PrefixOf
  <2>2. Len(m.objects) <= Len(n.objects) /\ Len(m.objects) \in Nat
    BY <1>3, <1>5, <1>6 DEF PrefixOf, slot
  <2> QED
    BY <1>5, <1>6, <1>7, <2>1, <2>2
<1>9. Longer(w, n)
  BY <1>1, <1>4, LongerTransitive
<1> QED
  BY <1>1, <1>2, <1>4, <1>8, <1>9 DEF m, slot, z

(* c is the decoder that has read an object's class, before its contents.    *)
ObjectFound(c, d, slot, n, h) ==
  /\ c.ok /\ c.b = d.b /\ Reads(c, n)
  /\ slot \in 1 .. Len(n.objects) /\ c.objects[slot] = Object(<<h>>)
  /\ typedValue(d, newObject) = objectContents(c, slot, newObject)

LEMMA ObjectRead ==
  ASSUME NEW d, NEW w, Wrote(w), Reads(d, w), d.ok, NEW names, Named(names), names # <<>>,
         NEW n, n = appendObject(w, names), PrefixOf(n.b, d.b), Len(n.objects) <= Room(w.wide)
  PROVE  ObjectFound(Before(Inside(d)), d, Len(w.objects) + 1, n, Head(names))
<1> DEFINE m == ObjectStarted(w)
           o == Inside(d)
           e == Reserve(o)
           k == ItsClass(o)
           c == Before(o)
           slot == Len(w.objects) + 1
           h == Head(names)
<1>0. d \in Decoders /\ w \in Writers /\ Len(d.b) \in Nat /\ h \in Nat /\ h # 0
  BY DecoderType, NamedParts DEF Reads, Wrote
<1>1. /\ Wrote(n) /\ n = appendClass[names][m] /\ Longer(m, n) /\ Wrote(m) /\ Len(m.strings) > 0
      /\ slot \in 1 .. Len(n.objects) /\ n.objects[slot] = 0 /\ Longer(w, n) /\ slot \in Nat
  BY ObjectGood
<1> HIDE DEF h, slot
<1>2. PrefixOf(m.b, d.b)
  <2> HIDE DEF m
  <2>1. m.b \in Seq(Nat) /\ n.b \in Seq(Nat) /\ PrefixOf(m.b, n.b)
    BY <1>1 DEF Longer, Writers
  <2>2. Len(m.b) \in Nat /\ Len(n.b) \in Nat
    BY <2>1, LenProperties
  <2> QED
    BY <1>0, <2>1, <2>2, PrefixTransitive
<1>3. StartFound(d, w, m)
  <2>1. m = ObjectStarted(w)
    OBVIOUS
  <2> HIDE DEF m
  <2> QED
    BY <1>2, <2>1, StartedRead
<1>4. /\ o \in Decoders /\ o.b = d.b /\ Len(o.objects) = Len(w.objects)
      /\ e.ok /\ e.b = d.b /\ Reads(e, m) /\ typedValue(d, newObject) = newObject[o]
  BY <1>3 DEF StartFound
<1>5. ClassFound(k, e, n, names)
  <2>1. m.wide = w.wide
    BY <1>1 DEF Longer
  <2>2. n = appendClass[names][m] /\ PrefixOf(n.b, e.b) /\ Len(n.objects) <= Room(m.wide)
    BY <1>1, <1>4, <2>1
  <2>3. k = class[e]
    BY DEF ItsClass
  <2>4. ReadsBack(names)
    BY ChainRead
  <2> HIDE DEF m, e, k
  <2>5. ClassFound(class[e], e, n, names)
    BY <1>1, <1>4, <2>2, <2>4 DEF ReadsBack
  <2> QED
    BY <2>3, <2>5
<1>6. /\ k.ok /\ k.b = d.b /\ Reads(k, n) /\ k.val.ref \in 1 .. Len(n.objects)
      /\ n.objects[k.val.ref] = h
  BY <1>4, <1>5 DEF ClassFound, h
<1>7. c = ofClass(k, slot)
  BY <1>4 DEF Before, slot
<1>8. newObject[o] = objectContents(c, slot, newObject)
  <2>1. newObject[o] = NewBy(newObject, o)
    BY <1>4, NewIs
  <2>2. NewBy(newObject, o) = objectContents(Before(o), Len(o.objects) + 1, newObject)
    BY <1>6, NewByIs
  <2> QED
    BY <1>4, <2>1, <2>2 DEF slot
<1> HIDE DEF k, c, o, e, m
<1>9. k \in Decoders /\ ObjectsOf(k.objects, n.objects) /\ Len(k.objects) = Len(n.objects)
  BY <1>6 DEF Reads, ObjectsOf
<1>10. k.objects[k.val.ref] = Class(<<h>>) /\ k.val.ref \in 1 .. Len(k.objects)
  <2>1. EntryOf(k.objects[k.val.ref], n.objects[k.val.ref])
    BY <1>6, <1>9 DEF ObjectsOf
  <2> QED
    BY <1>0, <1>6, <1>9, <2>1 DEF EntryOf
<1> DEFINE x == Object(<<h>>)
<1>11. k.objects[k.val.ref].name = <<h>>
  BY <1>10 DEF Class
<1>12. /\ c = Changed(k, slot, x) /\ Fits(k.objects, slot, x)
  <2>1. /\ ofClass(k, slot) = Changed(k, slot, Object(k.objects[k.val.ref].name))
        /\ Fits(k.objects, slot, Object(k.objects[k.val.ref].name))
    BY <1>1, <1>9, <1>10, OfClassIs
  <2> QED
    BY <1>7, <1>11, <2>1
<1>13. x.kind = "object"
  BY DEF Object
<1> HIDE DEF x
<1>14. /\ c \in Decoders /\ c.b = k.b /\ c.pos = k.pos /\ c.strings = k.strings /\ c.ok = k.ok
       /\ Len(c.objects) = Len(k.objects)
       /\ \A i \in 1 .. Len(k.objects) : c.objects[i] = IF i = slot THEN x ELSE k.objects[i]
  BY <1>1, <1>9, <1>12, ChangedType
<1>15. ObjectsOf(c.objects, n.objects)
  <2>1. \A i \in 1 .. Len(n.objects) : EntryOf(c.objects[i], n.objects[i])
    <3> TAKE i \in 1 .. Len(n.objects)
    <3>1. CASE i = slot
      <4>1. c.objects[i] = x /\ n.objects[i] = 0
        BY <1>1, <1>9, <1>14, <3>1
      <4> QED
        BY <1>13, <4>1 DEF EntryOf
    <3>2. CASE i # slot
      <4>1. c.objects[i] = k.objects[i] /\ EntryOf(k.objects[i], n.objects[i])
        BY <1>9, <1>14, <3>2 DEF ObjectsOf
      <4> QED
        BY <4>1
    <3> QED
      BY <3>1, <3>2
  <2> QED
    BY <1>9, <1>14, <2>1 DEF ObjectsOf
<1>16. Reads(c, n) /\ c.b = d.b
  BY <1>6, <1>14, <1>15 DEF Reads
<1>17. c.ok
  BY <1>6, <1>14
<1>18. c.objects[slot] = x
  BY <1>1, <1>9, <1>14
<1> QED
  BY <1>1, <1>4, <1>8, <1>16, <1>17, <1>18 DEF ObjectFound, x, c, h, slot, o

(* ------------------------------- the text ------------------------------ *)

LEMMA EndOf ==
  ASSUME NEW x \in Seq(Nat), NEW t \in Seq(Nat)
  PROVE  SubSeq(x \o t, Len(x) + 1, Len(x) + Len(t)) = t
<1> DEFINE y == x \o t
           m == Len(x) + 1
           n == Len(x) + Len(t)
           u == SubSeq(y, m, n)
<1>1. /\ y \in Seq(Nat) /\ Len(y) = n /\ Len(x) \in Nat /\ Len(t) \in Nat
      /\ \A i \in 1 .. n : y[i] = IF i <= Len(x) THEN x[i] ELSE t[i - Len(x)]
  BY ConcatProperties
<1> HIDE DEF y
<1>2. m \in Int /\ n \in Int /\ \A i \in m .. n : y[i] \in Nat
  BY <1>1
<1>3. u \in Seq(Nat) /\ Len(u) = (IF m <= n THEN n - m + 1 ELSE 0) /\ \A i \in 1 .. n - m + 1 : u[i] = y[m + i - 1]
  <2> HIDE DEF m, n
  <2> QED
    BY <1>2, SubSeqProperties
<1> HIDE DEF u
<1>4. Len(u) = Len(t)
  BY <1>1, <1>3
<1>5. \A i \in 1 .. Len(u) : u[i] = t[i]
  <2> TAKE i \in 1 .. Len(u)
  <2>1. m + i - 1 = Len(x) + i /\ i \in 1 .. n - m + 1 /\ Len(x) + i \in 1 .. n /\ ~(Len(x) + i <= Len(x))
    BY <1>1, <1>4
  <2>2. u[i] = y[Len(x) + i]
    BY <1>3, <2>1
  <2>3. Len(x) + i - Len(x) = i
    BY <1>1
  <2> QED
    BY <1>1, <2>1, <2>2, <2>3
<1>6. u = t
  BY <1>3, <1>4, <1>5, SeqEqual
<1> QED
  BY <1>6 DEF u, y, m, n

(* The same bytes lie there in both.                                        *)
SameCut(x, y, i, j) == SubSeq(y, i + 1, j) = SubSeq(x, i + 1, j)

LEMMA CutSame ==
  ASSUME NEW x \in Seq(Nat), NEW y \in Seq(Nat), PrefixOf(x, y), NEW i \in Nat, NEW j \in Nat, j <= Len(x)
  PROVE  SameCut(x, y, i, j)
BY CutOf DEF SameCut

LEMMA SpelledRead ==
  ASSUME NEW d \in Decoders, NEW s, NEW v, Spelled(s, v), Ahead(d, s)
  PROVE  /\ readInt(d).b = d.b /\ readInt(d).pos = d.pos + Len(s) /\ readInt(d).int = v
         /\ readInt(d).objects = d.objects /\ readInt(d).ok = d.ok
<1> DEFINE p == d.pos + Len(s)
<1>1. readInt(d) = Make(d.b, p, d.strings, d.objects, d.ok, v, d.val)
  BY DEF Spelled
<1> HIDE DEF p
<1>2. /\ readInt(d).b = d.b /\ readInt(d).pos = p /\ readInt(d).int = v
      /\ readInt(d).objects = d.objects /\ readInt(d).ok = d.ok
  BY <1>1, MadeFields
<1> QED
  BY <1>2 DEF p

(* A counted string is read as it was written.                              *)
LEMMA CountedRead ==
  ASSUME NEW d \in Decoders, d.ok, NEW x \in Seq(Nat), d.pos = Len(x),
         NEW s \in Seq(Nat), NEW t \in Seq(Nat), Spelled(s, Len(t)), PrefixOf((x \o s) \o t, d.b)
  PROVE  /\ Counted(d).ok /\ Counted(d).val = Str(t) /\ Counted(d).objects = d.objects
         /\ Counted(d) \in Decoders /\ Counted(d).b = d.b
<1> DEFINE y == x \o s
           z == y \o t
           n == readInt(d)
           B == d.b
<1>1. /\ y \in Seq(Nat) /\ Len(y) = Len(x) + Len(s) /\ z \in Seq(Nat)
      /\ Len(x) \in Nat /\ Len(s) \in Nat
  BY LenConcat
<1> HIDE DEF y
<1>2. Len(z) = Len(y) + Len(t) /\ Len(y) \in Nat /\ Len(t) \in Nat
  BY <1>1, LenConcat
<1>3. B \in Seq(Nat) /\ Len(B) \in Nat /\ PrefixOf(z, B) /\ Len(z) <= Len(B)
  BY DecoderType DEF PrefixOf, y
<1>4. PrefixOf(y, B)
  <2> HIDE DEF B
  <2> QED
    BY <1>1, <1>3, PrefixParts
<1>5. Ahead(d, s)
  BY <1>4, AheadTaken DEF y
<1> DEFINE p == d.pos + Len(s)
           v == Len(t)
<1>6. n.b = d.b /\ n.pos = p /\ n.int = v /\ n.objects = d.objects /\ n.ok = d.ok
  BY <1>5, SpelledRead
<1>7. p = Len(y) /\ v \in Nat /\ p \in Nat
  BY <1>1, <1>2
<1>8. n \in Decoders
  BY ReadIntAfter
<1> HIDE DEF n, p, v, B, z
<1>10. n.ok
  BY <1>6
<1>11. /\ n.b = B /\ n.pos = Len(y) /\ n.int = Len(t) /\ n.objects = d.objects
  BY <1>6, <1>7 DEF B, v
<1>12. ~(n.int < 0 \/ n.int > Left(n)) /\ n.int \in Nat /\ n.int <= Left(n)
  BY <1>2, <1>3, <1>11 DEF Left
<1> DEFINE k == n.int
           sub == SubSeq(n.b, n.pos + 1, n.pos + k)
           c == Counted(d)
<1>13. c = [Skip(n, k) EXCEPT !.val = Str(sub)]
  BY <1>10, <1>12, CountedIs DEF n
<1>14. sub = t
  <2>1. sub = SubSeq(B, Len(y) + 1, Len(z))
    BY <1>2, <1>11
  <2>2. SubSeq(B, Len(y) + 1, Len(z)) = SubSeq(z, Len(y) + 1, Len(z))
    <3> DEFINE i == Len(y)
               j == Len(z)
    <3>1. i \in Nat /\ j \in Nat /\ j <= Len(z) /\ z \in Seq(Nat) /\ PrefixOf(z, B) /\ B \in Seq(Nat)
      BY <1>1, <1>2, <1>3 DEF z
    <3> HIDE DEF i, j
    <3>2. SameCut(z, B, i, j)
      BY <3>1, CutSame
    <3> QED
      BY <3>2 DEF SameCut, i, j
  <2>3. SubSeq(z, Len(y) + 1, Len(z)) = t
    <3>1. SubSeq(y \o t, Len(y) + 1, Len(y) + Len(t)) = t
      BY <1>1, EndOf
    <3> QED
      BY <1>2, <3>1 DEF z
  <2> QED
    BY <2>1, <2>2, <2>3
<1> HIDE DEF sub, c, k
<1>15. /\ Skip(n, k) \in Decoders /\ Skip(n, k).b = n.b /\ Skip(n, k).objects = n.objects
       /\ Skip(n, k).ok = n.ok
  BY <1>8, <1>12, SkipType DEF k
<1>16. Str(sub) \in Values
  BY <1>14, ValuesType
<1>17. /\ c \in Decoders /\ c.val = Str(sub) /\ c.b = Skip(n, k).b /\ c.objects = Skip(n, k).objects
       /\ c.ok = Skip(n, k).ok
  BY <1>13, <1>15, <1>16, ValSet
<1>18. c.ok
  BY <1>10, <1>15, <1>17
<1> QED
  BY <1>11, <1>14, <1>15, <1>17, <1>18 DEF c, B

(* A text that follows is the value read.                                   *)
LEMMA TextRead ==
  ASSUME NEW d \in Decoders, d.ok, NEW x \in Seq(Nat), d.pos = Len(x),
         NEW s \in Seq(Nat), NEW t \in Seq(Nat), Spelled(s, Len(t)), NEW g,
         PrefixOf(((x \o <<Plus>>) \o s) \o t, d.b), NEW v, v = typedValue(d, g)
  PROVE  v \in Decoders /\ v.ok /\ v.val = Str(t) /\ v.objects = d.objects
<1> DEFINE one == <<Plus>>
           y == x \o one
           e == typeEncoding(d)
<1>0. one \in Seq(Nat) /\ Len(one) = 1 /\ one[1] = Plus /\ Plus \in Nat /\ d.b \in Seq(Nat)
  BY DecoderType DEF Plus
<1>1. PrefixOf((y \o s) \o t, d.b)
  OBVIOUS
<1> HIDE DEF one
<1>2. one \in Seq(Nat) /\ Len(one) = 1
  BY <1>0
<1>3. y \in Seq(Nat) /\ Len(y) = Len(x) + Len(one)
  <2>1. one \in Seq(Nat)
    BY <1>0
  <2> QED
    BY <2>1, LenConcat
<1>4. PrefixOf(y, d.b)
  <2> HIDE DEF y
  <2> DEFINE z == y \o s
  <2>1. z \in Seq(Nat)
    BY <1>3, LenConcat
  <2>2. PrefixOf(z, d.b)
    <3> HIDE DEF z
    <3>1. PrefixOf(z \o t, d.b)
      BY <1>1 DEF z
    <3> QED
      BY <1>0, <2>1, <3>1, PrefixParts
  <2> QED
    BY <1>0, <1>3, <2>2, PrefixParts
<1>5. Ahead(d, one)
  <2>1. one \in Seq(Nat)
    BY <1>0
  <2> QED
    BY <1>4, <2>1, AheadTaken
<1> HIDE DEF y
<1>6. Left(d) > 0 /\ Peek(d) = Plus
  <2>1. one \in Seq(Nat) /\ Len(one) > 0
    BY <1>0
  <2>2. Left(d) > 0 /\ Peek(d) = one[1]
    BY <1>5, <2>1, AheadFirst
  <2> QED
    BY <1>0, <2>2
<1> DEFINE u == Str(<<Plus>>)
           k == Skip(d, 1)
<1>7. u \in Values /\ u.str = <<Plus>>
  <2> DEFINE p == <<Plus>>
  <2>1. p \in Seq(Nat)
    BY <1>0
  <2> HIDE DEF p
  <2>2. Str(p) \in Values /\ Str(p).str = p
    BY <2>1, ValuesType
  <2> QED
    BY <2>2 DEF p
<1>8. e = [k EXCEPT !.val = u]
  <2>1. ~(Peek(d) \in {tagNew, tagNil} \/ Peek(d) >= refBase)
    BY <1>6 DEF Plus, tagNew, tagNil, refBase
  <2>2. e = [Skip(d, 1) EXCEPT !.val = Str(<<Peek(d)>>)]
    BY <1>6, <2>1, TypeEncodingIs
  <2> QED
    BY <1>6, <2>2
<1>9. k \in Decoders /\ k.b = d.b /\ k.pos = d.pos + 1 /\ k.ok = d.ok /\ k.objects = d.objects
  <2>1. 1 \in Nat /\ 1 <= Left(d)
    BY <1>6, DecoderType
  <2> QED
    BY <2>1, SkipType
<1>10. k.ok
  BY <1>9
<1> HIDE DEF e, u, k
<1>11. /\ e \in Decoders /\ e.val = u /\ e.b = k.b /\ e.pos = k.pos /\ e.objects = k.objects /\ e.ok = k.ok
  BY <1>7, <1>8, <1>9, ValSet
<1>12. e.ok
  BY <1>10, <1>11
<1>13. v = Counted(e)
  <2>1. v = value(e, e.val.str, g)
    BY <1>12 DEF typedValue, Then, e
  <2>2. e.val.str = <<Plus>>
    BY <1>7, <1>11
  <2> QED
    BY <2>1, <2>2, ValueIs
<1>14. e.pos = Len(y) /\ PrefixOf((y \o s) \o t, e.b)
  BY <1>1, <1>2, <1>3, <1>9, <1>11 DEF y
<1>15. /\ Counted(e).ok /\ Counted(e).val = Str(t) /\ Counted(e).objects = e.objects
       /\ Counted(e) \in Decoders
  <2> DEFINE B == e.b
  <2>1. PrefixOf((y \o s) \o t, B) /\ B = e.b
    BY <1>14
  <2>2. e \in Decoders /\ e.ok /\ y \in Seq(Nat) /\ e.pos = Len(y)
    BY <1>3, <1>11, <1>12, <1>14
  <2> HIDE DEF B
  <2>3. PrefixOf((y \o s) \o t, e.b)
    BY <2>1
  <2> QED
    BY <2>2, <2>3, CountedRead
<1> QED
  BY <1>9, <1>11, <1>13, <1>15

(* What is left of an archive's objects: their kind, and one with the text.   *)
ObjectsKept(os, ws) ==
  \A i \in 1 .. Len(ws) : ws[i] = 0 => i \in 1 .. Len(os) /\ os[i].kind = "object"

TextFound(v, w, text) ==
  /\ v \in Decoders /\ v.ok /\ HasString(v) /\ v.objects[v.val.ref].text = text
  /\ ObjectsKept(v.objects, w.objects)

LEMMA FilledIn ==
  ASSUME NEW v \in Decoders, NEW slot \in 1 .. Len(v.objects), NEW text \in Seq(Nat),
         NEW x, x = Filled(v.objects[slot], text), NEW e, e = Changed(v, slot, x)
  PROVE  /\ e \in Decoders /\ e.ok = v.ok /\ Len(e.objects) = Len(v.objects)
         /\ \A k \in 1 .. Len(v.objects) : e.objects[k] = IF k = slot THEN x ELSE v.objects[k]
         /\ x.kind = v.objects[slot].kind /\ x.hasString /\ x.text = text
<1>1. v.objects \in Seq(Entries) /\ v.objects[slot] \in Entries /\ slot \in Nat
  BY DecoderType
<1>2. x \in Entries /\ x.kind = v.objects[slot].kind /\ x.hasString /\ x.text = text
  BY <1>1, FilledType
<1>3. Fits(v.objects, slot, x)
  BY <1>2 DEF Fits
<1>4. /\ Changed(v, slot, x) \in Decoders /\ Changed(v, slot, x).ok = v.ok
      /\ Len(Changed(v, slot, x).objects) = Len(v.objects)
      /\ \A k \in 1 .. Len(v.objects) : Changed(v, slot, x).objects[k] = IF k = slot THEN x ELSE v.objects[k]
  BY <1>1, <1>3, ChangedType
<1> QED
  BY <1>2, <1>4

LEMMA HeldIs ==
  ASSUME NEW v \in Decoders, NEW n, ObjectsKept(v.objects, n.objects),
         NEW slot \in 1 .. Len(n.objects), n.objects[slot] = 0, NEW text \in Seq(Nat),
         NEW w, Longer(w, n)
  PROVE  LET h == Holding(v, slot, text) IN
         /\ h \in Decoders /\ h.ok = v.ok /\ HasString(h) /\ h.objects[h.val.ref].text = text
         /\ ObjectsKept(h.objects, w.objects)
<1> DEFINE x == Filled(v.objects[slot], text)
           e == Changed(v, slot, x)
           h == Holding(v, slot, text)
<1>0. slot \in Nat /\ slot \in 1 .. Len(v.objects) /\ v.objects[slot].kind = "object"
  BY DEF ObjectsKept
<1>3. h = [e EXCEPT !.val = Pointer(slot)]
  BY HoldingIs
<1>4. /\ e \in Decoders /\ e.ok = v.ok /\ Len(e.objects) = Len(v.objects)
      /\ \A k \in 1 .. Len(v.objects) : e.objects[k] = IF k = slot THEN x ELSE v.objects[k]
      /\ x.kind = v.objects[slot].kind /\ x.hasString /\ x.text = text
  <2>1. x = Filled(v.objects[slot], text) /\ e = Changed(v, slot, x)
    OBVIOUS
  <2> HIDE DEF x, e
  <2> QED
    BY <1>0, <2>1, FilledIn
<1> HIDE DEF x, h
<1> HIDE DEF e
<1>6. Pointer(slot) \in Values /\ Pointer(slot).kind = "pointer" /\ Pointer(slot).ref = slot
  BY <1>0, ValuesType
<1> DEFINE p == Pointer(slot)
<1>6a. h = [e EXCEPT !.val = p] /\ p \in Values
  BY <1>3, <1>6
<1> HIDE DEF p
<1>7. h \in Decoders /\ h.val = p /\ h.objects = e.objects /\ h.ok = e.ok
  BY <1>4, <1>6a, ValSet
<1>8. h.val.ref = slot /\ h.val.kind = "pointer"
  BY <1>6, <1>7 DEF p
<1>9. h.objects[slot] = x /\ slot \in DOMAIN h.objects
  BY <1>0, <1>4, <1>7, DecoderType
<1>10. HasString(h)
  BY <1>0, <1>4, <1>8, <1>9 DEF HasString
<1>11. ObjectsKept(h.objects, w.objects)
  <2> SUFFICES ASSUME NEW i \in 1 .. Len(w.objects), w.objects[i] = 0
               PROVE  i \in 1 .. Len(h.objects) /\ h.objects[i].kind = "object"
    BY DEF ObjectsKept
  <2>1. w.objects \in Seq(Nat) /\ n.objects \in Seq(Nat) /\ PrefixOf(w.objects, n.objects)
    BY DEF Longer, Writers
  <2>2. i \in 1 .. Len(n.objects) /\ n.objects[i] = 0
    BY <2>1 DEF PrefixOf
  <2>3. i \in 1 .. Len(v.objects) /\ v.objects[i].kind = "object"
    BY <2>2 DEF ObjectsKept
  <2>4. h.objects[i] = IF i = slot THEN x ELSE v.objects[i]
    BY <1>4, <1>7, <2>3
  <2> QED
    BY <1>0, <1>4, <1>7, <2>3, <2>4
<1>12. h.objects[h.val.ref].text = text
  BY <1>4, <1>8, <1>9
<1> QED
  BY <1>4, <1>7, <1>10, <1>11, <1>12 DEF h

LEMMA Held ==
  ASSUME NEW v \in Decoders, v.ok, NEW n, ObjectsKept(v.objects, n.objects),
         NEW slot \in 1 .. Len(n.objects), n.objects[slot] = 0, NEW text \in Seq(Nat),
         NEW w, Longer(w, n)
  PROVE  TextFound(Holding(v, slot, text), w, text)
<1> DEFINE h == Holding(v, slot, text)
<1>1. /\ h \in Decoders /\ h.ok = v.ok /\ HasString(h) /\ h.objects[h.val.ref].text = text
      /\ ObjectsKept(h.objects, w.objects)
  BY HeldIs
<1> QED
  BY <1>1 DEF TextFound

(* --------------------- the archive and its nesting --------------------- *)

LEMMA DownTo ==
  ASSUME NEW n \in Nat, NEW W, n \in W, \A k \in 0 .. n - 1 : k + 1 \in W => k \in W
  PROVE  \A k \in 0 .. n : k \in W
<1> DEFINE V == {j \in 0 .. n : n - j \in W}
<1>1. 0 \in V
  OBVIOUS
<1>2. \A k \in 1 .. n : k - 1 \in V => k \in V
  <2> SUFFICES ASSUME NEW k \in 1 .. n, k - 1 \in V PROVE k \in V
    OBVIOUS
  <2>1. n - (k - 1) = (n - k) + 1 /\ n - k \in 0 .. n - 1
    OBVIOUS
  <2> QED
    BY <2>1
<1>3. \A k \in 0 .. n : k \in V
  <2> HIDE DEF V
  <2> QED
    BY <1>1, <1>2, UpTo
<1> SUFFICES ASSUME NEW k \in 0 .. n PROVE k \in W
  OBVIOUS
<1>4. n - k \in 0 .. n /\ n - (n - k) = k
  OBVIOUS
<1> QED
  BY <1>3, <1>4

(* The classes of the object inside k others, and the archive with it begun.  *)
Layer(shape, k) == IF k = Len(shape.wrappers) THEN shape.string ELSE shape.wrappers[k + 1]
Deeper(shape, k) == IF k = Len(shape.wrappers) THEN Opened(shape) ELSE Nesting(shape)[k + 1]

LEMMA ArchivableParts ==
  ASSUME NEW shape, Archivable(shape)
  PROVE  /\ Shaped(shape) /\ Len(shape.wrappers) \in Nat
         /\ Len(Opened(shape).objects) <= Room(shape.wide)
         /\ \A k \in 0 .. Len(shape.wrappers) :
              /\ Named(Layer(shape, k)) /\ Layer(shape, k) # <<>>
              /\ k = Len(shape.wrappers) => IsString(<<Head(Layer(shape, k))>>)
              /\ k # Len(shape.wrappers) => IsAttributed(<<Head(Layer(shape, k))>>)
<1>1. Shaped(shape) /\ Len(shape.wrappers) \in Nat
  BY LenProperties DEF Archivable, Shaped
<1>2. Len(Opened(shape).objects) <= Room(shape.wide)
  BY DEF Archivable, Room
<1>3. \A names : Chain(names) => Named(names) /\ names # <<>>
  BY DEF Chain, Named
<1>4. ASSUME NEW k \in 0 .. Len(shape.wrappers)
      PROVE  /\ Named(Layer(shape, k)) /\ Layer(shape, k) # <<>>
             /\ k = Len(shape.wrappers) => IsString(<<Head(Layer(shape, k))>>)
             /\ k # Len(shape.wrappers) => IsAttributed(<<Head(Layer(shape, k))>>)
  <2>1. CASE k = Len(shape.wrappers)
    <3>1. Layer(shape, k) = shape.string
      BY <2>1 DEF Layer
    <3>2. Chain(shape.string) /\ IsString(<<Head(shape.string)>>)
      BY DEF Archivable
    <3> QED
      BY <1>3, <2>1, <3>1, <3>2
  <2>2. CASE k # Len(shape.wrappers)
    <3>1. Layer(shape, k) = shape.wrappers[k + 1] /\ k + 1 \in 1 .. Len(shape.wrappers)
      BY <1>1, <2>2 DEF Layer
    <3> DEFINE j == k + 1
    <3>2. j \in 1 .. Len(shape.wrappers) /\ Layer(shape, k) = shape.wrappers[j]
      BY <3>1
    <3> HIDE DEF j
    <3>3. Chain(shape.wrappers[j]) /\ IsAttributed(<<Head(shape.wrappers[j])>>)
      BY <3>2 DEF Archivable
    <3> QED
      BY <1>3, <2>2, <3>2, <3>3
  <2> QED
    BY <2>1, <2>2
<1> QED
  BY <1>1, <1>2, <1>4

LEMMA DeeperIs ==
  ASSUME NEW shape, Archivable(shape), NEW k \in 0 .. Len(shape.wrappers)
  PROVE  Deeper(shape, k) = appendObject(Nesting(shape)[k], Layer(shape, k))
<1>1. Shaped(shape) /\ Len(shape.wrappers) \in Nat
  BY ArchivableParts
<1>2. CASE k = Len(shape.wrappers)
  BY <1>2, OpenedIs DEF Deeper, Layer
<1>3. CASE k # Len(shape.wrappers)
  <2> DEFINE j == k + 1
  <2>1. j \in 0 .. Len(shape.wrappers) /\ j # 0 /\ j - 1 = k
    BY <1>1, <1>3
  <2>2. Deeper(shape, k) = Nesting(shape)[j] /\ Layer(shape, k) = shape.wrappers[j]
    BY <1>3 DEF Deeper, Layer
  <2> HIDE DEF j
  <2>3. Nesting(shape)[j] = NestedBy(shape, Nesting(shape), j)
    BY <1>1, <2>1, NestingIs
  <2>4. NestedBy(shape, Nesting(shape), j) = appendObject(Nesting(shape)[k], shape.wrappers[j])
    BY <2>1 DEF NestedBy
  <2> QED
    BY <2>2, <2>3, <2>4
<1> QED
  BY <1>2, <1>3

LEMMA NestingGood ==
  ASSUME NEW shape, Archivable(shape)
  PROVE  \A k \in 0 .. Len(shape.wrappers) : Wrote(Nesting(shape)[k]) /\ Nesting(shape)[k].wide = shape.wide
<1> DEFINE n == Len(shape.wrappers)
           up == Nesting(shape)
           Good(w) == Wrote(w) /\ w.wide = shape.wide
           W == {k \in 0 .. n : Good(up[k])}
<1>1. Shaped(shape) /\ n \in Nat
  BY ArchivableParts
<1>2. 0 \in W
  <2> DEFINE w == Emit(Writer(shape.wide), Header)
  <2>1. w \in Writers /\ w.strings = <<>> /\ w.wide = shape.wide
    BY <1>1, BlankWriter DEF Shaped
  <2>2. up[0] = w
    <3>1. 0 \in 0 .. n /\ up[0] = NestedBy(shape, up, 0)
      BY <1>1, NestingIs
    <3> QED
      BY <3>1 DEF NestedBy
  <2> HIDE DEF w, up
  <2>3. Wrote(w)
    BY <2>1 DEF Wrote
  <2> QED
    BY <1>1, <2>1, <2>2, <2>3
<1>3. ASSUME NEW k \in 1 .. n, k - 1 \in W PROVE k \in W
  <2> DEFINE i == k - 1
  <2>1. i \in 0 .. n /\ Good(up[i]) /\ i # n /\ i + 1 = k
    BY <1>1, <1>3
  <2> HIDE DEF i
  <2>2. Named(Layer(shape, i))
    BY <2>1, ArchivableParts
  <2>3. Deeper(shape, i) = up[k] /\ Deeper(shape, i) = appendObject(up[i], Layer(shape, i))
    BY <2>1, DeeperIs DEF Deeper
  <2> HIDE DEF up
  <2>4. Wrote(up[k]) /\ Longer(up[i], up[k])
    BY <2>1, <2>2, <2>3, ObjectGood
  <2>5. Good(up[k])
    BY <2>1, <2>4 DEF Longer
  <2> QED
    BY <2>5
<1>4. \A k \in 0 .. n : k \in W
  <2> HIDE DEF n, W
  <2> QED
    BY <1>1, <1>2, <1>3, UpTo
<1> QED
  BY <1>4

(* Every layer of the archive comes to lie in the whole one.                 *)
LEMMA DeeperGood ==
  ASSUME NEW shape, Archivable(shape), NEW k \in 0 .. Len(shape.wrappers)
  PROVE  /\ Wrote(Deeper(shape, k)) /\ Longer(Nesting(shape)[k], Deeper(shape, k))
         /\ Deeper(shape, k) = appendObject(Nesting(shape)[k], Layer(shape, k))
         /\ Wrote(Nesting(shape)[k]) /\ Nesting(shape)[k].wide = shape.wide
<1> DEFINE w == Nesting(shape)[k]
           n == Deeper(shape, k)
           names == Layer(shape, k)
<1>1. n = appendObject(w, names) /\ Named(names) /\ Wrote(w) /\ w.wide = shape.wide
  BY DeeperIs, ArchivableParts, NestingGood
<1> HIDE DEF w, n, names
<1>2. Wrote(n) /\ Longer(w, n)
  BY <1>1, ObjectGood
<1> QED
  BY <1>1, <1>2 DEF w, n, names

LEMMA DeeperWithin ==
  ASSUME NEW shape, Archivable(shape)
  PROVE  \A k \in 0 .. Len(shape.wrappers) : Longer(Deeper(shape, k), Opened(shape))
<1> DEFINE n == Len(shape.wrappers)
           all == Opened(shape)
           W == {k \in 0 .. n : Longer(Deeper(shape, k), all)}
<1>1. n \in Nat
  BY ArchivableParts
<1>2. n \in W
  <2>1. n \in 0 .. n /\ Deeper(shape, n) = all
    BY <1>1 DEF Deeper
  <2>2. all \in Writers
    BY <2>1, DeeperGood DEF Wrote
  <2>3. all.b \in Seq(Nat) /\ all.objects \in Seq(Nat)
    BY <2>2 DEF Writers
  <2> HIDE DEF all, n
  <2>4. PrefixOf(all.b, all.b) /\ PrefixOf(all.objects, all.objects)
    BY <2>3, LenProperties, PrefixOfItself
  <2>5. Longer(all, all)
    BY <2>2, <2>4 DEF Longer
  <2> QED
    BY <2>1, <2>5
<1>3. ASSUME NEW k \in 0 .. n - 1, k + 1 \in W PROVE k \in W
  <2> DEFINE j == k + 1
  <2>1. k \in 0 .. n /\ k # n /\ j \in 0 .. n /\ Longer(Deeper(shape, j), all)
    BY <1>1, <1>3
  <2>2. Deeper(shape, k) = Nesting(shape)[j]
    BY <2>1 DEF Deeper
  <2> HIDE DEF j, all
  <2>3. Longer(Nesting(shape)[j], Deeper(shape, j))
    BY <2>1, DeeperGood
  <2>4. Longer(Deeper(shape, k), all)
    BY <2>1, <2>2, <2>3, LongerTransitive
  <2> QED
    BY <2>1, <2>4
<1>4. \A k \in 0 .. n : k \in W
  <2> HIDE DEF n, W
  <2> QED
    BY <1>1, <1>2, <1>3, DownTo
<1> QED
  BY <1>4

(* A text whose length an archive can hold.                                 *)
Storable(text) == text \in Seq(Nat) /\ Len(text) <= 2147483647

LEMMA LengthSpelled ==
  ASSUME NEW text, Storable(text)
  PROVE  text \in Seq(Nat) /\ Spelled(appendInt(Len(text)), Len(text))
<1>1. text \in Seq(Nat) /\ Len(text) \in Nat /\ Len(text) <= 2147483647
  BY SMT DEF Storable
<1>2. Spelled(appendInt(Len(text)), Len(text))
  BY <1>1, IntSpelled, SMT
<1> QED
  BY <1>1, <1>2, SMT

(* B begins with o and then the tag, the length s and the bytes of text.      *)
TextBehind(o, s, text, B) ==
  /\ o \in Seq(Nat) /\ s \in Seq(Nat) /\ Spelled(s, Len(text)) /\ B \in Seq(Nat)
  /\ PrefixOf(o, B) /\ PrefixOf(((o \o <<Plus>>) \o s) \o text, B)

LEMMA TextFollows ==
  ASSUME NEW d \in Decoders, d.ok, NEW x, NEW s, NEW t \in Seq(Nat), TextBehind(x, s, t, d.b),
         d.pos = Len(x), NEW g, NEW v, v = typedValue(d, g)
  PROVE  v \in Decoders /\ v.ok /\ v.val = Str(t) /\ v.objects = d.objects
<1>1. /\ x \in Seq(Nat) /\ s \in Seq(Nat) /\ Spelled(s, Len(t))
      /\ PrefixOf(((x \o <<Plus>>) \o s) \o t, d.b)
  BY DEF TextBehind
<1> QED
  BY <1>1, TextRead

LEMMA ArchiveIs ==
  ASSUME NEW shape, Archivable(shape), NEW text, Storable(text)
  PROVE  TextBehind(Opened(shape).b, appendInt(Len(text)), text, EncodeAttributedString(shape, text))
<1> DEFINE o == Opened(shape).b
           s == appendInt(Len(text))
           B == EncodeAttributedString(shape, text)
           p == <<Plus>>
           e == <<tagEnd, tagEnd>>
           u == o \o p
           v == u \o s
           z == v \o text
<1>1. o \in Seq(Nat)
  <2>1. Len(shape.wrappers) \in 0 .. Len(shape.wrappers)
    BY ArchivableParts
  <2>2. Deeper(shape, Len(shape.wrappers)) = Opened(shape)
    BY DEF Deeper
  <2>3. Wrote(Opened(shape))
    BY <2>1, <2>2, DeeperGood
  <2> QED
    BY <2>3 DEF Wrote, Writers
<1>2. s \in Seq(Nat) /\ Spelled(s, Len(text)) /\ text \in Seq(Nat)
  <2>1. Spelled(s, Len(text)) /\ text \in Seq(Nat)
    BY LengthSpelled
  <2> QED
    BY <2>1 DEF Spelled
<1>3. p \in Seq(Nat) /\ e \in Seq(Nat)
  BY DEF Plus, tagEnd
<1>4. B = z \o e
  BY DEF EncodeAttributedString
<1> HIDE DEF o, s, p, e, B
<1>5. u \in Seq(Nat)
  BY <1>1, <1>3, LenConcat
<1> HIDE DEF u
<1>6. v \in Seq(Nat)
  BY <1>2, <1>5, LenConcat
<1> HIDE DEF v
<1>7. z \in Seq(Nat)
  BY <1>2, <1>6, LenConcat
<1> HIDE DEF z
<1>8. B \in Seq(Nat) /\ PrefixOf(z, B)
  BY <1>3, <1>4, <1>7, LenConcat, PrefixOfConcat
<1>9. PrefixOf(v, B)
  <2>1. PrefixOf(v \o text, B)
    BY <1>8 DEF z
  <2> QED
    BY <1>2, <1>6, <1>8, <2>1, PrefixParts
<1>10. PrefixOf(u, B)
  <2>1. PrefixOf(u \o s, B)
    BY <1>9 DEF v
  <2> QED
    BY <1>2, <1>5, <1>8, <2>1, PrefixParts
<1>11. PrefixOf(o, B)
  <2>1. PrefixOf(o \o p, B)
    BY <1>10 DEF u
  <2> QED
    BY <1>1, <1>3, <1>8, <2>1, PrefixParts
<1> QED
  BY <1>1, <1>2, <1>8, <1>11 DEF TextBehind, o, s, p, B, u, v, z

(* The class of the object at one level of the archive is found.             *)
LEMMA LayerRead ==
  ASSUME NEW shape, Archivable(shape), NEW k \in 0 .. Len(shape.wrappers),
         NEW d, Reads(d, Nesting(shape)[k]), d.ok, PrefixOf(Opened(shape).b, d.b)
  PROVE  ObjectFound(Before(Inside(d)), d, Len(Nesting(shape)[k].objects) + 1,
                     Deeper(shape, k), Head(Layer(shape, k)))
<1> DEFINE w == Nesting(shape)[k]
           n == Deeper(shape, k)
           names == Layer(shape, k)
           all == Opened(shape)
<1>1. Wrote(n) /\ Longer(w, n) /\ n = appendObject(w, names) /\ Wrote(w) /\ w.wide = shape.wide
  BY DeeperGood
<1>2. Named(names) /\ names # <<>> /\ Len(all.objects) <= Room(shape.wide)
  BY ArchivableParts
<1>3. Longer(n, all)
  BY DeeperWithin
<1> HIDE DEF w, n, names, all
<1>4. Reads(d, w) /\ PrefixOf(all.b, d.b)
  BY DEF w, all
<1>5. /\ n.b \in Seq(Nat) /\ all.b \in Seq(Nat) /\ n.objects \in Seq(Nat) /\ all.objects \in Seq(Nat)
      /\ PrefixOf(n.b, all.b) /\ PrefixOf(n.objects, all.objects)
  BY <1>3 DEF Longer, Writers
<1>6. PrefixOf(n.b, d.b)
  <2>1. Len(n.b) \in Nat /\ Len(all.b) \in Nat /\ Len(d.b) \in Nat
    BY <1>4, <1>5, LenProperties, DecoderType DEF Reads
  <2> QED
    BY <1>4, <1>5, <2>1, PrefixTransitive
<1>7. Len(n.objects) <= Room(w.wide)
  <2>1. Len(n.objects) <= Len(all.objects) /\ Len(n.objects) \in Nat /\ Len(all.objects) \in Nat
    BY <1>5, LenProperties DEF PrefixOf
  <2>2. Room(shape.wide) \in Nat
    BY DEF Room, refOffset, refBase
  <2> QED
    BY <1>1, <1>2, <2>1, <2>2
<1>8. ObjectFound(Before(Inside(d)), d, Len(w.objects) + 1, n, Head(names))
  BY <1>1, <1>2, <1>4, <1>6, <1>7, ObjectRead
<1> QED
  BY <1>8 DEF w, n, names

LEMMA ReadKept ==
  ASSUME NEW os, NEW ws, ObjectsOf(os, ws)
  PROVE  ObjectsKept(os, ws)
BY DEF ObjectsOf, EntryOf, ObjectsKept

(* The string itself.                                                      *)
LEMMA InnerRead ==
  ASSUME NEW shape, Archivable(shape), NEW text, Storable(text),
         NEW d, Reads(d, Nesting(shape)[Len(shape.wrappers)]), d.ok,
         d.b = EncodeAttributedString(shape, text)
  PROVE  TextFound(typedValue(d, newObject), Nesting(shape)[Len(shape.wrappers)], text)
<1> DEFINE k == Len(shape.wrappers)
           w == Nesting(shape)[k]
           n == Deeper(shape, k)
           h == Head(Layer(shape, k))
           c == Before(Inside(d))
           slot == Len(w.objects) + 1
           v == typedValue(c, newObject)
           B == EncodeAttributedString(shape, text)
           o == Opened(shape).b
           s == appendInt(Len(text))
<1>1. /\ o \in Seq(Nat) /\ s \in Seq(Nat) /\ Spelled(s, Len(text)) /\ B \in Seq(Nat)
      /\ PrefixOf(o, B) /\ PrefixOf(((o \o <<Plus>>) \o s) \o text, B)
  <2>1. TextBehind(o, s, text, B)
    BY ArchiveIs
  <2> HIDE DEF o, s, B
  <2> QED
    BY <2>1 DEF TextBehind
<1>2. k \in 0 .. k /\ IsString(<<h>>) /\ text \in Seq(Nat)
  BY ArchivableParts, LengthSpelled
<1>3. ObjectFound(c, d, slot, n, h)
  <2>1. PrefixOf(o, d.b)
    BY <1>1
  <2> QED
    BY <1>2, <2>1, LayerRead
<1>4. n.b = o
  BY DEF Deeper
<1>5. /\ Wrote(n) /\ Longer(w, n) /\ n = appendObject(w, Layer(shape, k)) /\ Wrote(w)
  BY <1>2, DeeperGood
<1>6. n.objects[slot] = 0
  <2>1. Named(Layer(shape, k))
    BY <1>2, ArchivableParts
  <2> HIDE DEF w, n, k
  <2> QED
    BY <1>5, <2>1, ObjectGood
<1> HIDE DEF w, n, h, c, slot, o, s, B, k
<1>7. /\ c.ok /\ c.b = d.b /\ Reads(c, n) /\ slot \in 1 .. Len(n.objects) /\ c.objects[slot] = Object(<<h>>)
      /\ typedValue(d, newObject) = objectContents(c, slot, newObject)
  BY <1>3 DEF ObjectFound
<1>8. c \in Decoders /\ c.pos = Len(o) /\ c.b = B
  BY <1>4, <1>7 DEF Reads, B
<1>9. v \in Decoders /\ v.ok /\ v.val = Str(text) /\ v.objects = c.objects
  <2>1. TextBehind(o, s, text, c.b)
    BY <1>1, <1>8 DEF TextBehind
  <2>2. v = typedValue(c, newObject)
    OBVIOUS
  <2>3. c \in Decoders /\ c.ok /\ c.pos = Len(o) /\ text \in Seq(Nat)
    BY <1>2, <1>7, <1>8
  <2> HIDE DEF v
  <2> QED
    BY <2>1, <2>2, <2>3, TextFollows
<1> HIDE DEF v
<1>10. typedValue(d, newObject) = Holding(v, slot, text)
  <2>1. c.objects[slot].name = <<h>> /\ v.val.kind = "string" /\ v.val.str = text
    BY <1>2, <1>7, <1>9, ValuesType DEF Object
  <2>2. IsString(c.objects[slot].name)
    BY <1>2, <2>1
  <2>3. objectContents(c, slot, newObject) = Holding(v, slot, v.val.str)
    BY <1>9, <2>1, <2>2, ContentsIs DEF v
  <2> QED
    BY <1>7, <2>1, <2>3
<1>11. ObjectsKept(v.objects, n.objects)
  <2>1. ObjectsOf(c.objects, n.objects)
    BY <1>7 DEF Reads
  <2> QED
    BY <1>9, <2>1, ReadKept
<1>12. TextFound(Holding(v, slot, text), w, text)
  BY <1>2, <1>5, <1>6, <1>7, <1>9, <1>11, Held
<1> QED
  BY <1>10, <1>12 DEF w, k

(* An attributed string around an object that is read with the text.         *)
LEMMA OuterRead ==
  ASSUME NEW shape, Archivable(shape), NEW text \in Seq(Nat), NEW k \in 0 .. Len(shape.wrappers),
         k # Len(shape.wrappers), NEW B, PrefixOf(Opened(shape).b, B),
         \A e : Reads(e, Nesting(shape)[k + 1]) /\ e.ok /\ e.b = B =>
                  TextFound(typedValue(e, newObject), Nesting(shape)[k + 1], text),
         NEW d, Reads(d, Nesting(shape)[k]), d.ok, d.b = B
  PROVE  TextFound(typedValue(d, newObject), Nesting(shape)[k], text)
<1> DEFINE w == Nesting(shape)[k]
           n == Deeper(shape, k)
           h == Head(Layer(shape, k))
           c == Before(Inside(d))
           slot == Len(w.objects) + 1
           v == typedValue(c, newObject)
<1>1. n = Nesting(shape)[k + 1]
  BY DEF Deeper
<1>2. IsAttributed(<<h>>) /\ Named(Layer(shape, k))
  BY ArchivableParts
<1>3. ObjectFound(c, d, slot, n, h)
  BY LayerRead
<1>4. /\ Wrote(n) /\ Longer(w, n) /\ n = appendObject(w, Layer(shape, k)) /\ Wrote(w)
  BY DeeperGood
<1>5. n.objects[slot] = 0
  <2> HIDE DEF w, n
  <2> QED
    BY <1>2, <1>4, ObjectGood
<1> HIDE DEF w, n, h, c, slot
<1>6. /\ c.ok /\ c.b = d.b /\ Reads(c, n) /\ slot \in 1 .. Len(n.objects) /\ c.objects[slot] = Object(<<h>>)
      /\ typedValue(d, newObject) = objectContents(c, slot, newObject)
  BY <1>3 DEF ObjectFound
<1>7. TextFound(v, n, text)
  <2>1. Reads(c, Nesting(shape)[k + 1]) /\ c.ok /\ c.b = B
    BY <1>1, <1>6
  <2>2. TextFound(typedValue(c, newObject), Nesting(shape)[k + 1], text)
    BY <2>1
  <2> QED
    BY <1>1, <2>2
<1> HIDE DEF v
<1>8. v \in Decoders /\ v.ok /\ HasString(v) /\ v.objects[v.val.ref].text = text /\ ObjectsKept(v.objects, n.objects)
  BY <1>7 DEF TextFound
<1>9. typedValue(d, newObject) = Holding(v, slot, text)
  <2>1. c.objects[slot].name = <<h>> /\ v.val.kind = "pointer"
    BY <1>6, <1>8 DEF Object, HasString
  <2>2. IsAttributed(c.objects[slot].name) /\ ~(v.val.kind = "string")
    BY <1>2, <2>1
  <2>3. objectContents(c, slot, newObject) = Holding(v, slot, v.objects[v.val.ref].text)
    BY <1>8, <2>2, ContentsIs DEF v
  <2> QED
    BY <1>6, <1>8, <2>3
<1>10. TextFound(Holding(v, slot, text), w, text)
  BY <1>4, <1>5, <1>6, <1>8, Held
<1> QED
  BY <1>9, <1>10 DEF w

LEMMA NestedRead ==
  ASSUME NEW shape, Archivable(shape), NEW text, Storable(text),
         NEW d, Reads(d, Nesting(shape)[0]), d.ok, d.b = EncodeAttributedString(shape, text)
  PROVE  TextFound(typedValue(d, newObject), Nesting(shape)[0], text)
<1> DEFINE n == Len(shape.wrappers)
           B == EncodeAttributedString(shape, text)
           Found(k, e) == TextFound(typedValue(e, newObject), Nesting(shape)[k], text)
           At0(k, e) == Reads(e, Nesting(shape)[k]) /\ e.ok /\ e.b = B
           W == {k \in 0 .. n : \A e : At0(k, e) => Found(k, e)}
<1>1. n \in Nat /\ n \in 0 .. n /\ text \in Seq(Nat)
  BY ArchivableParts, LengthSpelled
<1>2. PrefixOf(Opened(shape).b, B)
  <2>1. TextBehind(Opened(shape).b, appendInt(Len(text)), text, B)
    BY ArchiveIs
  <2> QED
    BY <2>1 DEF TextBehind
<1>3. n \in W
  <2>1. ASSUME NEW e, At0(n, e) PROVE Found(n, e)
    BY <2>1, InnerRead
  <2> HIDE DEF Found, At0
  <2> QED
    BY <1>1, <2>1
<1>4. ASSUME NEW k \in 0 .. n - 1, k + 1 \in W PROVE k \in W
  <2> DEFINE j == k + 1
  <2>1. k \in 0 .. n /\ k # n /\ \A e : At0(j, e) => Found(j, e)
    BY <1>1, <1>4
  <2>2. ASSUME NEW e, At0(k, e) PROVE Found(k, e)
    <3>1. \A f : Reads(f, Nesting(shape)[k + 1]) /\ f.ok /\ f.b = B =>
                   TextFound(typedValue(f, newObject), Nesting(shape)[k + 1], text)
      BY <2>1
    <3>2. Reads(e, Nesting(shape)[k]) /\ e.ok /\ e.b = B
      BY <2>2
    <3>3. k \in 0 .. Len(shape.wrappers) /\ k # Len(shape.wrappers)
      BY <2>1
    <3> HIDE DEF B, n
    <3>4. TextFound(typedValue(e, newObject), Nesting(shape)[k], text)
      BY <1>1, <1>2, <3>1, <3>2, <3>3, OuterRead
    <3> QED
      BY <3>4
  <2> HIDE DEF Found, At0
  <2> QED
    BY <2>1, <2>2
<1>5. \A k \in 0 .. n : k \in W
  <2> HIDE DEF n, W
  <2> QED
    BY <1>1, <1>3, <1>4, DownTo
<1>6. 0 \in 0 .. n /\ At0(0, d)
  BY <1>1
<1>7. Found(0, d)
  <2> HIDE DEF Found, At0
  <2> QED
    BY <1>5, <1>6
<1> QED
  BY <1>7

(* The header of an archive is read past, and nothing else.                  *)
LEMMA HeaderRead ==
  ASSUME NEW B \in Seq(Nat), PrefixOf(Header, B), NEW w \in Writers,
         w.b = Header, w.strings = <<>>, w.objects = <<>>
  PROVE  LET d == header(Decoder(B)) IN Reads(d, w) /\ d.ok /\ d.b = B
<1> DEFINE e == Skip(Decoder(B), 3)
           d == header(Decoder(B))
<1>1. /\ Header = <<4, 1, Signature, tagInt16, 232, 3>> /\ Len(Header) = 6
      /\ Header[1] = 4 /\ Header[2] = 1 /\ Header[3] = Signature /\ Header[4] = tagInt16
  <2>1. Header = <<4, 1, Signature, tagInt16, 232, 3>>
    BY HeaderIsBytes
  <2> QED
    BY <2>1
<1>2. Len(B) \in Nat /\ Len(B) >= 6 /\ B[1] = 4 /\ B[2] = 1 /\ B[3] = Signature /\ B[4] = tagInt16
  <2>1. Len(B) \in Nat /\ Len(Header) <= Len(B)
    BY LenProperties DEF PrefixOf
  <2>2. \A i \in 1 .. 6 : B[i] = Header[i]
    BY <1>1 DEF PrefixOf
  <2> HIDE DEF Header
  <2> QED
    BY <1>1, <2>1, <2>2
<1>3. Signed4(B)
  BY <1>2 DEF Signed4
<1>4. /\ e \in Decoders /\ e.pos = 3 /\ e.b = B /\ e.ok
      /\ d \in Decoders /\ d.b = B /\ d.strings = <<>> /\ d.objects = <<>> /\ d = readInt(e)
  BY <1>3, HeaderGood, HeaderIs
<1> HIDE DEF e, d
<1>5. Left(e) >= 3 /\ Peek(e) = tagInt16 /\ Width(e) = 3
  <2>1. Left(e) = Len(B) - 3
    BY <1>4 DEF Left
  <2>2. Peek(e) = B[4]
    BY <1>2, <1>4 DEF Peek
  <2> QED
    BY <1>2, <2>1, <2>2 DEF Width
<1> DEFINE p == e.pos + Width(e)
           t == e.ok
<1>6. d = Make(e.b, p, e.strings, e.objects, t, IntAt(e), e.val)
  <2>1. ~(Left(e) < Width(e))
    BY <1>4, <1>5, DecoderType
  <2> QED
    BY <1>4, <2>1, ReadIntIs
<1>7. p = 6 /\ t
  BY <1>4, <1>5
<1> HIDE DEF p, t
<1>8. d.pos = p /\ d.ok = t
  BY <1>6, MadeFields
<1>9. d.pos = 6 /\ d.ok
  BY <1>7, <1>8
<1>10. Reads(d, w)
  <2>1. StringsOf(d.strings, w.strings) /\ ObjectsOf(d.objects, w.objects)
    BY <1>4 DEF StringsOf, ObjectsOf
  <2> QED
    BY <1>1, <1>4, <1>9, <2>1 DEF Reads
<1> QED
  BY <1>4, <1>9, <1>10 DEF d

(* What was archived is what DecodeText decodes, for every text and chain of  *)
(* classes, any depth of nesting and references of either width: a reference *)
(* leads to what the archiver wrote, names of classes and objects alike.     *)
THEOREM ArchiveDecodes ==
  ASSUME NEW shape, Archivable(shape), NEW text, Storable(text),
         NEW B, B = EncodeAttributedString(shape, text)
  PROVE  B \in Seq(Nat) /\ ~DecodeText(B).err /\ DecodeText(B).text = text
<1> DEFINE w == Nesting(shape)[0]
           d == header(Decoder(B))
           v == typedValue(d, newObject)
<1>1. Shaped(shape) /\ 0 \in 0 .. Len(shape.wrappers)
  BY ArchivableParts
<1>2. w \in Writers /\ w.b = Header /\ w.strings = <<>> /\ w.objects = <<>>
  <2>1. w = NestedBy(shape, Nesting(shape), 0)
    BY <1>1, NestingIs
  <2>2. w = Emit(Writer(shape.wide), Header)
    BY <2>1 DEF NestedBy
  <2> HIDE DEF w
  <2> QED
    BY <1>1, <2>2, BlankWriter DEF Shaped
<1>3. B \in Seq(Nat) /\ PrefixOf(Opened(shape).b, B)
  <2>1. TextBehind(Opened(shape).b, appendInt(Len(text)), text, B)
    BY ArchiveIs
  <2> QED
    BY <2>1 DEF TextBehind
<1>4. PrefixOf(w.b, B)
  <2>1. Longer(w, Opened(shape))
    <3>1. Longer(w, Deeper(shape, 0)) /\ Longer(Deeper(shape, 0), Opened(shape))
      BY <1>1, DeeperGood, DeeperWithin
    <3> QED
      BY <3>1, LongerTransitive
  <2> HIDE DEF w
  <2>2. PrefixOf(w.b, Opened(shape).b) /\ w.b \in Seq(Nat) /\ Opened(shape).b \in Seq(Nat)
    BY <2>1 DEF Longer, Writers
  <2>3. Len(w.b) \in Nat /\ Len(Opened(shape).b) \in Nat /\ Len(B) \in Nat
    BY <1>3, <2>2, LenProperties
  <2> QED
    BY <1>3, <2>2, <2>3, PrefixTransitive
<1>5. Reads(d, w) /\ d.ok /\ d.b = B
  <2> HIDE DEF w
  <2>1. PrefixOf(Header, B)
    BY <1>2, <1>4
  <2> QED
    BY <1>2, <1>3, <2>1, HeaderRead
<1>6. TextFound(v, w, text)
  <2> HIDE DEF d
  <2> QED
    BY <1>5, NestedRead
<1>7. DecodeText(B) = TextOf(v)
  <2>1. Then(d, LAMBDA e : typedValue(e, newObject)) = v
    BY <1>5 DEF Then
  <2> QED
    BY <2>1 DEF DecodeText
<1> HIDE DEF v, w, d
<1>8. TextOf(v) = [text |-> text, err |-> FALSE]
  BY <1>6 DEF TextFound, TextOf
<1> QED
  BY <1>3, <1>7, <1>8

(***************************************************************************)
(* The protobuf of a note: varints                                         *)
(***************************************************************************)

(* The byte of b at offset i behind offset pos.                             *)
Here(b, pos, i) == b[pos + 1 + i]

(* What b has from offset pos on, c has from offset qos on.                 *)
FoundAt(b, pos, c, qos) ==
  \A i \in Nat : pos + i < Len(b) => qos + i < Len(c) /\ Here(c, qos, i) = Here(b, pos, i)

(* Where a varint may end.                                                 *)
Ends(b, pos) == { i \in 0 .. 9 : pos + i < Len(b) /\ Here(b, pos, i) < 128 }

(* The digit i of the varint that ends with digit last.                     *)
Digit(b, pos, last, i) == IF i <= last THEN Here(b, pos, i) % 128 ELSE 0
Big(b, pos, last) == \E i \in 4 .. last : Here(b, pos, i) % 128 # 0

Value(b, pos, last) ==
  Digit(b, pos, last, 0)
    + 128 * (Digit(b, pos, last, 1) + 128 * (Digit(b, pos, last, 2) + 128 * Digit(b, pos, last, 3)))
    + (IF Big(b, pos, last) THEN Large ELSE 0)

LEMMA HereType ==
  ASSUME NEW b \in Seq(Nat), NEW pos \in Nat, NEW i \in Nat, pos + i < Len(b)
  PROVE  Here(b, pos, i) \in Nat
BY DEF Here

LEMMA UvarintIs ==
  ASSUME NEW b, NEW pos
  PROVE  uvarint(b, pos) =
           IF Ends(b, pos) = {} THEN [x |-> 0, n |-> IF Len(b) - pos > 10 THEN -1 ELSE 0]
           ELSE IF Min(Ends(b, pos)) = 9 /\ Here(b, pos, 9) > 1 THEN [x |-> 0, n |-> -1]
           ELSE [x |-> Value(b, pos, Min(Ends(b, pos))), n |-> Min(Ends(b, pos)) + 1]
BY DEF uvarint, Ends, Value, Digit, Big, Here

LEMMA FirstEnd ==
  ASSUME NEW b, NEW pos, Ends(b, pos) # {}
  PROVE  /\ Min(Ends(b, pos)) \in Ends(b, pos)
         /\ \A i \in Ends(b, pos) : Min(Ends(b, pos)) <= i
<1>1. Ends(b, pos) \in SUBSET Nat
  BY DEF Ends
<1>2. \E m \in Ends(b, pos) : \A i \in Ends(b, pos) : m <= i
  BY <1>1, LeastNatural
<1> QED
  BY <1>2 DEF Min

LEMMA ValueType ==
  ASSUME NEW b \in Seq(Nat), NEW pos \in Nat, NEW last \in 0 .. 9, pos + last < Len(b)
  PROVE  Value(b, pos, last) \in Nat
<1>1. \A i \in 0 .. 9 : i <= last => Here(b, pos, i) \in Nat
  BY HereType
<1>2. \A i \in 0 .. 9 : Digit(b, pos, last, i) \in Nat
  <2>1. \A x \in Nat : x % 128 \in Nat
    OBVIOUS
  <2> SUFFICES ASSUME NEW i \in 0 .. 9 PROVE Digit(b, pos, last, i) \in Nat
    OBVIOUS
  <2>2. i <= last => Here(b, pos, i) % 128 \in Nat
    BY <1>1, <2>1
  <2> QED
    BY <2>2 DEF Digit
<1> DEFINE d(i) == Digit(b, pos, last, i)
<1>3. d(0) \in Nat /\ d(1) \in Nat /\ d(2) \in Nat /\ d(3) \in Nat
  BY <1>2
<1>4. Large \in Nat
  BY DEF Large
<1>5. Value(b, pos, last) = d(0) + 128 * (d(1) + 128 * (d(2) + 128 * d(3)))
                             + (IF Big(b, pos, last) THEN Large ELSE 0)
  BY DEF Value
<1>6. \A x, y \in Nat : x + 128 * y \in Nat /\ x + y \in Nat
  OBVIOUS
<1>7. (IF Big(b, pos, last) THEN Large ELSE 0) \in Nat
  BY <1>4
<1> DEFINE big == IF Big(b, pos, last) THEN Large ELSE 0
<1> HIDE DEF d
<1>8. big \in Nat
  BY <1>7
<1> HIDE DEF big
<1>9. d(2) + 128 * d(3) \in Nat
  BY <1>3, <1>6
<1>10. d(1) + 128 * (d(2) + 128 * d(3)) \in Nat
  BY <1>3, <1>6, <1>9
<1>11. d(0) + 128 * (d(1) + 128 * (d(2) + 128 * d(3))) \in Nat
  BY <1>3, <1>6, <1>10
<1>12. d(0) + 128 * (d(1) + 128 * (d(2) + 128 * d(3))) + big \in Nat
  BY <1>6, <1>8, <1>11
<1> QED
  BY <1>5, <1>12 DEF big

(* The number of bytes of a varint, and that it has its bytes.               *)
LEMMA UvarintType ==
  ASSUME NEW b \in Seq(Nat), NEW pos \in Nat
  PROVE  /\ uvarint(b, pos).x \in Nat /\ uvarint(b, pos).n \in -1 .. 10
         /\ uvarint(b, pos).n > 0 => pos + uvarint(b, pos).n <= Len(b)
<1> DEFINE last == Min(Ends(b, pos))
<1>1. CASE Ends(b, pos) = {}
  BY <1>1, UvarintIs
<1>2. CASE Ends(b, pos) # {} /\ last = 9 /\ Here(b, pos, 9) > 1
  BY <1>2, UvarintIs
<1>3. CASE Ends(b, pos) # {} /\ ~(last = 9 /\ Here(b, pos, 9) > 1)
  <2>1. last \in 0 .. 9 /\ pos + last < Len(b)
    BY <1>3, FirstEnd DEF Ends
  <2>2. uvarint(b, pos) = [x |-> Value(b, pos, last), n |-> last + 1]
    BY <1>3, UvarintIs
  <2> HIDE DEF last
  <2>3. Value(b, pos, last) \in Nat
    BY <2>1, ValueType
  <2> QED
    BY <2>1, <2>2, <2>3
<1> QED
  BY <1>1, <1>2, <1>3

(* A varint that was read is read the same wherever its bytes are.           *)
LEMMA UvarintLocal ==
  ASSUME NEW b \in Seq(Nat), NEW pos \in Nat, NEW c \in Seq(Nat), NEW qos \in Nat,
         FoundAt(b, pos, c, qos), uvarint(b, pos).n > 0
  PROVE  uvarint(c, qos) = uvarint(b, pos)
<1> DEFINE last == Min(Ends(b, pos))
<1>1. Ends(b, pos) # {} /\ ~(last = 9 /\ Here(b, pos, 9) > 1)
  BY UvarintIs
<1>2. /\ last \in 0 .. 9 /\ pos + last < Len(b) /\ Here(b, pos, last) < 128
      /\ \A i \in 0 .. 9 : pos + i < Len(b) /\ Here(b, pos, i) < 128 => last <= i
  BY <1>1, FirstEnd DEF Ends
<1>11. uvarint(b, pos) = [x |-> Value(b, pos, last), n |-> last + 1]
  BY <1>1, UvarintIs
<1> HIDE DEF last
<1>3. \A i \in 0 .. 9 : i <= last => Here(c, qos, i) = Here(b, pos, i) /\ qos + i < Len(c)
                                     /\ Here(b, pos, i) \in Nat /\ pos + i < Len(b)
  <2> SUFFICES ASSUME NEW i \in 0 .. 9, i <= last
               PROVE  Here(c, qos, i) = Here(b, pos, i) /\ qos + i < Len(c)
                      /\ Here(b, pos, i) \in Nat /\ pos + i < Len(b)
    OBVIOUS
  <2>1. i \in Nat /\ pos + i < Len(b)
    BY <1>2
  <2> QED
    BY <2>1, HereType DEF FoundAt
<1>4. last \in Ends(c, qos)
  BY <1>2, <1>3 DEF Ends
<1>5. ASSUME NEW i \in 0 .. 9, i \in Ends(c, qos) PROVE last <= i
  <2>1. qos + i < Len(c) /\ Here(c, qos, i) < 128
    BY <1>5 DEF Ends
  <2>2. CASE i < last
    <3>1. i <= last
      BY <1>2, <2>2
    <3>2. Here(c, qos, i) = Here(b, pos, i) /\ pos + i < Len(b)
      BY <1>3, <3>1
    <3> QED
      BY <1>2, <2>1, <3>2
  <2> QED
    BY <1>2, <2>2
<1>6. Min(Ends(c, qos)) = last
  <2> DEFINE m == Min(Ends(c, qos))
  <2>1. m \in Ends(c, qos) /\ m <= last
    BY <1>4, FirstEnd
  <2>2. m \in 0 .. 9
    BY <2>1 DEF Ends
  <2> HIDE DEF m
  <2>3. last <= m
    BY <1>5, <2>1, <2>2
  <2>4. m = last
    BY <1>2, <2>1, <2>2, <2>3
  <2> QED
    BY <2>4 DEF m
<1>7. \A i \in 0 .. 9 : Digit(c, qos, last, i) = Digit(b, pos, last, i)
  BY <1>2, <1>3 DEF Digit
<1>8. Big(c, qos, last) <=> Big(b, pos, last)
  <2>1. \A i \in 4 .. last : i \in 0 .. 9 /\ i <= last
    BY <1>2
  <2> QED
    BY <1>3, <2>1 DEF Big
<1>9. Value(c, qos, last) = Value(b, pos, last)
  BY <1>7, <1>8 DEF Value
<1>10. ~(last = 9 /\ Here(c, qos, 9) > 1)
  BY <1>1, <1>2, <1>3 DEF last
<1>12. uvarint(c, qos) = [x |-> Value(c, qos, last), n |-> last + 1]
  BY <1>4, <1>6, <1>10, UvarintIs
<1> QED
  BY <1>9, <1>11, <1>12

(* -------------------------- walking over fields ------------------------- *)

Field(buf, pos) ==
  LET f == fieldAt(buf, pos)
  IN  /\ f.ok \in BOOLEAN /\ f.number \in Nat /\ f.wire \in 0 .. 7
      /\ f.start \in Int /\ f.end \in Int
      /\ f.ok => /\ f.end > pos /\ f.end <= Len(buf)
                 /\ f.wire = wireLen => f.start > pos /\ f.start <= f.end

LEMMA KeyParts ==
  ASSUME NEW x \in Nat
  PROVE  x % 8 \in 0 .. 7 /\ x \div 8 \in Nat
OBVIOUS

LEMMA FieldIs ==
  ASSUME NEW buf, NEW pos, NEW kx, NEW kn, NEW at, NEW vx, NEW vn,
         kx = uvarint(buf, pos).x, kn = uvarint(buf, pos).n, at = pos + kn,
         vx = uvarint(buf, at).x, vn = uvarint(buf, at).n
  PROVE  fieldAt(buf, pos) = FieldOf(Len(buf), kx, kn, vx, vn, at)
BY DEF fieldAt

LEMMA FieldOfType ==
  ASSUME NEW n \in Nat, NEW pos \in Nat, NEW kx \in Nat, NEW kn \in 1 .. 10,
         NEW vx \in Nat, NEW vn \in -1 .. 10, NEW at \in Nat, at = pos + kn
  PROVE  LET f == FieldOf(n, kx, kn, vx, vn, at)
         IN  /\ f.ok \in BOOLEAN /\ f.number \in Nat /\ f.wire \in 0 .. 7
             /\ f.start \in Int /\ f.end \in Int
             /\ f.ok => /\ f.end > pos /\ f.end <= n
                        /\ f.wire = wireLen => f.start > pos /\ f.start <= f.end
<1>1. kx % 8 \in 0 .. 7 /\ kx \div 8 \in Nat
  BY KeyParts
<1> QED
  BY <1>1 DEF FieldOf, wireVarint, wireI64, wireLen, wireI32

LEMMA FieldType ==
  ASSUME NEW buf \in Seq(Nat), NEW pos \in Nat, uvarint(buf, pos).n > 0
  PROVE  Field(buf, pos)
<1>1. PICK kx, kn : kx = uvarint(buf, pos).x /\ kn = uvarint(buf, pos).n
  OBVIOUS
<1>2. kx \in Nat /\ kn \in 1 .. 10
  <2>1. kx \in Nat /\ kn \in -1 .. 10 /\ kn > 0
    BY <1>1, UvarintType
  <2> QED
    BY <2>1
<1>3. PICK at \in Nat : at = pos + kn
  BY <1>2
<1>4. PICK vx, vn : vx = uvarint(buf, at).x /\ vn = uvarint(buf, at).n
  OBVIOUS
<1>5. vx \in Nat /\ vn \in -1 .. 10
  BY <1>4, UvarintType
<1>6. fieldAt(buf, pos) = FieldOf(Len(buf), kx, kn, vx, vn, at)
  BY <1>1, <1>3, <1>4, FieldIs
<1>7. Len(buf) \in Nat
  OBVIOUS
<1> QED
  <2>1. PICK n \in Nat : n = Len(buf)
    BY <1>7
  <2> DEFINE f == FieldOf(n, kx, kn, vx, vn, at)
  <2>2. /\ f.ok \in BOOLEAN /\ f.number \in Nat /\ f.wire \in 0 .. 7
        /\ f.start \in Int /\ f.end \in Int
        /\ f.ok => /\ f.end > pos /\ f.end <= n
                   /\ f.wire = wireLen => f.start > pos /\ f.start <= f.end
    BY <1>2, <1>3, <1>5, FieldOfType
  <2>3. fieldAt(buf, pos) = f
    BY <1>6, <2>1
  <2> HIDE DEF f
  <2> QED
    BY <2>1, <2>2, <2>3 DEF Field

LEMMA NoField ==
  ASSUME NEW buf, NEW pos, ~(uvarint(buf, pos).n > 0)
  PROVE  ~fieldAt(buf, pos).ok
BY DEF fieldAt, FieldOf

LEMMA FoundAhead ==
  ASSUME NEW b, NEW pos \in Nat, NEW c, NEW qos \in Nat, FoundAt(b, pos, c, qos), NEW k \in Nat
  PROVE  FoundAt(b, pos + k, c, qos + k)
<1> SUFFICES ASSUME NEW i \in Nat, pos + k + i < Len(b)
             PROVE  qos + k + i < Len(c) /\ Here(c, qos + k, i) = Here(b, pos + k, i)
  BY DEF FoundAt
<1>1. k + i \in Nat /\ pos + (k + i) = pos + k + i /\ qos + (k + i) = qos + k + i
  OBVIOUS
<1>2. qos + (k + i) < Len(c) /\ Here(c, qos, k + i) = Here(b, pos, k + i)
  BY <1>1 DEF FoundAt
<1>3. qos + 1 + (k + i) = qos + k + 1 + i /\ pos + 1 + (k + i) = pos + k + 1 + i
  OBVIOUS
<1> QED
  BY <1>1, <1>2, <1>3 DEF Here

EndsFit(pos, n, qos, m) == \A i \in Nat : i > 0 /\ pos + i <= n => qos + i <= m

(* Fields f at pos and g at qos are the same but for their places; f ends by n. *)
Alike(f, pos, n, g, qos) ==
  /\ g.ok /\ g.number = f.number /\ g.wire = f.wire
  /\ \E k \in Nat, m \in Nat :
       /\ f.end = pos + m /\ g.end = qos + m /\ m > 0 /\ pos + m <= n
       /\ f.wire = wireLen => k <= m /\ f.start = pos + k /\ g.start = qos + k

LEMMA FoundFits ==
  ASSUME NEW b \in Seq(Nat), NEW pos \in Nat, NEW c \in Seq(Nat), NEW qos \in Nat,
         FoundAt(b, pos, c, qos)
  PROVE  EndsFit(pos, Len(b), qos, Len(c))
<1> SUFFICES ASSUME NEW i \in Nat, i > 0, pos + i <= Len(b) PROVE qos + i <= Len(c)
  BY DEF EndsFit
<1>1. i - 1 \in Nat /\ pos + (i - 1) < Len(b)
  OBVIOUS
<1>2. qos + (i - 1) < Len(c)
  BY <1>1 DEF FoundAt
<1> QED
  BY <1>2

LEMMA FieldOfLocal ==
  ASSUME NEW n \in Nat, NEW pos \in Nat, NEW m \in Nat, NEW qos \in Nat,
         NEW kx \in Nat, NEW kn \in 1 .. 10, NEW at \in Nat, at = pos + kn,
         NEW ct \in Nat, ct = qos + kn,
         NEW vx \in Nat, NEW vn \in -1 .. 10, NEW wx \in Nat, NEW wn \in -1 .. 10,
         vn > 0 => wn = vn /\ wx = vx,
         EndsFit(pos, n, qos, m),
         FieldOf(n, kx, kn, vx, vn, at).ok
  PROVE  Alike(FieldOf(n, kx, kn, vx, vn, at), pos, n, FieldOf(m, kx, kn, wx, wn, ct), qos)
<1>1. kx % 8 \in 0 .. 7 /\ kx \div 8 \in Nat
  BY KeyParts
<1> DEFINE f == FieldOf(n, kx, kn, vx, vn, at)
           g == FieldOf(m, kx, kn, wx, wn, ct)
           wire == kx % 8
           m1 == IF wire = wireVarint THEN kn + vn
                 ELSE IF wire = wireI64 THEN kn + 8
                 ELSE IF wire = wireI32 THEN kn + 4
                 ELSE kn + vn + vx
<1>2. /\ g.number = f.number /\ g.wire = f.wire
      /\ m1 \in Nat /\ m1 > 0 /\ f.end = pos + m1 /\ g.end = qos + m1 /\ pos + m1 <= n
      /\ g.end <= m => g.ok
  BY <1>1 DEF FieldOf, wireVarint, wireI64, wireLen, wireI32
<1>3. f.wire = wireLen => kn + vn \in Nat /\ kn + vn <= m1 /\ f.start = pos + (kn + vn)
                          /\ g.start = qos + (kn + vn)
  BY <1>1 DEF FieldOf, wireVarint, wireI64, wireLen, wireI32
<1> HIDE DEF f, g, m1
<1>4. g.end <= m
  BY <1>2 DEF EndsFit
<1>5. \E k \in Nat, e \in Nat :
        /\ f.end = pos + e /\ g.end = qos + e /\ e > 0 /\ pos + e <= n
        /\ f.wire = wireLen => k <= e /\ f.start = pos + k /\ g.start = qos + k
  <2>1. CASE f.wire = wireLen
    BY <1>2, <1>3, <2>1
  <2>2. CASE f.wire # wireLen
    <3>1. 0 \in Nat
      OBVIOUS
    <3> QED
      BY <1>2, <2>2, <3>1
  <2> QED
    BY <2>1, <2>2
<1> QED
  BY <1>2, <1>4, <1>5 DEF f, g, Alike

(* A field that was read is read the same wherever its bytes are.            *)
LEMMA FieldLocal ==
  ASSUME NEW b \in Seq(Nat), NEW pos \in Nat, NEW c \in Seq(Nat), NEW qos \in Nat,
         FoundAt(b, pos, c, qos), fieldAt(b, pos).ok
  PROVE  Alike(fieldAt(b, pos), pos, Len(b), fieldAt(c, qos), qos)
<1>1. PICK kx, kn : kx = uvarint(b, pos).x /\ kn = uvarint(b, pos).n
  OBVIOUS
<1>2. uvarint(b, pos).n > 0
  BY NoField
<1>3. kx \in Nat /\ kn \in 1 .. 10
  <2>1. kx \in Nat /\ kn \in -1 .. 10 /\ kn > 0
    BY <1>1, <1>2, UvarintType
  <2> QED
    BY <2>1
<1>4. uvarint(c, qos) = uvarint(b, pos)
  BY <1>2, UvarintLocal
<1>5. PICK at \in Nat, ct \in Nat : at = pos + kn /\ ct = qos + kn
  BY <1>3
<1>6. PICK vx, vn, wx, wn : vx = uvarint(b, at).x /\ vn = uvarint(b, at).n
                            /\ wx = uvarint(c, ct).x /\ wn = uvarint(c, ct).n
  OBVIOUS
<1>7. vx \in Nat /\ vn \in -1 .. 10 /\ wx \in Nat /\ wn \in -1 .. 10
  BY <1>6, UvarintType
<1>8. fieldAt(b, pos) = FieldOf(Len(b), kx, kn, vx, vn, at)
  BY <1>1, <1>5, <1>6, FieldIs
<1>9. fieldAt(c, qos) = FieldOf(Len(c), kx, kn, wx, wn, ct)
  <2>1. kx = uvarint(c, qos).x /\ kn = uvarint(c, qos).n
    BY <1>1, <1>4
  <2>2. wx = uvarint(c, ct).x /\ wn = uvarint(c, ct).n /\ ct = qos + kn
    BY <1>5, <1>6
  <2> QED
    BY ONLY <2>1, <2>2, FieldIs
<1>10. FoundAt(b, at, c, ct)
  <2>1. kn \in Nat
    BY <1>3
  <2>2. FoundAt(b, pos + kn, c, qos + kn)
    BY <2>1, FoundAhead
  <2> QED
    BY <1>5, <2>2
<1>11. vn > 0 => wn = vn /\ wx = vx
  BY <1>5, <1>6, <1>10, UvarintLocal
<1>12. EndsFit(pos, Len(b), qos, Len(c))
  BY FoundFits
<1>13. Len(b) \in Nat /\ Len(c) \in Nat
  OBVIOUS
<1> QED
  <2>1. PICK n \in Nat, m \in Nat : n = Len(b) /\ m = Len(c)
    BY <1>13
  <2> DEFINE f == FieldOf(n, kx, kn, vx, vn, at)
             g == FieldOf(m, kx, kn, wx, wn, ct)
  <2>2. fieldAt(b, pos) = f /\ fieldAt(c, qos) = g
    BY <1>8, <1>9, <2>1
  <2>3. f.ok
    BY <2>2
  <2>4. EndsFit(pos, n, qos, m)
    BY <1>12, <2>1
  <2>5. Alike(f, pos, n, g, qos)
    BY <1>3, <1>5, <1>7, <1>11, <2>3, <2>4, FieldOfLocal
  <2> HIDE DEF f, g
  <2> QED
    BY <2>1, <2>2, <2>5

(* ------------------------ the walk of lenField ------------------------- *)

Answers == [ok : {TRUE}, bytes : Seq(Nat)] \cup {Absent}

(* lenField's function of the position.                                    *)
Search(buf, want) ==
  LET from[pos \in 0..Len(buf)] ==
        LET f == fieldAt(buf, pos) IN
        IF ~f.ok THEN Absent
        ELSE IF f.wire = wireLen /\ f.number = want
        THEN [ok |-> TRUE, bytes |-> SubSeq(buf, f.start + 1, f.end)]
        ELSE from[f.end]
  IN  from

LEMMA LenFieldWalks ==
  ASSUME NEW buf, NEW want
  PROVE  lenField(buf, want) = Search(buf, want)[0]
BY Zenon DEF lenField, Search

(* What the walk finds at a field, given what it finds behind it.            *)
Found(buf, want, f, rest) ==
  IF ~f.ok THEN Absent
  ELSE IF f.wire = wireLen /\ f.number = want
  THEN [ok |-> TRUE, bytes |-> SubSeq(buf, f.start + 1, f.end)]
  ELSE rest

LEMMA FieldEnds ==
  ASSUME NEW buf \in Seq(Nat), NEW pos \in 0 .. Len(buf), fieldAt(buf, pos).ok
  PROVE  /\ fieldAt(buf, pos).end \in 0 .. Len(buf) /\ fieldAt(buf, pos).end > pos
         /\ fieldAt(buf, pos).wire = wireLen =>
              SubSeq(buf, fieldAt(buf, pos).start + 1, fieldAt(buf, pos).end) \in Seq(Nat)
<1>1. Field(buf, pos)
  BY NoField, FieldType
<1>2. PICK s, e : s = fieldAt(buf, pos).start /\ e = fieldAt(buf, pos).end
  OBVIOUS
<1>3. s \in Int /\ e \in Int /\ e > pos /\ e <= Len(buf)
      /\ (fieldAt(buf, pos).wire = wireLen => s > pos /\ s <= e)
  BY <1>1, <1>2 DEF Field
<1>4. e \in 0 .. Len(buf)
  BY <1>3
<1>5. ASSUME s > pos, s <= e PROVE SubSeq(buf, s + 1, e) \in Seq(Nat)
  <2>1. s + 1 \in 1 .. Len(buf) + 1
    BY <1>3, <1>5
  <2> QED
    BY <1>3, <1>5, <2>1
<1> QED
  BY <1>2, <1>3, <1>4, <1>5

LEMMA SearchIs ==
  ASSUME NEW buf \in Seq(Nat), NEW want
  PROVE  /\ Search(buf, want) \in [0 .. Len(buf) -> Answers]
         /\ \A pos \in 0 .. Len(buf) :
              Search(buf, want)[pos] =
                Found(buf, want, fieldAt(buf, pos), Search(buf, want)[fieldAt(buf, pos).end])
<1> DEFINE D == 0 .. Len(buf)
           E(g, pos) == Found(buf, want, fieldAt(buf, pos), g[fieldAt(buf, pos).end])
           step == [g \in [D -> Answers] |-> [pos \in D |-> E(g, pos)]]
           size == [pos \in D |-> Len(buf) - pos]
           Is(f) == f = [pos \in D |-> E(f, pos)]
<1>1. Absent \in Answers
  BY DEF Absent, Answers
<1>2. ASSUME NEW g \in [D -> Answers], NEW pos \in D PROVE E(g, pos) \in Answers
  <2>1. CASE ~fieldAt(buf, pos).ok
    BY <1>1, <2>1 DEF Found
  <2>2. CASE fieldAt(buf, pos).ok
    <3>1. fieldAt(buf, pos).end \in D
      BY <2>2, FieldEnds
    <3>2. g[fieldAt(buf, pos).end] \in Answers
      BY <3>1
    <3>3. fieldAt(buf, pos).wire = wireLen =>
            [ok |-> TRUE, bytes |-> SubSeq(buf, fieldAt(buf, pos).start + 1, fieldAt(buf, pos).end)]
              \in Answers
      BY <2>2, FieldEnds DEF Answers
    <3> QED
      BY <2>2, <3>2, <3>3 DEF Found
  <2> QED
    BY <2>1, <2>2
<1>3. ASSUME NEW pos \in D, NEW g, NEW h,
             \A e \in D : size[e] < size[pos] => g[e] = h[e]
      PROVE  E(g, pos) = E(h, pos)
  <2>1. CASE ~fieldAt(buf, pos).ok
    BY <2>1 DEF Found
  <2>2. CASE fieldAt(buf, pos).ok
    <3>1. PICK e \in D : e = fieldAt(buf, pos).end /\ e > pos
      BY <2>2, FieldEnds
    <3>2. size[e] < size[pos]
      BY <3>1
    <3>3. g[e] = h[e]
      BY <1>3, <3>2
    <3> QED
      BY <3>1, <3>3
  <2> QED
    BY <2>1, <2>2
<1> HIDE DEF E
<1>4. Recursion(step, size, D, Answers)
  <2>1. step \in [[D -> Answers] -> [D -> Answers]]
    BY <1>2
  <2>2. size \in [D -> Nat]
    OBVIOUS
  <2>3. ASSUME NEW pos \in D, NEW g \in [D -> Answers], NEW h \in [D -> Answers],
               \A e \in D : size[e] < size[pos] => g[e] = h[e]
        PROVE  step[g][pos] = step[h][pos]
    <3>1. E(g, pos) = E(h, pos)
      BY <1>3, <2>3
    <3> QED
      BY <3>1
  <2> HIDE DEF step, size
  <2> QED
    BY <2>1, <2>2, <2>3 DEF Recursion
<1>5. PICK t \in [D -> Answers] : t = step[t]
  <2> HIDE DEF step, size, D
  <2> QED
    BY <1>1, <1>4, RecursionEnds
<1>6. t = [pos \in D |-> E(t, pos)]
  <2> HIDE DEF D
  <2>1. step[t] = [pos \in D |-> E(t, pos)]
    BY Zenon
  <2> QED
    BY <1>5, <2>1, Zenon
<1>7. Search(buf, want) = CHOOSE f : Is(f)
  BY DEF Search, E, Found
<1> DEFINE f == Search(buf, want)
<1>8. f = [pos \in D |-> E(f, pos)]
  <2>1. Is(t)
    BY <1>6, Zenon
  <2> HIDE DEF Is
  <2>2. Is(f)
    BY <1>7, <2>1, Zenon
  <2> QED
    BY <2>2, Zenon DEF Is
<1>9. \A pos \in D : size[pos] \in Nat
  OBVIOUS
<1> HIDE DEF f, D, size
<1>10. \A pos \in D : f[pos] = t[pos]
  <2>1. \A pos \in D : t[pos] = E(t, pos)
    BY <1>6, Zenon
  <2>2. \A pos \in D : f[pos] = E(f, pos)
    BY <1>8, Zenon
  <2>3. \A pos \in D : (\A e \in D : size[e] < size[pos] => f[e] = t[e]) => f[pos] = t[pos]
    BY <1>3, <2>1, <2>2, Zenon
  <2>4. Descends(D, size, f, t)
    BY <1>9, <2>3, Zenon DEF Descends
  <2> QED
    BY <2>4, SameBySize
<1>11. f \in [D -> Answers]
  <2>1. \A pos \in D : f[pos] \in Answers
    BY <1>5, <1>10, Zenon
  <2>2. f = [pos \in D |-> f[pos]]
    BY <1>8, Zenon
  <2> QED
    BY <2>1, <2>2, Zenon
<1>12. \A pos \in D : f[pos] = E(f, pos)
  BY <1>8, Zenon
<1> QED
  BY <1>11, <1>12, Zenon DEF D, E, f


(* The bytes from offset k to offset m behind offset pos.                   *)
Part(b, pos, k, m) == SubSeq(b, pos + k + 1, pos + m)

LEMMA PartFound ==
  ASSUME NEW b \in Seq(Nat), NEW pos \in Nat, NEW c \in Seq(Nat), NEW qos \in Nat,
         FoundAt(b, pos, c, qos), NEW k \in Nat, NEW m \in Nat, k <= m, pos + m <= Len(b)
  PROVE  Part(c, qos, k, m) = Part(b, pos, k, m)
<1>1. qos + m <= Len(c) \/ m = 0
  <2>1. EndsFit(pos, Len(b), qos, Len(c))
    BY FoundFits
  <2> QED
    BY <2>1 DEF EndsFit
<1> DEFINE x == SubSeq(b, pos + k + 1, pos + m)
           y == SubSeq(c, qos + k + 1, qos + m)
<1>2. CASE m = k
  BY <1>2 DEF Part
<1>3. CASE m > k
  <2>1. pos + k + 1 \in 1 .. Len(b) /\ pos + m \in 1 .. Len(b)
    BY <1>3
  <2>2. qos + k + 1 \in 1 .. Len(c) /\ qos + m \in 1 .. Len(c)
    BY <1>1, <1>3
  <2>3. x \in Seq(Nat) /\ Len(x) = m - k /\ \A i \in 1 .. m - k : x[i] = b[pos + k + i]
    BY <2>1, <1>3
  <2>4. y \in Seq(Nat) /\ Len(y) = m - k /\ \A i \in 1 .. m - k : y[i] = c[qos + k + i]
    BY <2>2, <1>3
  <2>5. ASSUME NEW i \in 1 .. m - k PROVE c[qos + k + i] = b[pos + k + i]
    <3>1. k + i - 1 \in Nat /\ pos + (k + i - 1) < Len(b)
      OBVIOUS
    <3>2. Here(c, qos, k + i - 1) = Here(b, pos, k + i - 1)
      BY <3>1 DEF FoundAt
    <3>3. qos + 1 + (k + i - 1) = qos + k + i /\ pos + 1 + (k + i - 1) = pos + k + i
      OBVIOUS
    <3> QED
      BY <3>2, <3>3 DEF Here
  <2> HIDE DEF x, y
  <2>6. x = y
    BY <2>3, <2>4, <2>5, SeqEqual
  <2> QED
    BY <2>6 DEF x, y, Part
<1> QED
  BY <1>2, <1>3

(* What the walk of b finds from p on, the walk of c finds from q on.         *)
FoundTwice(b, p, c, q, want) ==
  FoundAt(b, p, c, q) /\ Search(b, want)[p].ok => Search(c, want)[q] = Search(b, want)[p]

LEMMA SearchStep ==
  ASSUME NEW b \in Seq(Nat), NEW c \in Seq(Nat), NEW want,
         NEW p \in 0 .. Len(b), NEW q \in 0 .. Len(c),
         \A e \in 0 .. Len(b), d \in 0 .. Len(c) : e > p => FoundTwice(b, e, c, d, want)
  PROVE  FoundTwice(b, p, c, q, want)
<1> SUFFICES ASSUME FoundAt(b, p, c, q), Search(b, want)[p].ok
             PROVE  Search(c, want)[q] = Search(b, want)[p]
  BY DEF FoundTwice
<1>0. p \in Nat /\ q \in Nat
  OBVIOUS
<1> DEFINE f == fieldAt(b, p)
           g == fieldAt(c, q)
<1>1. Search(b, want)[p] = Found(b, want, f, Search(b, want)[f.end])
  BY SearchIs
<1>2. Search(c, want)[q] = Found(c, want, g, Search(c, want)[g.end])
  BY SearchIs
<1>3. f.ok
  BY <1>1 DEF Found, Absent
<1>4. Alike(f, p, Len(b), g, q)
  BY <1>3, FieldLocal
<1>5. g.ok /\ g.number = f.number /\ g.wire = f.wire
  BY <1>4 DEF Alike
<1>6. PICK k \in Nat, m \in Nat :
        /\ f.end = p + m /\ g.end = q + m /\ m > 0 /\ p + m <= Len(b)
        /\ f.wire = wireLen => k <= m /\ f.start = p + k /\ g.start = q + k
  BY <1>4 DEF Alike
<1>7. g.end \in 0 .. Len(c)
  BY <1>5, FieldEnds
<1> HIDE DEF f, g
<1>8. CASE f.wire = wireLen /\ f.number = want
  <2>0. k <= m /\ p + m <= Len(b)
    BY <1>6, <1>8
  <2>1. Part(c, q, k, m) = Part(b, p, k, m)
    BY <1>0, <2>0, PartFound
  <2>2. SubSeq(c, g.start + 1, g.end) = SubSeq(b, f.start + 1, f.end)
    BY <1>6, <1>8, <2>1 DEF Part
  <2> QED
    BY <1>1, <1>2, <1>3, <1>5, <1>8, <2>2 DEF Found
<1>9. CASE ~(f.wire = wireLen /\ f.number = want)
  <2>1. Search(b, want)[p] = Search(b, want)[f.end] /\ Search(c, want)[q] = Search(c, want)[g.end]
    BY <1>1, <1>2, <1>3, <1>5, <1>9 DEF Found
  <2>2. FoundAt(b, p + m, c, q + m)
    BY <1>0, FoundAhead
  <2>3. p + m \in 0 .. Len(b) /\ q + m \in 0 .. Len(c) /\ p + m > p
    BY <1>6, <1>7
  <2>4. FoundTwice(b, p + m, c, q + m, want)
    BY <2>3
  <2> QED
    BY <1>6, <2>1, <2>2, <2>4 DEF FoundTwice
<1> QED
  BY <1>8, <1>9

(* What the walk of b finds, the walk of c finds in the same bytes.          *)
LEMMA SearchLocal ==
  ASSUME NEW b \in Seq(Nat), NEW c \in Seq(Nat), NEW want,
         NEW pos \in 0 .. Len(b), NEW qos \in 0 .. Len(c), FoundAt(b, pos, c, qos),
         Search(b, want)[pos].ok
  PROVE  Search(c, want)[qos] = Search(b, want)[pos]
<1> DEFINE Holds(p, q) == FoundTwice(b, p, c, q, want)
           W == {n \in 0 .. Len(b) : \A p \in 0 .. Len(b), q \in 0 .. Len(c) :
                                       Len(b) - p <= n => Holds(p, q)}
<1>0. Len(b) \in Nat /\ Len(c) \in Nat
  OBVIOUS
<1>1. ASSUME NEW p \in 0 .. Len(b), NEW q \in 0 .. Len(c),
             \A e \in 0 .. Len(b), d \in 0 .. Len(c) : e > p => Holds(e, d)
      PROVE  Holds(p, q)
  BY <1>1, SearchStep
<1> HIDE DEF Holds
<1>2. 0 \in W
  <2> SUFFICES ASSUME NEW p \in 0 .. Len(b), NEW q \in 0 .. Len(c), Len(b) - p <= 0 PROVE Holds(p, q)
    BY <1>0
  <2>2. \A e \in 0 .. Len(b), d \in 0 .. Len(c) : e > p => Holds(e, d)
    BY <1>0
  <2> QED
    BY <1>1, <2>2
<1>3. ASSUME NEW n \in 1 .. Len(b), n - 1 \in W PROVE n \in W
  <2> SUFFICES ASSUME NEW p \in 0 .. Len(b), NEW q \in 0 .. Len(c), Len(b) - p <= n PROVE Holds(p, q)
    BY <1>0
  <2>1. \A e \in 0 .. Len(b), d \in 0 .. Len(c) : e > p => Holds(e, d)
    BY <1>0, <1>3
  <2> QED
    BY <1>1, <2>1
<1>4. Len(b) \in W
  <2> HIDE DEF W
  <2>1. \A n \in 0 .. Len(b) : n \in W
    BY <1>0, <1>2, <1>3, UpTo
  <2> QED
    BY <1>0, <2>1
<1>5. Holds(pos, qos)
  BY <1>0, <1>4
<1> QED
  BY <1>5 DEF Holds, FoundTwice

(* ---------------------- what encoders write ---------------------------- *)

LEMMA FoundInside ==
  ASSUME NEW x \in Seq(Nat), NEW y \in Seq(Nat), NEW z \in Seq(Nat)
  PROVE  /\ (x \o y) \o z \in Seq(Nat)
         /\ Len((x \o y) \o z) = Len(x) + Len(y) + Len(z)
         /\ FoundAt(y, 0, (x \o y) \o z, Len(x))
<1> DEFINE w == x \o y
           c == w \o z
<1>1. w \in Seq(Nat) /\ Len(w) = Len(x) + Len(y) /\ \A i \in 1 .. Len(y) : w[Len(x) + i] = y[i]
  BY ConcatProperties
<1> HIDE DEF w
<1>2. c \in Seq(Nat) /\ Len(c) = Len(w) + Len(z) /\ \A i \in 1 .. Len(w) : c[i] = w[i]
  <2>1. /\ c \in Seq(Nat) /\ Len(c) = Len(w) + Len(z)
        /\ \A i \in 1 .. Len(w) + Len(z) : c[i] = IF i <= Len(w) THEN w[i] ELSE z[i - Len(w)]
    BY <1>1, ConcatProperties
  <2>2. Len(w) \in Nat /\ Len(z) \in Nat
    BY <1>1
  <2> QED
    BY <2>1, <2>2
<1> HIDE DEF c
<1>3. ASSUME NEW i \in Nat, 0 + i < Len(y)
      PROVE  Len(x) + i < Len(c) /\ Here(c, Len(x), i) = Here(y, 0, i)
  <2>1. i + 1 \in 1 .. Len(y) /\ Len(x) + (i + 1) \in 1 .. Len(w)
    BY <1>1, <1>3
  <2>2. c[Len(x) + (i + 1)] = y[i + 1]
    BY <1>1, <1>2, <2>1
  <2>3. Len(x) + 1 + i = Len(x) + (i + 1) /\ 0 + 1 + i = i + 1
    OBVIOUS
  <2> QED
    BY <1>1, <1>2, <1>3, <2>2, <2>3 DEF Here
<1> QED
  BY <1>1, <1>2, <1>3 DEF c, w, FoundAt

LEMMA FoundInCut ==
  ASSUME NEW c \in Seq(Nat), NEW n \in 0 .. Len(c)
  PROVE  SubSeq(c, 1, n) \in Seq(Nat) /\ FoundAt(SubSeq(c, 1, n), 0, c, 0)
<1> DEFINE b == SubSeq(c, 1, n)
<1>1. b \in Seq(Nat) /\ Len(b) = n /\ \A i \in 1 .. n : b[i] = c[i]
  OBVIOUS
<1> HIDE DEF b
<1>2. ASSUME NEW i \in Nat, 0 + i < Len(b) PROVE 0 + i < Len(c) /\ Here(c, 0, i) = Here(b, 0, i)
  <2>1. i + 1 \in 1 .. n /\ 0 + 1 + i = i + 1
    BY <1>1, <1>2
  <2>2. b[i + 1] = c[i + 1]
    BY <1>1, <2>1
  <2> QED
    BY <1>1, <2>1, <2>2 DEF Here
<1> QED
  BY <1>1, <1>2 DEF b, FoundAt

(* A cut message that can be walked to the field says the same as the whole. *)
LEMMA CutLenField ==
  ASSUME NEW c \in Seq(Nat), NEW n \in 0 .. Len(c), NEW want,
         lenField(SubSeq(c, 1, n), want).ok
  PROVE  lenField(c, want) = lenField(SubSeq(c, 1, n), want)
<1> DEFINE b == SubSeq(c, 1, n)
<1>1. b \in Seq(Nat) /\ FoundAt(b, 0, c, 0)
  BY FoundInCut
<1>2. Search(b, want)[0].ok
  BY LenFieldWalks
<1>3. 0 \in 0 .. Len(b) /\ 0 \in 0 .. Len(c)
  BY <1>1
<1> HIDE DEF b
<1>4. Search(c, want)[0] = Search(b, want)[0]
  BY <1>1, <1>2, <1>3, SearchLocal
<1> QED
  BY <1>4, LenFieldWalks DEF b

LEMMA DigitsOf ==
  ASSUME NEW v \in Nat
  PROVE  /\ v \div 128 \in Nat /\ v % 128 \in 0 .. 127 /\ v = (v % 128) + 128 * (v \div 128)
OBVIOUS
LEMMA NoDigits ==
  ASSUME NEW v \in Nat, v < 128
  PROVE  v \div 128 = 0 /\ v % 128 = v
OBVIOUS

LEMMA DigitRead ==
  ASSUME NEW x \in 0 .. 127
  PROVE  (128 + x) % 128 = x /\ x % 128 = x
<1>1. 128 + x \in Nat /\ x \in Nat /\ x < 128
  OBVIOUS
<1>2. x % 128 = x
  BY <1>1, NoDigits
<1> DEFINE r == (128 + x) % 128
           q == (128 + x) \div 128
<1>3. r \in 0 .. 127 /\ q \in Nat /\ 128 + x = r + 128 * q
  BY <1>1, DigitsOf
<1> HIDE DEF r, q
<1>4. r = x
  BY <1>3
<1> QED
  BY <1>2, <1>4 DEF r

(* The varint s of n + 1 bytes with these digits.                            *)
Spells(s, n, d0, d1, d2, d3) ==
  /\ Len(s) = n + 1
  /\ s[1] = IF n > 0 THEN 128 + d0 ELSE d0
  /\ n >= 1 => s[2] = IF n > 1 THEN 128 + d1 ELSE d1
  /\ n >= 2 => s[3] = IF n > 2 THEN 128 + d2 ELSE d2
  /\ n >= 3 => s[4] = d3
  /\ (n < 1 => d1 = 0) /\ (n < 2 => d2 = 0) /\ (n < 3 => d3 = 0)

FromDigits(d0, d1, d2, d3) == d0 + 128 * (d1 + 128 * (d2 + 128 * d3))

(* The bytes s start with the varint v of n bytes.                          *)
BeginsVarint(s, v, n) == uvarint(s, 0) = [x |-> v, n |-> n]

LEMMA Below ==
  ASSUME NEW n \in 0 .. 3, NEW m, m = n + 1
  PROVE  \A i : i \in 0 .. 9 /\ 0 + i < m <=> i \in 0 .. 3 /\ i <= n
OBVIOUS

LEMMA VarintOfDigits ==
  ASSUME NEW n \in 0 .. 3, NEW s \in Seq(Nat),
         NEW d0 \in 0 .. 127, NEW d1 \in 0 .. 127, NEW d2 \in 0 .. 127, NEW d3 \in 0 .. 127,
         Spells(s, n, d0, d1, d2, d3)
  PROVE  BeginsVarint(s, FromDigits(d0, d1, d2, d3), n + 1)
<1>1. /\ Here(s, 0, 0) = IF n > 0 THEN 128 + d0 ELSE d0
      /\ n >= 1 => Here(s, 0, 1) = IF n > 1 THEN 128 + d1 ELSE d1
      /\ n >= 2 => Here(s, 0, 2) = IF n > 2 THEN 128 + d2 ELSE d2
      /\ n >= 3 => Here(s, 0, 3) = d3
  BY DEF Here, Spells
<1>2. (n < 1 => d1 = 0) /\ (n < 2 => d2 = 0) /\ (n < 3 => d3 = 0)
  BY DEF Spells
<1>3. Ends(s, 0) = {n}
  <2>1. \A i : i \in 0 .. 9 /\ 0 + i < Len(s) <=> i \in 0 .. 3 /\ i <= n
    <3>1. Len(s) = n + 1
      BY Zenon DEF Spells
    <3> QED
      BY <3>1, Below, Zenon
  <2>2. \A i : i \in Ends(s, 0) <=> i \in 0 .. 3 /\ i <= n /\ Here(s, 0, i) < 128
    BY <2>1 DEF Ends
  <2>3. ASSUME NEW i \in 0 .. 3, i < n PROVE ~(Here(s, 0, i) < 128)
    <3>1. CASE i = 0
      <4>1. Here(s, 0, 0) = 128 + d0
        BY <1>1, <2>3, <3>1
      <4> QED
        BY <3>1, <4>1
    <3>2. CASE i = 1
      <4>1. Here(s, 0, 1) = 128 + d1
        BY <1>1, <2>3, <3>2
      <4> QED
        BY <3>2, <4>1
    <3>3. CASE i = 2
      <4>1. Here(s, 0, 2) = 128 + d2
        BY <1>1, <2>3, <3>3
      <4> QED
        BY <3>3, <4>1
    <3> QED
      BY <2>3, <3>1, <3>2, <3>3
  <2>4. Here(s, 0, n) < 128
    <3>1. CASE n = 0
      <4>1. Here(s, 0, 0) = d0 /\ d0 < 128
        BY <1>1, <3>1
      <4>2. Here(s, 0, n) = Here(s, 0, 0)
        BY <3>1, Zenon
      <4> QED
        BY <4>1, <4>2
    <3>2. CASE n = 1
      <4>1. Here(s, 0, 1) = d1 /\ d1 < 128
        BY <1>1, <3>2
      <4>2. Here(s, 0, n) = Here(s, 0, 1)
        BY <3>2, Zenon
      <4> QED
        BY <4>1, <4>2
    <3>3. CASE n = 2
      <4>1. Here(s, 0, 2) = d2 /\ d2 < 128
        BY <1>1, <3>3
      <4>2. Here(s, 0, n) = Here(s, 0, 2)
        BY <3>3, Zenon
      <4> QED
        BY <4>1, <4>2
    <3>4. CASE n = 3
      <4>1. Here(s, 0, 3) = d3 /\ d3 < 128
        BY <1>1, <3>4
      <4>2. Here(s, 0, n) = Here(s, 0, 3)
        BY <3>4, Zenon
      <4> QED
        BY <4>1, <4>2
    <3> QED
      BY <3>1, <3>2, <3>3, <3>4
  <2>5. ASSUME NEW i, i \in Ends(s, 0) PROVE i = n
    <3>1. i \in 0 .. 3 /\ i <= n /\ Here(s, 0, i) < 128
      BY <2>2, <2>5
    <3>2. ~(i < n)
      BY <2>3, <3>1
    <3> QED
      BY <3>1, <3>2
  <2>6. n \in Ends(s, 0)
    BY <2>2, <2>4
  <2> QED
    BY <2>5, <2>6
<1>4. Min(Ends(s, 0)) = n
  <2>1. Min(Ends(s, 0)) \in Ends(s, 0)
    BY <1>3, FirstEnd
  <2> QED
    BY <1>3, <2>1
<1>5. uvarint(s, 0) = [x |-> Value(s, 0, n), n |-> n + 1]
  <2>1. ~(n = 9)
    OBVIOUS
  <2> QED
    BY <1>3, <1>4, <2>1, UvarintIs
<1>6. ~Big(s, 0, n)
  BY DEF Big
<1>7. Digit(s, 0, n, 0) = d0
  <2>1. d0 % 128 = d0 /\ (128 + d0) % 128 = d0
    BY DigitRead
  <2>2. CASE n > 0
    <3>1. Here(s, 0, 0) % 128 = d0
      BY <1>1, <2>1, <2>2
    <3> QED
      BY <2>2, <3>1 DEF Digit
  <2>3. CASE n = 0
    <3>1. Here(s, 0, 0) % 128 = d0
      BY <1>1, <2>1, <2>3
    <3> QED
      BY <2>3, <3>1 DEF Digit
  <2>4. CASE n < 0
    BY <1>2, <2>4 DEF Digit
  <2> QED
    BY <2>2, <2>3, <2>4
<1>8. Digit(s, 0, n, 1) = d1
  <2>1. d1 % 128 = d1 /\ (128 + d1) % 128 = d1
    BY DigitRead
  <2>2. CASE n > 1
    <3>1. Here(s, 0, 1) % 128 = d1
      BY <1>1, <2>1, <2>2
    <3> QED
      BY <2>2, <3>1 DEF Digit
  <2>3. CASE n = 1
    <3>1. Here(s, 0, 1) % 128 = d1
      BY <1>1, <2>1, <2>3
    <3> QED
      BY <2>3, <3>1 DEF Digit
  <2>4. CASE n < 1
    BY <1>2, <2>4 DEF Digit
  <2> QED
    BY <2>2, <2>3, <2>4
<1>9. Digit(s, 0, n, 2) = d2
  <2>1. d2 % 128 = d2 /\ (128 + d2) % 128 = d2
    BY DigitRead
  <2>2. CASE n > 2
    <3>1. Here(s, 0, 2) % 128 = d2
      BY <1>1, <2>1, <2>2
    <3> QED
      BY <2>2, <3>1 DEF Digit
  <2>3. CASE n = 2
    <3>1. Here(s, 0, 2) % 128 = d2
      BY <1>1, <2>1, <2>3
    <3> QED
      BY <2>3, <3>1 DEF Digit
  <2>4. CASE n < 2
    BY <1>2, <2>4 DEF Digit
  <2> QED
    BY <2>2, <2>3, <2>4
<1>10. Digit(s, 0, n, 3) = d3
  <2>1. CASE n = 3
    <3>0. Here(s, 0, 3) = d3
      BY <1>1, <2>1
    <3>1. Here(s, 0, 3) % 128 = d3
      BY <3>0, DigitRead
    <3> QED
      BY <2>1, <3>1 DEF Digit
  <2>2. CASE n < 3
    BY <1>2, <2>2 DEF Digit
  <2> QED
    BY <2>1, <2>2
<1>11. Value(s, 0, n) = d0 + 128 * (d1 + 128 * (d2 + 128 * d3))
  BY <1>6, <1>7, <1>8, <1>9, <1>10 DEF Value
<1> QED
  BY <1>5, <1>11 DEF FromDigits, BeginsVarint

(* A varint of one to four bytes reads as the number it was written for.      *)
LEMMA VarintReadsBack ==
  ASSUME NEW v \in Nat, v < Large
  PROVE  /\ PutUvarint(v) \in Seq(Nat) /\ Len(PutUvarint(v)) \in 1 .. 4
         /\ uvarint(PutUvarint(v), 0) = [x |-> v, n |-> Len(PutUvarint(v))]
<1> DEFINE v1 == v \div 128
           v2 == v1 \div 128
           v3 == v2 \div 128
<1>1. v1 \in Nat /\ v % 128 \in 0 .. 127 /\ v = (v % 128) + 128 * v1
  BY DigitsOf
<1> HIDE DEF v1
<1>2. v2 \in Nat /\ v1 % 128 \in 0 .. 127 /\ v1 = (v1 % 128) + 128 * v2
  BY <1>1, DigitsOf
<1> HIDE DEF v2
<1>3. v3 \in Nat /\ v2 % 128 \in 0 .. 127 /\ v2 = (v2 % 128) + 128 * v3
  BY <1>2, DigitsOf
<1> HIDE DEF v3
<1>4. PutUvarint(v) = IF v1 = 0 THEN <<v>>
                      ELSE IF v2 = 0 THEN <<128 + (v % 128), v1>>
                      ELSE IF v3 = 0 THEN <<128 + (v % 128), 128 + (v1 % 128), v2>>
                      ELSE <<128 + (v % 128), 128 + (v1 % 128), 128 + (v2 % 128), v3>>
  BY DEF PutUvarint, v1, v2, v3
<1> DEFINE s == PutUvarint(v)
<1>5. CASE v1 = 0
  <2>1. v \in 0 .. 127
    BY <1>1, <1>5
  <2>2. s \in Seq(Nat) /\ Spells(s, 0, v, 0, 0, 0)
    BY <1>1, <1>2, <1>3, <1>4, <1>5, <2>1 DEF Spells
  <2>3. uvarint(s, 0) = [x |-> v + 128 * (0 + 128 * (0 + 128 * 0)), n |-> 0 + 1]
    <3> DEFINE e0 == v
           e1 == 0
           e2 == 0
           e3 == 0
    <3>1. e0 \in 0 .. 127 /\ e1 \in 0 .. 127 /\ e2 \in 0 .. 127 /\ e3 \in 0 .. 127 /\ 0 \in 0 .. 3
      BY <1>1, <1>2, <1>3, <2>1
    <3>2. s \in Seq(Nat) /\ Spells(s, 0, e0, e1, e2, e3)
      BY <2>2
    <3> HIDE DEF e0, e1, e2, e3, s
    <3>3. uvarint(s, 0) = [x |-> e0 + 128 * (e1 + 128 * (e2 + 128 * e3)), n |-> 0 + 1]
      <4>1. PICK n \in 0 .. 3 : n = 0
        OBVIOUS
      <4>2. Spells(s, n, e0, e1, e2, e3)
        BY <3>2, <4>1
      <4>3. uvarint(s, 0) = [x |-> e0 + 128 * (e1 + 128 * (e2 + 128 * e3)), n |-> n + 1]
        <5>1. BeginsVarint(s, FromDigits(e0, e1, e2, e3), n + 1)
          BY <3>1, <3>2, <4>2, VarintOfDigits
        <5> QED
          BY <5>1 DEF FromDigits, BeginsVarint
      <4> QED
        BY <4>1, <4>3
    <3> QED
      BY <3>3 DEF e0, e1, e2, e3
  <2>4. v + 128 * (0 + 128 * (0 + 128 * 0)) = v
    BY <1>1, <1>2, <1>3, <1>5, <2>1
  <2>5. Len(s) = 0 + 1
    BY <2>2 DEF Spells
  <2> HIDE DEF s
  <2> QED
    BY <2>2, <2>3, <2>4, <2>5 DEF s
<1>6. CASE v1 # 0 /\ v2 = 0
  <2>1. v1 \in 0 .. 127
    BY <1>2, <1>6
  <2>2. s \in Seq(Nat) /\ Spells(s, 1, (v % 128), v1, 0, 0)
    BY <1>1, <1>2, <1>3, <1>4, <1>6, <2>1 DEF Spells
  <2>3. uvarint(s, 0) = [x |-> (v % 128) + 128 * (v1 + 128 * (0 + 128 * 0)), n |-> 1 + 1]
    <3> DEFINE e0 == (v % 128)
           e1 == v1
           e2 == 0
           e3 == 0
    <3>1. e0 \in 0 .. 127 /\ e1 \in 0 .. 127 /\ e2 \in 0 .. 127 /\ e3 \in 0 .. 127 /\ 1 \in 0 .. 3
      BY <1>1, <1>2, <1>3, <2>1
    <3>2. s \in Seq(Nat) /\ Spells(s, 1, e0, e1, e2, e3)
      BY <2>2
    <3> HIDE DEF e0, e1, e2, e3, s
    <3>3. uvarint(s, 0) = [x |-> e0 + 128 * (e1 + 128 * (e2 + 128 * e3)), n |-> 1 + 1]
      <4>1. PICK n \in 0 .. 3 : n = 1
        OBVIOUS
      <4>2. Spells(s, n, e0, e1, e2, e3)
        BY <3>2, <4>1
      <4>3. uvarint(s, 0) = [x |-> e0 + 128 * (e1 + 128 * (e2 + 128 * e3)), n |-> n + 1]
        <5>1. BeginsVarint(s, FromDigits(e0, e1, e2, e3), n + 1)
          BY <3>1, <3>2, <4>2, VarintOfDigits
        <5> QED
          BY <5>1 DEF FromDigits, BeginsVarint
      <4> QED
        BY <4>1, <4>3
    <3> QED
      BY <3>3 DEF e0, e1, e2, e3
  <2>4. (v % 128) + 128 * (v1 + 128 * (0 + 128 * 0)) = v
    BY <1>1, <1>2, <1>3, <1>6, <2>1
  <2>5. Len(s) = 1 + 1
    BY <2>2 DEF Spells
  <2> HIDE DEF s
  <2> QED
    BY <2>2, <2>3, <2>4, <2>5 DEF s
<1>7. CASE v1 # 0 /\ v2 # 0 /\ v3 = 0
  <2>1. v2 \in 0 .. 127
    BY <1>3, <1>7
  <2>2. s \in Seq(Nat) /\ Spells(s, 2, (v % 128), (v1 % 128), v2, 0)
    BY <1>1, <1>2, <1>3, <1>4, <1>7, <2>1 DEF Spells
  <2>3. uvarint(s, 0) = [x |-> (v % 128) + 128 * ((v1 % 128) + 128 * (v2 + 128 * 0)), n |-> 2 + 1]
    <3> DEFINE e0 == (v % 128)
           e1 == (v1 % 128)
           e2 == v2
           e3 == 0
    <3>1. e0 \in 0 .. 127 /\ e1 \in 0 .. 127 /\ e2 \in 0 .. 127 /\ e3 \in 0 .. 127 /\ 2 \in 0 .. 3
      BY <1>1, <1>2, <1>3, <2>1
    <3>2. s \in Seq(Nat) /\ Spells(s, 2, e0, e1, e2, e3)
      BY <2>2
    <3> HIDE DEF e0, e1, e2, e3, s
    <3>3. uvarint(s, 0) = [x |-> e0 + 128 * (e1 + 128 * (e2 + 128 * e3)), n |-> 2 + 1]
      <4>1. PICK n \in 0 .. 3 : n = 2
        OBVIOUS
      <4>2. Spells(s, n, e0, e1, e2, e3)
        BY <3>2, <4>1
      <4>3. uvarint(s, 0) = [x |-> e0 + 128 * (e1 + 128 * (e2 + 128 * e3)), n |-> n + 1]
        <5>1. BeginsVarint(s, FromDigits(e0, e1, e2, e3), n + 1)
          BY <3>1, <3>2, <4>2, VarintOfDigits
        <5> QED
          BY <5>1 DEF FromDigits, BeginsVarint
      <4> QED
        BY <4>1, <4>3
    <3> QED
      BY <3>3 DEF e0, e1, e2, e3
  <2>4. (v % 128) + 128 * ((v1 % 128) + 128 * (v2 + 128 * 0)) = v
    BY <1>1, <1>2, <1>3, <1>7, <2>1
  <2>5. Len(s) = 2 + 1
    BY <2>2 DEF Spells
  <2> HIDE DEF s
  <2> QED
    BY <2>2, <2>3, <2>4, <2>5 DEF s
<1>8. CASE v1 # 0 /\ v2 # 0 /\ v3 # 0
  <2>1. v3 \in 0 .. 127
    BY <1>1, <1>2, <1>3 DEF Large
  <2>2. s \in Seq(Nat) /\ Spells(s, 3, (v % 128), (v1 % 128), (v2 % 128), v3)
    BY <1>1, <1>2, <1>3, <1>4, <1>8, <2>1 DEF Spells
  <2>3. uvarint(s, 0) = [x |-> (v % 128) + 128 * ((v1 % 128) + 128 * ((v2 % 128) + 128 * v3)), n |-> 3 + 1]
    <3> DEFINE e0 == (v % 128)
           e1 == (v1 % 128)
           e2 == (v2 % 128)
           e3 == v3
    <3>1. e0 \in 0 .. 127 /\ e1 \in 0 .. 127 /\ e2 \in 0 .. 127 /\ e3 \in 0 .. 127 /\ 3 \in 0 .. 3
      BY <1>1, <1>2, <1>3, <2>1
    <3>2. s \in Seq(Nat) /\ Spells(s, 3, e0, e1, e2, e3)
      BY <2>2
    <3> HIDE DEF e0, e1, e2, e3, s
    <3>3. uvarint(s, 0) = [x |-> e0 + 128 * (e1 + 128 * (e2 + 128 * e3)), n |-> 3 + 1]
      <4>1. PICK n \in 0 .. 3 : n = 3
        OBVIOUS
      <4>2. Spells(s, n, e0, e1, e2, e3)
        BY <3>2, <4>1
      <4>3. uvarint(s, 0) = [x |-> e0 + 128 * (e1 + 128 * (e2 + 128 * e3)), n |-> n + 1]
        <5>1. BeginsVarint(s, FromDigits(e0, e1, e2, e3), n + 1)
          BY <3>1, <3>2, <4>2, VarintOfDigits
        <5> QED
          BY <5>1 DEF FromDigits, BeginsVarint
      <4> QED
        BY <4>1, <4>3
    <3> QED
      BY <3>3 DEF e0, e1, e2, e3
  <2>4. (v % 128) + 128 * ((v1 % 128) + 128 * ((v2 % 128) + 128 * v3)) = v
    BY <1>1, <1>2, <1>3, <1>8, <2>1
  <2>5. Len(s) = 3 + 1
    BY <2>2 DEF Spells
  <2> HIDE DEF s
  <2> QED
    BY <2>2, <2>3, <2>4, <2>5 DEF s
<1> QED
  BY <1>5, <1>6, <1>7, <1>8

LEMMA ByteReads ==
  ASSUME NEW v \in 0 .. 127
  PROVE  <<v>> \in Seq(Nat) /\ uvarint(<<v>>, 0) = [x |-> v, n |-> 1]
<1>1. v \in Nat /\ v < Large /\ v < 128
  BY DEF Large
<1>2. v \div 128 = 0
  BY <1>1, NoDigits
<1>3. PutUvarint(v) = <<v>>
  BY <1>2 DEF PutUvarint
<1>4. uvarint(PutUvarint(v), 0) = [x |-> v, n |-> Len(PutUvarint(v))]
  BY <1>1, VarintReadsBack
<1>5. Len(<<v>>) = 1 /\ <<v>> \in Seq(Nat)
  BY <1>1
<1> QED
  BY <1>3, <1>4, <1>5

(* A written field is found and holds what was written.                     *)
LEMMA LenFieldWritten ==
  ASSUME NEW want \in 1 .. 15, NEW payload \in Seq(Nat), Len(payload) < Large
  PROVE  /\ lenFieldBytes(want, payload) \in Seq(Nat)
         /\ Len(lenFieldBytes(want, payload)) > Len(payload)
         /\ Search(lenFieldBytes(want, payload), want)[0] = [ok |-> TRUE, bytes |-> payload]
<1> DEFINE k == key(want, wireLen)
           u == PutUvarint(Len(payload))
           F == lenFieldBytes(want, payload)
           kx == 8 * want + 2
           L == Len(payload)
<1>0. L \in Nat /\ L < Large
  OBVIOUS
<1>1. k = <<kx>> /\ kx \in 0 .. 127
  BY DEF key, wireLen
<1>2. k \in Seq(Nat) /\ uvarint(k, 0) = [x |-> kx, n |-> 1] /\ Len(k) = 1
  BY <1>1, ByteReads
<1>3. u \in Seq(Nat) /\ Len(u) \in 1 .. 4 /\ uvarint(u, 0) = [x |-> L, n |-> Len(u)]
  BY <1>0, VarintReadsBack
<1>4. F = (k \o u) \o payload
  BY DEF lenFieldBytes
<1>5. F \in Seq(Nat) /\ Len(F) = 1 + Len(u) + L /\ FoundAt(u, 0, F, 1)
  <2> HIDE DEF k, u, F
  <2>1. /\ (k \o u) \o payload \in Seq(Nat) /\ Len((k \o u) \o payload) = Len(k) + Len(u) + Len(payload)
        /\ FoundAt(u, 0, (k \o u) \o payload, Len(k))
    BY <1>2, <1>3, FoundInside
  <2> QED
    BY <1>2, <1>4, <2>1
<1>6. FoundAt(k, 0, F, 0)
  <2> DEFINE z == u \o payload
  <2>1. z \in Seq(Nat)
    BY <1>3, ConcatType
  <2>2. (k \o u) \o payload = k \o z
    <3>1. k \in Seq(Nat) /\ u \in Seq(Nat) /\ payload \in Seq(Nat)
      BY <1>2, <1>3
    <3> HIDE DEF k, u, F, kx, L, z
    <3>2. (k \o u) \o payload = k \o (u \o payload)
      BY ONLY <3>1, ConcatRegroups
    <3> QED
      BY <3>2, Zenon DEF z
  <2> HIDE DEF k, u, F, z
  <2>3. <<>> \in Seq(Nat) /\ Len(<<>>) = 0
    OBVIOUS
  <2>4. <<>> \o k = k
    BY <1>2, ConcatEmptySeq
  <2>5. FoundAt(k, 0, (<<>> \o k) \o z, Len(<<>>))
    BY <1>2, <2>1, <2>3, FoundInside
  <2> QED
    BY <1>4, <2>2, <2>3, <2>4, <2>5
<1> HIDE DEF k, u, F
<1>7. uvarint(F, 0) = [x |-> kx, n |-> 1]
  <2>1. uvarint(k, 0).n > 0
    BY <1>2
  <2>2. uvarint(F, 0) = uvarint(k, 0)
    BY <1>2, <1>5, <1>6, <2>1, UvarintLocal
  <2> QED
    BY <1>2, <2>2
<1>8. uvarint(F, 1) = [x |-> L, n |-> Len(u)]
  <2>1. uvarint(u, 0).n > 0
    BY <1>3
  <2>2. 0 \in Nat /\ 1 \in Nat
    OBVIOUS
  <2>3. uvarint(F, 1) = uvarint(u, 0)
    BY <1>3, <1>5, <2>1, <2>2, UvarintLocal
  <2> QED
    BY <1>3, <2>3
<1>9. PICK p \in 1 .. 4, n \in Nat : p = Len(u) /\ n = Len(F) /\ n = 1 + p + L
  <2>1. Len(u) \in 1 .. 4 /\ Len(F) = 1 + Len(u) + L
    BY <1>3, <1>5
  <2> HIDE DEF L
  <2>2. 1 + Len(u) + L \in Nat
    BY <1>0, <2>1
  <2> QED
    BY <2>1, <2>2
<1>10. fieldAt(F, 0) = FieldOf(n, kx, 1, L, p, 1)
  <2>1. kx = uvarint(F, 0).x /\ 1 = uvarint(F, 0).n /\ 1 = 0 + 1 /\ L = uvarint(F, 1).x /\ p = uvarint(F, 1).n
    BY <1>7, <1>8, <1>9
  <2> HIDE DEF kx, L
  <2>2. fieldAt(F, 0) = FieldOf(Len(F), kx, 1, L, p, 1)
    BY <2>1, FieldIs
  <2> QED
    BY <1>9, <2>2
<1>11. kx % 8 = 2 /\ kx \div 8 = want
  OBVIOUS
<1>12. LET f == FieldOf(n, kx, 1, L, p, 1)
       IN  f.ok /\ f.wire = wireLen /\ f.number = want /\ f.start = 1 + p /\ f.end = 1 + p + L
  BY <1>0, <1>9, <1>11 DEF FieldOf, wireVarint, wireI64, wireLen, wireI32
<1>13. SubSeq(F, (1 + p) + 1, 1 + p + L) = payload
  <2> DEFINE x == SubSeq(F, (1 + p) + 1, 1 + p + L)
             w == k \o u
  <2>1. w \in Seq(Nat) /\ Len(w) = 1 + p
    <3>1. w \in Seq(Nat) /\ Len(w) = Len(k) + Len(u)
      BY <1>2, <1>3, ConcatProperties
    <3> QED
      BY <1>2, <1>9, <3>1
  <2>2. F = w \o payload
    BY <1>4
  <2> HIDE DEF w
  <2>3. \A i \in 1 .. L : F[(1 + p) + i] = payload[i]
    <3>1. \A i \in 1 .. Len(w) + Len(payload) :
            F[i] = IF i <= Len(w) THEN w[i] ELSE payload[i - Len(w)]
      BY <2>1, <2>2, ConcatProperties
    <3> SUFFICES ASSUME NEW i \in 1 .. L PROVE F[(1 + p) + i] = payload[i]
      OBVIOUS
    <3>2. (1 + p) + i \in 1 .. Len(w) + Len(payload) /\ ~((1 + p) + i <= Len(w)) /\ ((1 + p) + i) - Len(w) = i
      BY <1>9, <2>1
    <3> QED
      BY <3>1, <3>2
  <2>4. CASE L = 0
    BY <1>9, <2>4
  <2>5. CASE L > 0
    <3>1. (1 + p) + 1 \in 1 .. Len(F) /\ 1 + p + L \in 1 .. Len(F)
      BY <1>9, <2>5
    <3>2. x \in Seq(Nat) /\ Len(x) = L /\ \A i \in 1 .. L : x[i] = F[(1 + p) + i]
      BY <1>5, <1>9, <2>5, <3>1
    <3> HIDE DEF x
    <3>3. \A i \in 1 .. L : x[i] = payload[i]
      BY <2>3, <3>2
    <3>4. x = payload
      BY <3>2, <3>3, SeqEqual
    <3> QED
      BY <3>4 DEF x
  <2> QED
    BY <1>0, <2>4, <2>5
<1>14. Search(F, want)[0] = Found(F, want, fieldAt(F, 0), Search(F, want)[fieldAt(F, 0).end])
  <2>1. 0 \in 0 .. Len(F)
    BY <1>5, <1>9
  <2> QED
    BY <1>5, <2>1, SearchIs
<1>15. Search(F, want)[0] = [ok |-> TRUE, bytes |-> payload]
  BY <1>10, <1>12, <1>13, <1>14 DEF Found
<1> QED
  BY <1>5, <1>9, <1>15 DEF F

(* Concatenation, kept from the provers.                                    *)
Join(x, y) == x \o y

LEMMA JoinRegroups ==
  ASSUME NEW T
  PROVE  \A x, y, z : x \in Seq(T) /\ y \in Seq(T) /\ z \in Seq(T)
           => Join(Join(x, y), z) = Join(x, Join(y, z))
BY ConcatRegroups DEF Join

(* The fields ahead are walked over.                                        *)
LEMMA PadsWalked ==
  ASSUME NEW want, NEW pad \in Seq(Seq(Nat)), \A i \in 1 .. Len(pad) : Skipped(pad[i], want),
         NEW rest \in Seq(Nat), NEW c, c = FlattenSeq(pad) \o rest
  PROVE  /\ FlattenSeq(pad) \in Seq(Nat) /\ c \in Seq(Nat)
         /\ Search(c, want)[0] = Search(c, want)[Len(FlattenSeq(pad))]
<1> DEFINE G == [n \in 0 .. Len(pad) |-> FlattenSeq([k \in 1 .. n |-> pad[k]])]
           N == Len(pad)
<1>0. N \in Nat /\ \A i \in 1 .. N : pad[i] \in Seq(Nat)
  OBVIOUS
<1>1. /\ G[0] = <<>> /\ \A n \in 0 .. N : G[n] \in Seq(Nat)
      /\ \A n \in 1 .. N : G[n] = G[n - 1] \o pad[n]
      /\ FlattenSeq(pad) = G[N]
  <2> DEFINE f(n) == FlattenSeq([k \in 1 .. n |-> pad[k]])
  <2>1. /\ f(0) = <<>> /\ \A n \in 0 .. N : f(n) \in Seq(Nat)
        /\ \A n \in 1 .. N : f(n) = f(n - 1) \o pad[n]
        /\ FlattenSeq(pad) = f(N)
    BY FlattenBySteps
  <2>2. \A n \in 0 .. N : G[n] = f(n)
    OBVIOUS
  <2> HIDE DEF f, G
  <2>3. 0 \in 0 .. N /\ N \in 0 .. N /\ \A n \in 1 .. N : n \in 0 .. N /\ n - 1 \in 0 .. N
    BY <1>0
  <2> QED
    BY <2>1, <2>2, <2>3
<1> HIDE DEF G
<1>2. Sums(G, pad, N, Nat)
  BY <1>0, <1>1 DEF Sums
<1>3. c \in Seq(Nat)
  BY <1>0, <1>1, ConcatType
<1> DEFINE W == {n \in 0 .. N : Search(c, want)[0] = Search(c, want)[Len(G[n])]}
<1>4. 0 \in W
  BY <1>0, <1>1
<1>5. ASSUME NEW n \in 1 .. N, n - 1 \in W PROVE n \in W
  <2> DEFINE p == pad[n]
             a == G[n - 1]
  <2>1. p \in Seq(Nat) /\ a \in Seq(Nat) /\ G[n] = a \o p /\ Skipped(p, want) /\ n \in 0 .. N
    <3>1. n \in 0 .. N /\ n - 1 \in 0 .. N
      BY <1>0
    <3> QED
      BY <1>0, <1>1, <3>1
  <2>2. PICK u \in Seq(Nat) : G[N] = G[n] \o u
    <3>1. Extends(G[n], G[N], Nat)
      <4>1. N \in n .. N
        BY <1>0
      <4> QED
        BY <1>0, <1>2, <2>1, <4>1, SumsGrow
    <3> QED
      BY <3>1 DEF Extends
  <2> DEFINE z == u \o rest
  <2>3. z \in Seq(Nat)
    BY ConcatType
  <2>4. c = (a \o p) \o z
    <3>1. c = (G[n] \o u) \o rest
      BY <1>1, <2>2
    <3>2. G[n] \in Seq(Nat) /\ u \in Seq(Nat) /\ rest \in Seq(Nat)
      BY <1>1, <2>1
    <3> DEFINE b == G[n]
    <3> HIDE DEF b, z, N, W, p, a
    <3>3. b \in Seq(Nat) /\ u \in Seq(Nat) /\ rest \in Seq(Nat)
      BY <3>2 DEF b
    <3>4. Join(Join(b, u), rest) = Join(b, Join(u, rest))
      BY <3>3, JoinRegroups
    <3> QED
      BY <2>1, <3>1, <3>4, Zenon DEF b, z, Join
  <2> HIDE DEF p, a, z
  <2>5. /\ c \in Seq(Nat) /\ Len(c) = Len(a) + Len(p) + Len(z) /\ FoundAt(p, 0, c, Len(a))
    BY <2>1, <2>3, <2>4, FoundInside
  <2>6. Len(a) \in Nat /\ Len(p) \in Nat /\ Len(z) \in Nat /\ Len(G[n]) = Len(a) + Len(p)
    <3>1. Len(a \o p) = Len(a) + Len(p)
      BY <2>1, ConcatProperties
    <3> QED
      BY <2>1, <2>3, <3>1
  <2> DEFINE f == fieldAt(p, 0)
             g == fieldAt(c, Len(a))
  <2>7. f.ok /\ f.end = Len(p) /\ ~(f.wire = wireLen /\ f.number = want)
    BY <2>1 DEF Skipped
  <2>8. Alike(f, 0, Len(p), g, Len(a))
    BY <2>1, <2>5, <2>6, <2>7, FieldLocal
  <2>9. Search(c, want)[Len(a)] = Found(c, want, g, Search(c, want)[g.end])
    <3>1. Len(a) \in 0 .. Len(c)
      BY <2>5, <2>6
    <3> QED
      BY <1>3, <3>1, SearchIs
  <2> HIDE DEF f, g
  <2>10. g.ok /\ ~(g.wire = wireLen /\ g.number = want)
    BY <2>7, <2>8 DEF Alike
  <2>11. g.end = Len(G[n])
    <3>1. PICK m \in Nat : f.end = 0 + m /\ g.end = Len(a) + m
      BY <2>8 DEF Alike
    <3> QED
      BY <2>6, <2>7, <3>1
  <2>12. Search(c, want)[Len(a)] = Search(c, want)[Len(G[n])]
    BY <2>9, <2>10, <2>11 DEF Found
  <2> QED
    BY <1>5, <2>1, <2>12 DEF a
<1>6. N \in W
  <2> HIDE DEF W
  <2>1. \A n \in 0 .. N : n \in W
    BY <1>0, <1>4, <1>5, UpTo
  <2> QED
    BY <1>0, <2>1
<1> QED
  BY <1>1, <1>3, <1>6

LEMMA PutUvarintType ==
  ASSUME NEW v \in Nat
  PROVE  PutUvarint(v) \in Seq(Nat)
<1>1. v \div 128 \in Nat /\ 128 + (v % 128) \in Nat
  BY DigitsOf
<1>2. (v \div 128) \div 128 \in Nat /\ 128 + ((v \div 128) % 128) \in Nat
  BY <1>1, DigitsOf
<1>3. ((v \div 128) \div 128) \div 128 \in Nat /\ 128 + (((v \div 128) \div 128) % 128) \in Nat
  BY <1>2, DigitsOf
<1> DEFINE v1 == v \div 128
           v2 == v1 \div 128
           v3 == v2 \div 128
           m0 == 128 + (v % 128)
           m1 == 128 + (v1 % 128)
           m2 == 128 + (v2 % 128)
<1>4. v1 \in Nat /\ v2 \in Nat /\ v3 \in Nat /\ m0 \in Nat /\ m1 \in Nat /\ m2 \in Nat
  BY <1>1, <1>2, <1>3
<1>5. PutUvarint(v) = IF v1 = 0 THEN <<v>> ELSE IF v2 = 0 THEN <<m0, v1>>
                      ELSE IF v3 = 0 THEN <<m0, m1, v2>> ELSE <<m0, m1, m2, v3>>
  BY DEF PutUvarint
<1> HIDE DEF v1, v2, v3, m0, m1, m2
<1> QED
  BY <1>4, <1>5

LEMMA LenFieldBytesType ==
  ASSUME NEW want \in 1 .. 15, NEW payload \in Seq(Nat)
  PROVE  /\ lenFieldBytes(want, payload) \in Seq(Nat)
         /\ Len(lenFieldBytes(want, payload)) > Len(payload)
<1> DEFINE k == key(want, wireLen)
           u == PutUvarint(Len(payload))
<1>1. k \in Seq(Nat) /\ Len(k) = 1
  BY DEF key, wireLen
<1>2. Len(payload) \in Nat
  OBVIOUS
<1>3. u \in Seq(Nat)
  BY <1>2, PutUvarintType
<1>4. Len(u) \in Nat
  BY <1>3
<1>5. lenFieldBytes(want, payload) = (k \o u) \o payload
  BY DEF lenFieldBytes
<1> HIDE DEF k, u
<1>6. (k \o u) \o payload \in Seq(Nat) /\ Len((k \o u) \o payload) = Len(k) + Len(u) + Len(payload)
  BY <1>1, <1>3, FoundInside
<1> QED
  BY <1>1, <1>2, <1>4, <1>5, <1>6

(* A level of the message tree: what is written around a payload.           *)
Level(pad, want, payload) ==
  (FlattenSeq(pad) \o lenFieldBytes(want, payload)) \o FlattenSeq(pad)

LEMMA FlattenType ==
  ASSUME NEW pad \in Seq(Seq(Nat))
  PROVE  FlattenSeq(pad) \in Seq(Nat)
<1> DEFINE F(n) == FlattenSeq([k \in 1 .. n |-> pad[k]])
<1>1. (\A n \in 0 .. Len(pad) : F(n) \in Seq(Nat)) /\ FlattenSeq(pad) = F(Len(pad))
  BY FlattenBySteps
<1>2. Len(pad) \in 0 .. Len(pad)
  OBVIOUS
<1> HIDE DEF F
<1> QED
  BY <1>1, <1>2

LEMMA LevelType ==
  ASSUME NEW want \in 1 .. 15, NEW pad \in Seq(Seq(Nat)), NEW payload \in Seq(Nat)
  PROVE  Level(pad, want, payload) \in Seq(Nat) /\ Len(Level(pad, want, payload)) > Len(payload)
<1> DEFINE x == FlattenSeq(pad)
           y == lenFieldBytes(want, payload)
<1>1. x \in Seq(Nat)
  BY FlattenType
<1>2. y \in Seq(Nat) /\ Len(y) > Len(payload)
  BY LenFieldBytesType
<1>3. Level(pad, want, payload) = (x \o y) \o x
  BY DEF Level
<1> HIDE DEF x, y
<1>4. (x \o y) \o x \in Seq(Nat) /\ Len((x \o y) \o x) = Len(x) + Len(y) + Len(x)
  BY <1>1, <1>2, FoundInside
<1>5. Len(x) \in Nat /\ Len(y) \in Nat /\ Len(payload) \in Nat
  BY <1>1, <1>2
<1> QED
  BY <1>2, <1>3, <1>4, <1>5

(* A field on the path is found, whatever it lies among.                    *)
LEMMA LevelRead ==
  ASSUME NEW want \in 1 .. 15, NEW pad \in Seq(Seq(Nat)),
         \A i \in 1 .. Len(pad) : Skipped(pad[i], want),
         NEW payload \in Seq(Nat), Len(payload) < Large
  PROVE  lenField(Level(pad, want, payload), want) = [ok |-> TRUE, bytes |-> payload]
<1> DEFINE x == FlattenSeq(pad)
           y == lenFieldBytes(want, payload)
           rest == y \o x
           c == Level(pad, want, payload)
<1>1. x \in Seq(Nat)
  BY FlattenType
<1>2. y \in Seq(Nat) /\ Len(y) > Len(payload) /\ Search(y, want)[0] = [ok |-> TRUE, bytes |-> payload]
  BY LenFieldWritten
<1>3. rest \in Seq(Nat)
  BY <1>1, <1>2, ConcatType
<1>4. c = (x \o y) \o x
  BY DEF Level
<1> HIDE DEF x, y
<1>5. c = x \o rest
  <2>1. Join(Join(x, y), x) = Join(x, Join(y, x))
    BY <1>1, <1>2, JoinRegroups
  <2> QED
    BY <1>4, <2>1, Zenon DEF Join
<1> HIDE DEF c, rest
<1>6. c \in Seq(Nat) /\ Search(c, want)[0] = Search(c, want)[Len(x)]
  BY <1>3, <1>5, PadsWalked DEF x
<1>7. FoundAt(y, 0, c, Len(x)) /\ Len(c) = Len(x) + Len(y) + Len(x)
  BY <1>1, <1>2, <1>4, FoundInside
<1>8. Search(c, want)[Len(x)] = Search(y, want)[0]
  <2>1. Len(x) \in 0 .. Len(c) /\ 0 \in 0 .. Len(y)
    BY <1>1, <1>2, <1>7
  <2>2. Search(y, want)[0].ok
    BY <1>2
  <2>3. y \in Seq(Nat) /\ c \in Seq(Nat) /\ FoundAt(y, 0, c, Len(x))
    BY <1>2, <1>4, <1>6, <1>7
  <2> DEFINE q == Len(x)
  <2> HIDE DEF q
  <2>4. q \in 0 .. Len(c) /\ FoundAt(y, 0, c, q)
    BY <2>1, <2>3 DEF q
  <2>5. Search(c, want)[q] = Search(y, want)[0]
    BY <2>1, <2>2, <2>3, <2>4, SearchLocal
  <2> QED
    BY <2>5 DEF q
<1> QED
  BY <1>2, <1>6, <1>8, LenFieldWalks DEF c

LEMMA AroundRead ==
  ASSUME NEW note \in Seq(Nat), NEW pad, Padding(pad), Len(Around(note, pad)) < Large
  PROVE  /\ Around(note, pad) \in Seq(Nat) /\ Len(note) < Large
         /\ lenField(Around(note, pad), fieldDocument).ok
         /\ lenField(lenField(Around(note, pad), fieldDocument).bytes, fieldNote) = [ok |-> TRUE, bytes |-> note]
<1> DEFINE inner == Level(pad, fieldNote, note)
           outer == Level(pad, fieldDocument, inner)
<1>0. /\ pad \in Seq(Seq(Nat))
      /\ \A i \in 1 .. Len(pad) : Skipped(pad[i], fieldDocument) /\ Skipped(pad[i], fieldNote)
      /\ fieldDocument \in 1 .. 15 /\ fieldNote \in 1 .. 15
  BY DEF Padding, fieldDocument, fieldNote
<1>1. Around(note, pad) = outer
  BY Zenon DEF Around, Level
<1>2. inner \in Seq(Nat) /\ Len(inner) > Len(note)
  BY <1>0, LevelType
<1> HIDE DEF inner
<1>3. outer \in Seq(Nat) /\ Len(outer) > Len(inner)
  BY <1>0, <1>2, LevelType
<1>4. Len(note) < Large /\ Len(inner) < Large
  <2>1. Len(note) \in Nat /\ Len(inner) \in Nat /\ Len(outer) \in Nat /\ Large \in Nat
    BY <1>2, <1>3 DEF Large
  <2> HIDE DEF outer
  <2> QED
    BY <1>1, <1>2, <1>3, <2>1
<1>5. lenField(outer, fieldDocument) = [ok |-> TRUE, bytes |-> inner]
  BY <1>0, <1>2, <1>4, LevelRead
<1>6. lenField(inner, fieldNote) = [ok |-> TRUE, bytes |-> note]
  BY <1>0, <1>4, LevelRead DEF inner
<1> HIDE DEF outer
<1> QED
  BY <1>1, <1>3, <1>4, <1>5, <1>6

LEMMA NoteMessageRead ==
  ASSUME NEW text \in Seq(Nat), NEW pad, Padding(pad)
  PROVE  /\ NoteMessage(text, pad) \in Seq(Nat)
         /\ Len(NoteMessage(text, pad)) < Large
              => lenField(NoteMessage(text, pad), fieldNoteText) = [ok |-> TRUE, bytes |-> text]
<1>0. /\ pad \in Seq(Seq(Nat))
      /\ \A i \in 1 .. Len(pad) : Skipped(pad[i], fieldNoteText)
      /\ fieldNoteText \in 1 .. 15
  BY DEF Padding, fieldNoteText
<1>1. NoteMessage(text, pad) = Level(pad, fieldNoteText, text)
  BY Zenon DEF NoteMessage, Level
<1>2. Level(pad, fieldNoteText, text) \in Seq(Nat) /\ Len(Level(pad, fieldNoteText, text)) > Len(text)
  BY <1>0, LevelType
<1>3. ASSUME Len(NoteMessage(text, pad)) < Large
      PROVE  lenField(NoteMessage(text, pad), fieldNoteText) = [ok |-> TRUE, bytes |-> text]
  <2> DEFINE n == Len(Level(pad, fieldNoteText, text))
  <2>1. n \in Nat /\ Large \in Nat /\ Len(text) \in Nat /\ n < Large /\ n > Len(text)
    BY <1>1, <1>2, <1>3 DEF Large
  <2> HIDE DEF n
  <2>2. Len(text) < Large
    BY <2>1
  <2> QED
    BY <1>0, <1>1, <2>2, LevelRead
<1> QED
  BY <1>1, <1>2, <1>3

LEMMA LenFieldType ==
  ASSUME NEW buf \in Seq(Nat), NEW want
  PROVE  /\ lenField(buf, want) \in Answers /\ lenField(buf, want).bytes \in Seq(Nat)
         /\ ~lenField(buf, want).ok => lenField(buf, want).bytes = <<>>
<1>1. 0 \in 0 .. Len(buf)
  OBVIOUS
<1>2. lenField(buf, want) \in Answers
  BY <1>1, SearchIs, LenFieldWalks
<1> DEFINE a == lenField(buf, want)
<1> HIDE DEF a
<1>3. a \in Answers
  BY <1>2 DEF a
<1>4. CASE a \in [ok : {TRUE}, bytes : Seq(Nat)]
  <2>1. a.ok = TRUE /\ a.bytes \in Seq(Nat)
    BY <1>4
  <2> QED
    BY <1>3, <2>1 DEF a
<1>5. CASE a = Absent
  <2>1. a.bytes = <<>>
    BY <1>5 DEF Absent
  <2> QED
    BY <1>3, <2>1 DEF a
<1> QED
  BY <1>3, <1>4, <1>5 DEF Answers

LEMMA DecodeIs ==
  ASSUME NEW raw
  PROVE  DecodeBody(Gzip(raw)) =
           IF ~lenField(raw, fieldDocument).ok
              \/ ~lenField(lenField(raw, fieldDocument).bytes, fieldNote).ok
           THEN [text |-> <<>>, err |-> TRUE]
           ELSE [text |-> lenField(lenField(lenField(raw, fieldDocument).bytes, fieldNote).bytes,
                                   fieldNoteText).bytes,
                 err |-> FALSE]
<1>1. gunzip(Gzip(raw)).ok /\ gunzip(Gzip(raw)).bytes = raw
  BY DEF Gzip, gunzip
<1> QED
  BY <1>1 DEF DecodeBody

LEMMA DecodeErrs ==
  ASSUME NEW raw
  PROVE  DecodeBody(Gzip(raw)).err \in BOOLEAN
<1> DEFINE bad == ~lenField(raw, fieldDocument).ok
                    \/ ~lenField(lenField(raw, fieldDocument).bytes, fieldNote).ok
<1>1. CASE bad
  <2>1. DecodeBody(Gzip(raw)) = [text |-> <<>>, err |-> TRUE]
    BY <1>1, DecodeIs
  <2> QED
    BY <2>1
<1>2. CASE ~bad
  <2>1. \E t : DecodeBody(Gzip(raw)) = [text |-> t, err |-> FALSE]
    BY <1>2, DecodeIs
  <2> QED
    BY <2>1
<1> QED
  BY <1>1, <1>2

LEMMA GzipCut ==
  ASSUME NEW z, NEW x, z = Gzip(x), NEW c
  PROVE  /\ DecodeBody([z EXCEPT !.raw = c]) = DecodeBody(Gzip(c))
         /\ ~[z EXCEPT !.raw = c].blank
<1> DEFINE f == [z EXCEPT !.raw = c]
<1>1. f.gzip = TRUE /\ f.blank = FALSE /\ f.raw = c
  BY DEF Gzip
<1> HIDE DEF f
<1>2. gunzip(f) = [ok |-> TRUE, bytes |-> c]
  BY <1>1 DEF gunzip
<1>3. gunzip(Gzip(c)) = [ok |-> TRUE, bytes |-> c]
  BY DEF gunzip, Gzip
<1>4. DecodeBody(f) = DecodeBody(Gzip(c))
  BY <1>2, <1>3, Zenon DEF DecodeBody
<1> QED
  BY <1>1, <1>4 DEF f

(* A note written around its text is read as that text.                     *)
LEMMA DecodeWritten ==
  ASSUME NEW text \in Seq(Nat), NEW pad, Padding(pad), Len(EncodeBody(text, pad)) < Large
  PROVE  EncodeBody(text, pad) \in Seq(Nat)
         /\ DecodeBody(Gzip(EncodeBody(text, pad))) = [text |-> text, err |-> FALSE]
<1> DEFINE note == NoteMessage(text, pad)
           raw == EncodeBody(text, pad)
           doc == lenField(raw, fieldDocument)
<1>1. raw = Around(note, pad)
  BY Zenon DEF EncodeBody
<1>2. note \in Seq(Nat) /\ (Len(note) < Large => lenField(note, fieldNoteText) = [ok |-> TRUE, bytes |-> text])
  BY NoteMessageRead
<1> HIDE DEF note, raw
<1>3. Len(Around(note, pad)) < Large
  BY <1>1 DEF raw
<1>4. /\ raw \in Seq(Nat) /\ Len(note) < Large
      /\ doc.ok /\ lenField(doc.bytes, fieldNote) = [ok |-> TRUE, bytes |-> note]
  BY <1>1, <1>2, <1>3, AroundRead
<1>5. lenField(note, fieldNoteText).bytes = text
  BY <1>2, <1>4
<1> QED
  BY <1>4, <1>5, DecodeIs DEF raw

(* Nothing is found at the end of a buffer.                                 *)
LEMMA NothingAtEnd ==
  ASSUME NEW b \in Seq(Nat)
  PROVE  ~(uvarint(b, Len(b)).n > 0)
<1> DEFINE n == uvarint(b, Len(b)).n
<1>1. Len(b) \in Nat
  OBVIOUS
<1>2. n \in -1 .. 10 /\ (n > 0 => Len(b) + n <= Len(b))
  BY <1>1, UvarintType
<1> HIDE DEF n
<1>3. ~(n > 0)
  BY <1>1, <1>2
<1> QED
  BY <1>3 DEF n

(* A message of nothing but padding has no text.                            *)
LEMMA PadsHaveNoText ==
  ASSUME NEW pad, Padding(pad)
  PROVE  FlattenSeq(pad) \in Seq(Nat) /\ ~lenField(FlattenSeq(pad), fieldNoteText).ok
<1> DEFINE c == FlattenSeq(pad)
<1>1. pad \in Seq(Seq(Nat)) /\ \A i \in 1 .. Len(pad) : Skipped(pad[i], fieldNoteText)
  BY DEF Padding
<1>2. c \in Seq(Nat)
  BY <1>1, FlattenType
<1>3. <<>> \in Seq(Nat) /\ c = c \o <<>>
  BY <1>2
<1>4. Search(c, fieldNoteText)[0] = Search(c, fieldNoteText)[Len(c)]
  BY <1>1, <1>3, PadsWalked
<1> HIDE DEF c
<1>5. Len(c) \in 0 .. Len(c)
  BY <1>2
<1>6. ~fieldAt(c, Len(c)).ok
  BY <1>2, NothingAtEnd, NoField
<1>7. lenField(c, fieldNoteText) = Absent
  BY <1>2, <1>4, <1>5, <1>6, SearchIs, LenFieldWalks DEF Found
<1>8. ~lenField(c, fieldNoteText).ok
  BY <1>7 DEF Absent
<1> QED
  BY <1>2, <1>8 DEF c

(* A note message that cannot be walked to a text is read as empty.         *)
LEMMA DecodeStray ==
  ASSUME NEW note \in Seq(Nat), NEW pad, Padding(pad), Len(Around(note, pad)) < Large,
         ~lenField(note, fieldNoteText).ok
  PROVE  Around(note, pad) \in Seq(Nat)
         /\ DecodeBody(Gzip(Around(note, pad))) = [text |-> <<>>, err |-> FALSE]
<1> DEFINE raw == Around(note, pad)
           doc == lenField(raw, fieldDocument)
<1>1. raw \in Seq(Nat) /\ doc.ok /\ lenField(doc.bytes, fieldNote) = [ok |-> TRUE, bytes |-> note]
  BY AroundRead
<1>2. lenField(note, fieldNoteText).bytes = <<>>
  BY LenFieldType
<1> HIDE DEF raw
<1> QED
  BY <1>1, <1>2, DecodeIs DEF raw

(* No note can be read of a message whose first field cannot be walked over.  *)
LEMMA DecodeBroken ==
  ASSUME NEW raw \in Seq(Nat), ~fieldAt(raw, 0).ok
  PROVE  DecodeBody(Gzip(raw)).err
<1>1. 0 \in 0 .. Len(raw)
  OBVIOUS
<1>2. lenField(raw, fieldDocument) = Absent
  BY <1>1, SearchIs, LenFieldWalks DEF Found
<1>3. ~lenField(raw, fieldDocument).ok
  BY <1>2 DEF Absent
<1> QED
  BY <1>3, DecodeIs

(* What is read of a message that lost its end is what is read of the whole.  *)
LEMMA DecodeCut ==
  ASSUME NEW raw \in Seq(Nat), NEW n \in 0 .. Len(raw), ~DecodeBody(Gzip(SubSeq(raw, 1, n))).err
  PROVE  DecodeBody(Gzip(SubSeq(raw, 1, n))) = DecodeBody(Gzip(raw))
<1> DEFINE cut == SubSeq(raw, 1, n)
<1> HIDE DEF cut
<1>1. lenField(cut, fieldDocument).ok
  BY DecodeIs DEF cut
<1>2. lenField(raw, fieldDocument) = lenField(cut, fieldDocument)
  BY <1>1, CutLenField DEF cut
<1>3. DecodeBody(Gzip(raw)) = DecodeBody(Gzip(cut))
  BY <1>2, DecodeIs
<1> QED
  BY <1>3 DEF cut

(* What a note is read as, of any of whose bytes the last may be lost.        *)
NoteRead(r, k) == decodeBody(r.locked, [Zdata(r) EXCEPT !.raw = SubSeq(Zdata(r).raw, 1, k)])

(* What a note not reported unknown is given: "" for a locked one, for its    *)
(* body is not read, and "" for a stray one, whatever text it has.          *)
NoteGiven(r) == IF r.locked \/ r.form = "stray" THEN <<>> ELSE r.written

LEMMA NoteForms ==
  ASSUME NEW r
  PROVE  /\ r.form = "blank" => Zdata(r) = Blank
         /\ r.form = "textless" => Zdata(r) = Gzip(Around(FlattenSeq(r.pad), r.pad))
         /\ r.form = "garbled" => Zdata(r) = Damaged
         /\ r.form = "written" => Zdata(r) = Gzip(EncodeBody(r.written, r.pad))
         /\ r.form = "stray" => Zdata(r) = Gzip(Around(r.raw, r.pad))
         /\ r.form = "broken" => Zdata(r) = Gzip(r.raw)
<1>1. /\ "blank" # "garbled" /\ "blank" # "written" /\ "blank" # "stray" /\ "blank" # "broken"
      /\ "garbled" # "written" /\ "garbled" # "stray" /\ "garbled" # "broken"
      /\ "written" # "stray" /\ "written" # "broken" /\ "stray" # "broken"
      /\ "textless" # "blank" /\ "textless" # "garbled" /\ "textless" # "written"
      /\ "textless" # "stray" /\ "textless" # "broken"
  OBVIOUS
<1> QED
  BY <1>1, Zenon DEF Zdata

(* A gzip file is a sequence of bytes, read whole as the note it is or, for   *)
(* a root that cannot be walked over, not at all.                          *)
LEMMA NoteWhole ==
  ASSUME NEW r, NoteRow(r), ~r.locked, r.form \in {"textless", "written", "stray", "broken"}
  PROVE  /\ Zdata(r) = Gzip(Zdata(r).raw) /\ Zdata(r).raw \in Seq(Nat)
         /\ r.form # "broken" => DecodeBody(Zdata(r)) = [text |-> NoteGiven(r), err |-> FALSE]
         /\ r.form = "broken" => DecodeBody(Zdata(r)).err
<1>1. CASE r.form = "written"
  <2>1. Padding(r.pad) /\ r.written \in Seq(Nat) /\ Len(EncodeBody(r.written, r.pad)) < Large
    BY <1>1 DEF NoteRow
  <2>2. Zdata(r) = Gzip(EncodeBody(r.written, r.pad)) /\ NoteGiven(r) = r.written
    BY <1>1, NoteForms DEF NoteGiven
  <2>3. EncodeBody(r.written, r.pad) \in Seq(Nat)
        /\ DecodeBody(Gzip(EncodeBody(r.written, r.pad))) = [text |-> r.written, err |-> FALSE]
    BY <2>1, DecodeWritten
  <2>4. Zdata(r).raw = EncodeBody(r.written, r.pad)
    BY <2>2 DEF Gzip
  <2> QED
    BY <1>1, <2>2, <2>3, <2>4
<1>2. CASE r.form = "stray"
  <2>1. /\ Padding(r.pad) /\ r.raw \in Seq(Nat) /\ Len(Around(r.raw, r.pad)) < Large
        /\ ~lenField(r.raw, fieldNoteText).ok
    BY <1>2 DEF NoteRow
  <2>2. Zdata(r) = Gzip(Around(r.raw, r.pad)) /\ NoteGiven(r) = <<>>
    BY <1>2, NoteForms DEF NoteGiven
  <2>3. Around(r.raw, r.pad) \in Seq(Nat)
        /\ DecodeBody(Gzip(Around(r.raw, r.pad))) = [text |-> <<>>, err |-> FALSE]
    BY <2>1, DecodeStray
  <2>4. Zdata(r).raw = Around(r.raw, r.pad)
    BY <2>2 DEF Gzip
  <2> QED
    BY <1>2, <2>2, <2>3, <2>4
<1>3. CASE r.form = "broken"
  <2>1. r.raw \in Seq(Nat) /\ ~fieldAt(r.raw, 0).ok
    BY <1>3 DEF NoteRow
  <2>2. Zdata(r) = Gzip(r.raw)
    BY <1>3, NoteForms
  <2>3. DecodeBody(Gzip(r.raw)).err
    BY <2>1, DecodeBroken
  <2>4. Zdata(r).raw = r.raw
    BY <2>2 DEF Gzip
  <2> QED
    BY <1>3, <2>1, <2>2, <2>3, <2>4
<1>4. CASE r.form = "textless"
  <2> DEFINE note == FlattenSeq(r.pad)
  <2>1. Padding(r.pad) /\ Len(Around(note, r.pad)) < Large
    BY <1>4 DEF NoteRow
  <2>2. note \in Seq(Nat) /\ ~lenField(note, fieldNoteText).ok
    BY <2>1, PadsHaveNoText
  <2>3. Around(note, r.pad) \in Seq(Nat)
        /\ DecodeBody(Gzip(Around(note, r.pad))) = [text |-> <<>>, err |-> FALSE]
    BY <2>1, <2>2, DecodeStray
  <2>4. Zdata(r) = Gzip(Around(note, r.pad)) /\ NoteGiven(r) = <<>>
    BY <1>4, NoteForms DEF NoteGiven, NoteRow
  <2> HIDE DEF note
  <2>5. Zdata(r).raw = Around(note, r.pad)
    BY <2>4 DEF Gzip
  <2> QED
    BY <1>4, <2>3, <2>4, <2>5
<1> QED
  BY <1>1, <1>2, <1>3, <1>4

(* What a note is read as, whatever its form and however many of its bytes    *)
(* are left.                                                               *)
LEMMA NoteReads ==
  ASSUME NEW r, NoteRow(r), NEW k \in 0 .. Len(Zdata(r).raw)
  PROVE  /\ NoteRead(r, k).undecoded \in BOOLEAN
         /\ ~NoteRead(r, k).undecoded => NoteRead(r, k).text = NoteGiven(r)
         /\ NoteRead(r, k).undecoded =>
              ~r.locked /\ (k # Len(Zdata(r).raw) \/ r.form \in {"garbled", "broken"})
<1> DEFINE z == Zdata(r)
           c == SubSeq(z.raw, 1, k)
           cut == [z EXCEPT !.raw = c]
<1>0. NoteRead(r, k) = decodeBody(r.locked, cut)
  BY DEF NoteRead
<1>0a. r.locked \in BOOLEAN
       /\ r.form \in {"blank", "textless", "garbled", "written", "stray", "broken"}
  BY DEF NoteRow
<1>1. CASE r.locked
  <2>1. decodeBody(r.locked, cut) = [text |-> <<>>, undecoded |-> FALSE]
    BY <1>1 DEF decodeBody
  <2>2. NoteRead(r, k).undecoded = FALSE /\ NoteRead(r, k).text = <<>>
    BY <1>0, <2>1
  <2>3. NoteGiven(r) = <<>>
    BY <1>1 DEF NoteGiven
  <2> QED
    BY <2>2, <2>3
<1>2. CASE ~r.locked /\ r.form = "blank"
  <2>1. z = Blank
    BY <1>2, NoteForms
  <2>2. cut.blank
    BY <2>1 DEF Blank
  <2>3. decodeBody(r.locked, cut) = [text |-> <<>>, undecoded |-> FALSE]
    BY <2>2 DEF decodeBody
  <2>4. NoteGiven(r) = <<>>
    BY <1>2 DEF NoteGiven, NoteRow
  <2>5. NoteRead(r, k).undecoded = FALSE /\ NoteRead(r, k).text = <<>>
    BY <1>0, <2>3
  <2> QED
    BY <2>4, <2>5
<1>3. CASE ~r.locked /\ r.form = "garbled"
  <2>1. z = Damaged
    BY <1>3, NoteForms
  <2>2. ~cut.gzip /\ ~cut.blank
    BY <2>1 DEF Damaged
  <2> HIDE DEF cut
  <2>3. ~gunzip(cut).ok
    BY <2>2 DEF gunzip
  <2>4. DecodeBody(cut) = [text |-> <<>>, err |-> TRUE]
    BY <2>3 DEF DecodeBody
  <2>5. decodeBody(r.locked, cut).undecoded = TRUE
    BY <1>3, <2>2, <2>4 DEF decodeBody
  <2> QED
    BY <1>0, <1>3, <2>5
<1>4. CASE ~r.locked /\ r.form \in {"textless", "written", "stray", "broken"}
  <2>1. /\ z = Gzip(z.raw) /\ z.raw \in Seq(Nat)
        /\ r.form # "broken" => DecodeBody(z) = [text |-> NoteGiven(r), err |-> FALSE]
        /\ r.form = "broken" => DecodeBody(z).err
    BY <1>4, NoteWhole
  <2>2. DecodeBody(cut) = DecodeBody(Gzip(c)) /\ ~cut.blank
    BY <2>1, GzipCut
  <2>3. decodeBody(r.locked, cut) = [text |-> DecodeBody(Gzip(c)).text, undecoded |-> DecodeBody(Gzip(c)).err]
    BY <1>4, <2>2 DEF decodeBody
  <2>4. ~DecodeBody(Gzip(c)).err => DecodeBody(Gzip(c)) = DecodeBody(z)
    BY <2>1, DecodeCut
  <2>5. k = Len(z.raw) => c = z.raw
    BY <2>1
  <2>6. DecodeBody(Gzip(c)).err \in BOOLEAN
    BY DecodeErrs
  <2> HIDE DEF cut, c, z
  <2>7. r.form = "broken" => DecodeBody(Gzip(c)).err
    BY <2>1, <2>4
  <2>8. ~DecodeBody(Gzip(c)).err => DecodeBody(Gzip(c)).text = NoteGiven(r)
    BY <1>4, <2>1, <2>4, <2>7
  <2>9. DecodeBody(Gzip(c)).err => k # Len(z.raw) \/ r.form = "broken"
    BY <1>4, <2>1, <2>5
  <2> QED
    BY <1>0, <1>4, <2>3, <2>6, <2>8, <2>9 DEF z
<1> QED
  BY <1>0a, <1>1, <1>2, <1>3, <1>4

(* However many of its bytes are left, a note is its own text or unknown, but *)
(* for one whose message cannot be walked to its text; and it is unknown     *)
(* only when bytes are missing or it never was a note (applenotes.go         *)
(* DecodeBody under notes.go decodeBody).  A locked note is never unknown.   *)
THEOREM NoteTrue ==
  ASSUME NEW r, NoteRow(r), NEW k \in 0 .. Len(Zdata(r).raw)
  PROVE  /\ ~NoteRead(r, k).undecoded /\ ~(r.form = "stray" /\ ~r.locked)
              => NoteRead(r, k).text = IF r.locked THEN <<>> ELSE r.written
         /\ NoteRead(r, k).undecoded =>
              ~r.locked /\ (k # Len(Zdata(r).raw) \/ r.form \in {"garbled", "broken"})
<1>1. /\ ~NoteRead(r, k).undecoded => NoteRead(r, k).text = NoteGiven(r)
      /\ NoteRead(r, k).undecoded =>
           ~r.locked /\ (k # Len(Zdata(r).raw) \/ r.form \in {"garbled", "broken"})
  BY NoteReads
<1>2. r.locked \in BOOLEAN
  BY DEF NoteRow
<1> QED
  BY <1>1, <1>2 DEF NoteGiven

(* The exception of NoteTrue is no accident of some bytes: every note that is *)
(* not locked and whose message cannot be walked to the text it has is shown *)
(* as a note without text, and not as unknown, though none of its bytes is   *)
(* missing (applenotes.go DecodeBody: no text found is no text, whatever     *)
(* stopped the walk to it).                                                *)
THEOREM StrayReadsEmpty ==
  ASSUME NEW r, NoteRow(r), r.form = "stray", ~r.locked
  PROVE  /\ NoteRead(r, Len(Zdata(r).raw)) = [text |-> <<>>, undecoded |-> FALSE]
         /\ r.written # <<>>
<1> DEFINE z == Zdata(r)
           whole == [z EXCEPT !.raw = SubSeq(z.raw, 1, Len(z.raw))]
<1>1. z = Gzip(z.raw) /\ z.raw \in Seq(Nat) /\ DecodeBody(z) = [text |-> <<>>, err |-> FALSE]
  BY NoteWhole DEF NoteGiven
<1>2. SubSeq(z.raw, 1, Len(z.raw)) = z.raw
  BY <1>1
<1>3. DecodeBody(whole) = DecodeBody(z) /\ ~whole.blank
  BY <1>1, <1>2, GzipCut
<1>4. NoteRead(r, Len(z.raw)) = decodeBody(r.locked, whole)
  BY DEF NoteRead
<1> HIDE DEF whole, z
<1>5. decodeBody(r.locked, whole) = [text |-> <<>>, undecoded |-> FALSE]
  BY <1>1, <1>3 DEF decodeBody
<1>6. r.written # <<>>
  BY DEF NoteRow
<1> QED
  BY <1>4, <1>5, <1>6 DEF z

(***************************************************************************)
(* The archive of a message                                                *)
(***************************************************************************)

LEMMA CutPrefix ==
  ASSUME NEW B \in Seq(Nat), NEW k \in 0 .. Len(B)
  PROVE  /\ SubSeq(B, 1, k) \in Seq(Nat) /\ Len(SubSeq(B, 1, k)) = k
         /\ PrefixOf(SubSeq(B, 1, k), B)
         /\ k = Len(B) => SubSeq(B, 1, k) = B
<1> DEFINE c == SubSeq(B, 1, k)
<1>1. Len(B) \in Nat /\ k \in Nat /\ k <= Len(B)
  BY LenProperties
<1>2. c \in Seq(Nat) /\ Len(c) = k /\ \A i \in 1 .. k : c[i] = B[i]
  BY <1>1
<1> HIDE DEF c
<1>3. PrefixOf(c, B)
  BY <1>1, <1>2 DEF PrefixOf
<1>4. ASSUME k = Len(B) PROVE c = B
  <2>1. Len(c) = Len(B) /\ \A i \in 1 .. Len(c) : c[i] = B[i]
    BY <1>2, <1>4
  <2> QED
    BY <1>2, <2>1, SeqEqual
<1> QED
  BY <1>2, <1>3, <1>4 DEF c

(* The blob of a message, and what is read of its first k bytes.             *)
MessageBlob(r) == IF r.blob THEN EncodeAttributedString(r.shape, r.text) ELSE <<>>
MessageRead(r, k) == bodyText(r.column, SubSeq(MessageBlob(r), 1, k))

(* However many of the bytes of its archive are left, a message is its own    *)
(* text or unknown, and unknown only when bytes are missing (typedstream.go  *)
(* DecodeText under messages.go bodyText).                                  *)
THEOREM MessageTrue ==
  ASSUME NEW r, MessageRow(r), NEW k \in 0 .. Len(MessageBlob(r)), r.blob => k > 0
  PROVE  /\ MessageRead(r, k).undecoded \in BOOLEAN
         /\ ~MessageRead(r, k).undecoded =>
              MessageRead(r, k).text = cleanBody(IF r.blob THEN r.text ELSE r.column)
         /\ MessageRead(r, k).undecoded => k # Len(MessageBlob(r))
<1> DEFINE B == MessageBlob(r)
           c == SubSeq(B, 1, k)
           m == MessageRead(r, k)
           col == cleanBody(r.column)
           D == DecodeText(c)
<1>1. m = IF col # <<>> THEN [text |-> col, undecoded |-> FALSE]
          ELSE IF c = <<>> THEN [text |-> <<>>, undecoded |-> FALSE]
          ELSE [text |-> cleanBody(D.text), undecoded |-> D.err]
  BY DEF MessageRead, bodyText
<1>2. CASE ~r.blob
  <2>1. B = <<>> /\ k = 0
    <3>1. B = <<>> /\ Len(B) = 0
      BY <1>2 DEF MessageBlob
    <3> QED
      BY <3>1
  <2>2. c = <<>>
    BY <2>1
  <2> HIDE DEF m, c, B, col, D
  <2>3. m.text = col /\ m.undecoded = FALSE
    BY <1>1, <2>2
  <2> QED
    BY <1>2, <2>3 DEF m, col
<1>3. CASE r.blob
  <2>1. /\ Archivable(r.shape) /\ Storable(r.text)
        /\ r.column = r.text \/ col = <<>>
        /\ B = EncodeAttributedString(r.shape, r.text)
    BY <1>3, SMT DEF MessageRow, MessageBlob, Storable
  <2> HIDE DEF B
  <2>2. B \in Seq(Nat) /\ ~DecodeText(B).err /\ DecodeText(B).text = r.text
    BY <2>1, ArchiveDecodes
  <2>3. /\ c \in Seq(Nat) /\ Len(c) = k /\ PrefixOf(c, B)
        /\ k = Len(B) => c = B
    BY <2>2, CutPrefix DEF B
  <2>4. c # <<>>
    <3>1. k > 0 /\ Len(c) = k
      BY <1>3, <2>3
    <3> HIDE DEF c, B
    <3>2. Len(c) # 0
      BY <3>1
    <3> QED
      BY <3>2
  <2>5. D.err \in BOOLEAN
    BY DEF DecodeText, TextOf
  <2>6. ~D.err => D.text = r.text
    <3> HIDE DEF c
    <3>1. ASSUME ~D.err PROVE DecodeText(B) = D
      BY <2>2, <2>3, <3>1, DecodeLast
    <3> QED
      BY <2>2, <3>1
  <2>7. D.err => k # Len(B)
    BY <2>2, <2>3
  <2> HIDE DEF m, c, D, col
  <2>8. CASE col # <<>>
    <3>1. m.text = col /\ m.undecoded = FALSE
      BY <1>1, <2>8
    <3> QED
      BY <1>3, <2>1, <2>8, <3>1 DEF m, col
  <2>9. CASE col = <<>>
    <3>1. m.text = cleanBody(D.text) /\ m.undecoded = D.err
      BY <1>1, <2>4, <2>9
    <3>2. ~m.undecoded => m.text = cleanBody(r.text)
      BY <2>6, <3>1
    <3> QED
      BY <1>3, <2>5, <2>7, <3>1, <3>2 DEF m, B
  <2> QED
    BY <2>8, <2>9
<1> QED
  BY <1>2, <1>3

(***************************************************************************)
(* Bodies: what was read is what the row and the length kept say            *)
(***************************************************************************)
(* A reading of the first k bytes of what record r stores.                  *)
ReadOf(r, k) == IF r.domain = "messages" THEN MessageRead(r, k) ELSE NoteRead(r, k)

KeptInv ==
  /\ row \in BodyRows
  /\ kept \in 0 .. Len(Blob(row))
  /\ IsMessage /\ row.blob => kept > 0

BodyInv ==
  \/ ~body.read
  \/ body.text = ReadOf(row, kept).text /\ body.undecoded = ReadOf(row, kept).undecoded

BodiesInv == KeptInv /\ body.read \in BOOLEAN /\ BodyInv

(* An archive has bytes; so a message with one keeps some of them.           *)
LEMMA ArchiveLength ==
  ASSUME NEW shape, Archivable(shape), NEW text, Storable(text)
  PROVE  /\ Len(EncodeAttributedString(shape, text)) \in Nat
         /\ Len(EncodeAttributedString(shape, text)) > 0
<1> DEFINE B == EncodeAttributedString(shape, text)
           o == Opened(shape).b
           s == appendInt(Len(text))
           p == <<Plus>>
           u == o \o p
           v == u \o s
           z == v \o text
<1>1. TextBehind(o, s, text, B)
  BY ArchiveIs
<1>2. text \in Seq(Nat)
  BY DEF Storable
<1> HIDE DEF o, s, B
<1>3. o \in Seq(Nat) /\ s \in Seq(Nat) /\ B \in Seq(Nat) /\ PrefixOf(z, B)
  BY <1>1 DEF TextBehind
<1>4. p \in Seq(Nat) /\ Len(p) = 1
  BY DEF Plus
<1> HIDE DEF p
<1>5. u \in Seq(Nat) /\ Len(u) = Len(o) + 1 /\ Len(o) \in Nat
  <2>1. u \in Seq(Nat) /\ Len(u) = Len(o) + Len(p) /\ Len(o) \in Nat
    BY <1>3, <1>4, LenConcat
  <2> HIDE DEF u
  <2> QED
    BY <1>4, <2>1
<1> HIDE DEF u
<1>6. v \in Seq(Nat) /\ Len(v) = Len(u) + Len(s) /\ Len(s) \in Nat
  BY <1>3, <1>5, LenConcat
<1> HIDE DEF v
<1>7. Len(z) = Len(v) + Len(text) /\ Len(text) \in Nat
  BY <1>2, <1>6, LenConcat
<1>8. Len(z) <= Len(B) /\ Len(B) \in Nat
  BY <1>3, LenProperties DEF PrefixOf
<1> HIDE DEF z
<1>9. Len(B) \in Nat /\ Len(B) > 0
  BY <1>5, <1>6, <1>7, <1>8
<1> QED
  BY <1>9 DEF B

(* What is inside a note's gzip file is a sequence of bytes.                  *)
LEMMA NoteRaw ==
  ASSUME NEW r, NoteRow(r)
  PROVE  Zdata(r).raw \in Seq(Nat)
<1>1. r.form \in {"blank", "textless", "garbled", "written", "stray", "broken"}
  BY DEF NoteRow
<1>2. CASE r.form \in {"blank", "garbled"}
  <2>1. Zdata(r).raw = <<>>
    BY <1>2, NoteForms DEF Blank, Damaged
  <2> QED
    BY <2>1
<1>3. CASE r.form = "written"
  <2>1. Padding(r.pad) /\ r.written \in Seq(Nat) /\ Len(EncodeBody(r.written, r.pad)) < Large
    BY <1>3 DEF NoteRow
  <2>2. EncodeBody(r.written, r.pad) \in Seq(Nat)
    BY <2>1, DecodeWritten
  <2>3. Zdata(r) = Gzip(EncodeBody(r.written, r.pad))
    BY <1>3, NoteForms
  <2>4. Zdata(r).raw = EncodeBody(r.written, r.pad)
    BY <2>3 DEF Gzip
  <2> QED
    BY <2>2, <2>4
<1>4. CASE r.form = "stray"
  <2>1. /\ Padding(r.pad) /\ r.raw \in Seq(Nat) /\ Len(Around(r.raw, r.pad)) < Large
        /\ ~lenField(r.raw, fieldNoteText).ok
    BY <1>4 DEF NoteRow
  <2>2. Around(r.raw, r.pad) \in Seq(Nat)
    BY <2>1, DecodeStray
  <2>3. Zdata(r) = Gzip(Around(r.raw, r.pad))
    BY <1>4, NoteForms
  <2>4. Zdata(r).raw = Around(r.raw, r.pad)
    BY <2>3 DEF Gzip
  <2> QED
    BY <2>2, <2>4
<1>5. CASE r.form = "broken"
  <2>1. r.raw \in Seq(Nat)
    BY <1>5 DEF NoteRow
  <2>2. Zdata(r) = Gzip(r.raw)
    BY <1>5, NoteForms
  <2>3. Zdata(r).raw = r.raw
    BY <2>2 DEF Gzip
  <2> QED
    BY <2>1, <2>3
<1>6. CASE r.form = "textless"
  <2> DEFINE note == FlattenSeq(r.pad)
  <2>1. Padding(r.pad) /\ Len(Around(note, r.pad)) < Large
    BY <1>6 DEF NoteRow
  <2>2. note \in Seq(Nat) /\ ~lenField(note, fieldNoteText).ok
    BY <2>1, PadsHaveNoText
  <2>3. Around(note, r.pad) \in Seq(Nat)
        /\ DecodeBody(Gzip(Around(note, r.pad))) = [text |-> <<>>, err |-> FALSE]
    BY <2>1, <2>2, DecodeStray
  <2>4. Zdata(r) = Gzip(Around(note, r.pad))
    BY <1>6, NoteForms
  <2> HIDE DEF note
  <2>5. Zdata(r).raw = Around(note, r.pad)
    BY <2>4 DEF Gzip
  <2> QED
    BY <2>3, <2>5
<1> QED
  BY <1>1, <1>2, <1>3, <1>4, <1>5, <1>6

LEMMA BlobIs ==
  ASSUME NEW r \in BodyRows
  PROVE  \/ /\ r.domain = "messages" /\ r.domain # "notes" /\ MessageRow(r)
            /\ Blob(r) = MessageBlob(r)
         \/ /\ r.domain = "notes" /\ r.domain # "messages" /\ NoteRow(r)
            /\ Blob(r) = Zdata(r).raw
<1>1. \/ r.domain = "messages" /\ MessageRow(r)
      \/ r.domain = "notes" /\ NoteRow(r)
  BY BodiesAssumption
<1>2. CASE r.domain = "messages" /\ MessageRow(r)
  <2>1. r.blob \in BOOLEAN
    BY <1>2 DEF MessageRow
  <2>2. CASE r.blob
    <3>1. Blob(r) = EncodeAttributedString(r.shape, r.text)
      BY <1>2, <2>2 DEF Blob
    <3> QED
      BY <1>2, <2>2, <3>1 DEF MessageBlob
  <2>3. CASE ~r.blob
    <3>1. Blob(r) = <<>>
      BY <1>2, <2>3 DEF Blob
    <3> QED
      BY <1>2, <2>3, <3>1 DEF MessageBlob
  <2> QED
    BY <2>1, <2>2, <2>3
<1>3. CASE r.domain = "notes" /\ NoteRow(r)
  BY <1>3 DEF Blob
<1> QED
  BY <1>1, <1>2, <1>3

LEMMA BlobLength ==
  ASSUME NEW r \in BodyRows
  PROVE  Len(Blob(r)) \in Nat /\ (r.domain = "messages" /\ r.blob => Len(Blob(r)) > 0)
<1>1. CASE r.domain = "messages" /\ r.domain # "notes" /\ MessageRow(r) /\ Blob(r) = MessageBlob(r)
  <2>1. r.blob \in BOOLEAN
    BY <1>1 DEF MessageRow
  <2>2. CASE r.blob
    <3> DEFINE B == EncodeAttributedString(r.shape, r.text)
    <3>1. Archivable(r.shape) /\ Storable(r.text) /\ Blob(r) = B
      BY <1>1, <2>2, SMT DEF MessageRow, MessageBlob, Storable
    <3> HIDE DEF B
    <3>2. Len(B) \in Nat /\ Len(B) > 0
      BY <3>1, ArchiveLength DEF B
    <3> QED
      BY <3>1, <3>2
  <2>3. CASE ~r.blob
    <3>1. Blob(r) = <<>>
      BY <1>1, <2>3 DEF MessageBlob
    <3>2. Len(Blob(r)) = 0
      BY <3>1
    <3> QED
      BY <2>3, <3>2
  <2> QED
    BY <2>1, <2>2, <2>3
<1>2. CASE r.domain = "notes" /\ r.domain # "messages" /\ NoteRow(r) /\ Blob(r) = Zdata(r).raw
  <2>1. Zdata(r).raw \in Seq(Nat)
    BY <1>2, NoteRaw
  <2>2. Len(Zdata(r).raw) \in Nat
    BY <2>1, LenProperties
  <2> QED
    BY <1>2, <2>2
<1> QED
  BY <1>1, <1>2, BlobIs

LEMMA ReadTrue ==
  ASSUME NEW r \in BodyRows, NEW k \in 0 .. Len(Blob(r)), r.domain = "messages" /\ r.blob => k > 0
  PROVE  /\ ReadOf(r, k).undecoded \in BOOLEAN
         /\ ~ReadOf(r, k).undecoded =>
              ReadOf(r, k).text = IF r.domain = "notes" THEN NoteGiven(r)
                                  ELSE cleanBody(IF r.blob THEN r.text ELSE r.column)
         /\ ReadOf(r, k).undecoded =>
              /\ k # Len(Blob(r)) \/ (r.domain = "notes" /\ r.form \in {"garbled", "broken"})
              /\ r.domain = "notes" => ~r.locked
<1>1. CASE r.domain = "messages" /\ r.domain # "notes" /\ MessageRow(r) /\ Blob(r) = MessageBlob(r)
  <2>1. ReadOf(r, k) = MessageRead(r, k)
    BY <1>1 DEF ReadOf
  <2>2. k \in 0 .. Len(MessageBlob(r)) /\ (r.blob => k > 0)
    BY <1>1
  <2>3. /\ MessageRead(r, k).undecoded \in BOOLEAN
        /\ ~MessageRead(r, k).undecoded =>
             MessageRead(r, k).text = cleanBody(IF r.blob THEN r.text ELSE r.column)
        /\ MessageRead(r, k).undecoded => k # Len(MessageBlob(r))
    BY <1>1, <2>2, MessageTrue
  <2> QED
    BY <1>1, <2>1, <2>3
<1>2. CASE r.domain = "notes" /\ r.domain # "messages" /\ NoteRow(r) /\ Blob(r) = Zdata(r).raw
  <2>1. ReadOf(r, k) = NoteRead(r, k)
    BY <1>2 DEF ReadOf
  <2>2. k \in 0 .. Len(Zdata(r).raw)
    BY <1>2
  <2>3. /\ NoteRead(r, k).undecoded \in BOOLEAN
        /\ ~NoteRead(r, k).undecoded => NoteRead(r, k).text = NoteGiven(r)
        /\ NoteRead(r, k).undecoded =>
              ~r.locked /\ (k # Len(Zdata(r).raw) \/ r.form \in {"garbled", "broken"})
    BY <1>2, <2>2, NoteReads
  <2> QED
    BY <1>2, <2>1, <2>3
<1> QED
  BY <1>1, <1>2, BlobIs

(* ---------------------- the record and its reading --------------------- *)

LEMMA BodyInitInv ==
  ASSUME BodyInit
  PROVE  BodiesInv
<1>1. row \in BodyRows /\ kept = Len(Blob(row)) /\ body = Unread
  BY DEF BodyInit
<1>2. Len(Blob(row)) \in Nat /\ (IsMessage /\ row.blob => Len(Blob(row)) > 0)
  BY <1>1, BlobLength DEF IsMessage
<1>3. KeptInv
  BY <1>1, <1>2 DEF KeptInv
<1>4. body.read = FALSE
  BY <1>1 DEF Unread
<1> QED
  BY <1>3, <1>4 DEF BodiesInv, BodyInv

(* A blob loses its end before it is read, and an archive never all of it.    *)
LEMMA DamageInv ==
  ASSUME BodiesInv, Damage
  PROVE  BodiesInv'
<1>1. PICK n \in 0 .. kept - 1 : (n > 0 \/ IsNote) /\ kept' = n
  BY DEF Damage
<1>2. row' = row /\ body' = body /\ ~body.read
  BY DEF Damage
<1>3. row \in BodyRows /\ kept \in 0 .. Len(Blob(row)) /\ Len(Blob(row)) \in Nat
  BY BlobLength DEF BodiesInv, KeptInv
<1>4. n \in 0 .. Len(Blob(row))
  BY <1>3
<1>5. IsMessage => ~IsNote
  BY DEF IsMessage, IsNote
<1>6. KeptInv'
  BY <1>1, <1>2, <1>3, <1>4, <1>5 DEF KeptInv, IsMessage, IsNote
<1> QED
  BY <1>2, <1>6 DEF BodiesInv, BodyInv

LEMMA ReadMessageInv ==
  ASSUME BodiesInv, ReadMessage
  PROVE  BodiesInv'
<1> DEFINE b == bodyText(row.column, Stored)
<1>1. /\ IsMessage /\ row' = row /\ kept' = kept
      /\ body' = [read |-> TRUE, text |-> b.text, undecoded |-> b.undecoded]
  BY DEF ReadMessage
<1>2. KeptInv' /\ row \in BodyRows
  BY <1>1 DEF BodiesInv, KeptInv, IsMessage
<1>3. Stored = SubSeq(MessageBlob(row), 1, kept)
  <2>1. Blob(row) = MessageBlob(row)
    BY <1>1, <1>2, BlobIs DEF IsMessage
  <2> QED
    BY <2>1 DEF Stored
<1>4. b = ReadOf(row, kept)
  BY <1>1, <1>3 DEF ReadOf, MessageRead, IsMessage
<1> HIDE DEF b
<1>5. body'.read = TRUE /\ body'.text = b.text /\ body'.undecoded = b.undecoded
  BY <1>1
<1>6. ReadOf(row', kept') = b
  BY <1>1, <1>4
<1> QED
  BY <1>2, <1>5, <1>6 DEF BodiesInv, BodyInv

LEMMA ReadNoteInv ==
  ASSUME BodiesInv, ReadNote
  PROVE  BodiesInv'
<1> DEFINE b == decodeBody(row.locked, [Zdata(row) EXCEPT !.raw = Stored])
<1>1. /\ IsNote /\ row' = row /\ kept' = kept
      /\ body' = [read |-> TRUE, text |-> b.text, undecoded |-> b.undecoded]
  BY DEF ReadNote
<1>2. KeptInv' /\ row \in BodyRows
  BY <1>1 DEF BodiesInv, KeptInv, IsMessage
<1>3. Stored = SubSeq(Zdata(row).raw, 1, kept) /\ row.domain # "messages"
  <2>1. Blob(row) = Zdata(row).raw /\ row.domain # "messages"
    BY <1>1, <1>2, BlobIs DEF IsNote
  <2> QED
    BY <2>1 DEF Stored
<1>4. b = ReadOf(row, kept)
  BY <1>3 DEF ReadOf, NoteRead
<1> HIDE DEF b
<1>5. body'.read = TRUE /\ body'.text = b.text /\ body'.undecoded = b.undecoded
  BY <1>1
<1>6. ReadOf(row', kept') = b
  BY <1>1, <1>4
<1> QED
  BY <1>2, <1>5, <1>6 DEF BodiesInv, BodyInv

LEMMA BodyStutterInv ==
  ASSUME BodiesInv, UNCHANGED bodyVars
  PROVE  BodiesInv'
BY DEF BodiesInv, KeptInv, BodyInv, IsMessage, bodyVars

LEMMA BodiesInvHolds == BodySpec => []BodiesInv
<1>1. BodyInit => BodiesInv
  BY BodyInitInv
<1>2. BodiesInv /\ [BodyNext]_bodyVars => BodiesInv'
  BY DamageInv, ReadMessageInv, ReadNoteInv, BodyStutterInv DEF BodyNext
<1> QED
  BY <1>1, <1>2, PTL DEF BodySpec

(* What a reading is, in the terms of the properties.                        *)
LEMMA BodyIsRead ==
  ASSUME BodiesInv, body.read
  PROVE  /\ body.undecoded \in BOOLEAN
         /\ ~body.undecoded =>
              body.text = IF row.domain = "notes" THEN NoteGiven(row)
                          ELSE cleanBody(IF row.blob THEN row.text ELSE row.column)
         /\ body.undecoded =>
              /\ kept # Len(Blob(row)) \/ (row.domain = "notes" /\ row.form \in {"garbled", "broken"})
              /\ row.domain = "notes" => ~row.locked
<1>1. /\ row \in BodyRows /\ kept \in 0 .. Len(Blob(row))
      /\ row.domain = "messages" /\ row.blob => kept > 0
  BY DEF BodiesInv, KeptInv, IsMessage
<1>2. body.text = ReadOf(row, kept).text /\ body.undecoded = ReadOf(row, kept).undecoded
  BY DEF BodiesInv, BodyInv
<1> QED
  BY <1>1, <1>2, ReadTrue

LEMMA TrueTextIs ==
  ASSUME row \in BodyRows, ~Stray
  PROVE  TrueText = IF row.domain = "notes" THEN NoteGiven(row)
                    ELSE cleanBody(IF row.blob THEN row.text ELSE row.column)
<1>1. CASE row.domain = "messages" /\ row.domain # "notes"
  BY <1>1 DEF TrueText, IsNote, IsMessage
<1>2. CASE row.domain = "notes" /\ NoteRow(row)
  <2>1. row.locked \in BOOLEAN
    BY <1>2 DEF NoteRow
  <2>2. TrueText = IF row.locked THEN <<>> ELSE row.written
    BY <1>2 DEF TrueText, IsNote, IsMessage
  <2>3. ~(row.form = "stray" /\ ~row.locked)
    BY <1>2 DEF Stray, IsNote
  <2> QED
    BY <1>2, <2>1, <2>2, <2>3 DEF NoteGiven
<1> QED
  BY <1>1, <1>2, BlobIs

(* Every reading of every record but a stray note, of whatever of its blob is *)
(* left: the body is the text its writer put there or is reported as         *)
(* unknown, for every row a writer may have left and every cut (messages.go  *)
(* bodyText, notes.go decodeBody and the decoders they call).  The body of a *)
(* stray note is "" (StrayReadsEmpty).                                     *)
THEOREM BodiesTell == BodySpec => []BodyTrueOrUnknown
<1>1. BodiesInv => BodyTrueOrUnknown
  <2> SUFFICES ASSUME BodiesInv, ~Stray, body.read, ~body.undecoded
               PROVE  body.text = TrueText
    BY DEF BodyTrueOrUnknown, EveryBodyTrueOrUnknown
  <2>1. row \in BodyRows
    BY DEF BodiesInv, KeptInv
  <2> QED
    BY <2>1, BodyIsRead, TrueTextIs
<1> QED
  BY <1>1, BodiesInvHolds, PTL

(* No whole record of a writer's reads as unknown, unless its note cannot be  *)
(* walked, and a locked note never does, for the same records and cuts.      *)
THEOREM WholeBodiesRead == BodySpec => []UnknownOnlyWhenDamaged
<1>1. BodiesInv => UnknownOnlyWhenDamaged
  BY BodyIsRead DEF UnknownOnlyWhenDamaged, IsNote
<1> QED
  BY <1>1, BodiesInvHolds, PTL
=============================================================================
