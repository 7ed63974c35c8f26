---------------------------- MODULE TypedStream ----------------------------
(***************************************************************************)
(* internal/typedstream: the decoder of message.attributedBody, as a        *)
(* recursive descent over a sequence of bytes with two reference tables.    *)
(*                                                                         *)
(* A byte is 0..255.  The bytes of the signature and of a class name are    *)
(* one symbol above 255 instead of eleven bytes or so: a decoder only       *)
(* compares them as a whole.  Every reader takes the decoder d and returns  *)
(* it with the position, the tables and the value it read, or ok = FALSE.   *)
(* The two that call themselves, class and newObject, are functions of it.  *)
(***************************************************************************)
EXTENDS Integers, Sequences

tagInt16 == 129
tagInt32 == 130
tagNew   == 132
tagNil   == 133
refBase  == 146
refOffset == 256 - refBase

Signature == 256
NSString == 257
NSMutableString == 258
NSAttributedString == 259
NSMutableAttributedString == 260

At == 64    (* "@", an object                                              *)
Plus == 43  (* "+", an inline string                                       *)
Star == 42  (* "*", a C string                                             *)

(* The values of readers; a pointer is an index of the object table.        *)
Str(s) == [kind |-> "string", str |-> s, ref |-> 0]
Pointer(i) == [kind |-> "pointer", str |-> <<>>, ref |-> i]
Nothing == Pointer(0)

Object(name) == [kind |-> "object", name |-> name, hasString |-> FALSE, text |-> <<>>]
Class(name) == [kind |-> "class", name |-> name, hasString |-> FALSE, text |-> <<>>]
Reserved == [kind |-> "reserved", name |-> <<>>, hasString |-> FALSE, text |-> <<>>]

Entries ==
  [kind : {"object", "class", "reserved"}, name : Seq(Nat), hasString : BOOLEAN, text : Seq(Nat)]

Values == [kind : {"string", "pointer"}, str : Seq(Nat), ref : Nat]

Decoders ==
  { d \in [b : Seq(Nat), pos : Nat, strings : Seq(Seq(Nat)), objects : Seq(Entries),
           ok : BOOLEAN, int : Int, val : Values] : d.pos <= Len(d.b) }

Decoder(data) ==
  [b |-> data, pos |-> 0, strings |-> <<>>, objects |-> <<>>, ok |-> TRUE, int |-> 0,
   val |-> Nothing]

Fail(d) == [d EXCEPT !.ok = FALSE]

(* What was read, if it could be, and read on.                              *)
Then(d, Read(_)) == IF d.ok THEN Read(d) ELSE d

(* The byte at the decoder's position, -1 at the end of the stream.         *)
Peek(d) == IF d.pos < Len(d.b) THEN d.b[d.pos + 1] ELSE -1
Left(d) == Len(d.b) - d.pos
Skip(d, n) == [d EXCEPT !.pos = @ + n]

(* Two's complement of w bits.                                             *)
Signed(v, w) == IF v < w \div 2 THEN v ELSE v - w

int8(b) == IF b > 255 THEN b ELSE Signed(b, 256)

readInt(d) ==
  LET b == Peek(d)
      byte(i) == d.b[d.pos + 1 + i]
      width == IF b = tagInt16 THEN 3 ELSE IF b = tagInt32 THEN 5 ELSE 1
  IN  IF Left(d) < width THEN Fail(d)
      ELSE [Skip(d, width) EXCEPT
              !.int = IF b = tagInt16 THEN Signed(byte(1) + 256 * byte(2), 65536)
                      ELSE IF b = tagInt32
                      THEN byte(1) + 256 * (byte(2) + 256 * (byte(3) + 256 * Signed(byte(4), 256)))
                      ELSE int8(b)]

(* A back-reference as an index from 0; the tag, if any, is not consumed.   *)
refIndex(d) == [readInt(d) EXCEPT !.int = @ + refOffset]

(* A length and that many bytes.                                           *)
Counted(d) ==
  Then(readInt(d), LAMBDA n :
    IF n.int < 0 \/ n.int > Left(n) THEN Fail(n)
    ELSE [Skip(n, n.int) EXCEPT !.val = Str(SubSeq(n.b, n.pos + 1, n.pos + n.int))])

(* Mutant of inlineString: a length beyond the end takes what is left.      *)
inlineStringLenient(d) ==
  Then(readInt(d), LAMBDA n :
    IF n.int < 0 THEN Fail(n)
    ELSE LET end == IF n.int > Left(n) THEN Len(n.b) ELSE n.pos + n.int
         IN  [n EXCEPT !.pos = end, !.val = Str(SubSeq(n.b, n.pos + 1, end))])

inlineString(d) == Counted(d)

(* A shared string: nil, a new one, or a reference into the string table.   *)
sharedString(d) ==
  IF Peek(d) = -1 THEN Fail(d)
  ELSE IF Peek(d) = tagNil THEN [Skip(d, 1) EXCEPT !.val = Str(<<>>)]
  ELSE IF Peek(d) = tagNew
  THEN Then(Counted(Skip(d, 1)), LAMBDA s : [s EXCEPT !.strings = Append(@, s.val.str)])
  ELSE Then(refIndex(d), LAMBDA i :
         IF i.int < 0 \/ i.int >= Len(d.strings) THEN Fail(d)
         ELSE [i EXCEPT !.val = Str(d.strings[i.int + 1])])

(* A type is a shared string or one inline character.                       *)
typeEncoding(d) ==
  IF Peek(d) = -1 THEN Fail(d)
  ELSE IF Peek(d) \in {tagNew, tagNil} \/ Peek(d) >= refBase THEN sharedString(d)
  ELSE [Skip(d, 1) EXCEPT !.val = Str(<<Peek(d)>>)]

(* An entry of the object table, of the kind wanted.                       *)
Reference(d, kinds) ==
  Then(refIndex(d), LAMBDA i :
    IF i.int < 0 \/ i.int >= Len(d.objects) THEN Fail(d)
    ELSE IF d.objects[i.int + 1].kind \notin kinds THEN Fail(d)
    ELSE [i EXCEPT !.val = Pointer(i.int + 1)])

(* A new class takes its slot of the object table before its name is read;  *)
(* then come its version and its superclass.                               *)
NameAndVersion(d, slot) ==
  Then(sharedString([d EXCEPT !.objects = Append(@, Reserved)]), LAMBDA name :
    readInt([name EXCEPT !.objects[slot] = Class(name.val.str)]))

(* The superclass is read by the same method.                              *)
class[d \in Decoders] ==
  IF Peek(d) = -1 THEN Fail(d)
  ELSE IF Peek(d) = tagNil THEN [Skip(d, 1) EXCEPT !.val = Nothing]
  ELSE IF Peek(d) = tagNew
  THEN LET slot == Len(d.objects) + 1
           super == Then(NameAndVersion(Skip(d, 1), slot), LAMBDA c : class[c])
       IN  [super EXCEPT !.val = Pointer(slot)]
  ELSE Reference(d, {"class"})

IsString(name) == name \in {<<NSString>>, <<NSMutableString>>}
IsAttributed(name) == name \in {<<NSAttributedString>>, <<NSMutableAttributedString>>}

(* Mutant of Reserve: the object gets no number of its own.                 *)
ReserveNothing(d) == d

Reserve(d) == [d EXCEPT !.objects = Append(@, Object(<<>>))]

(* An object: nil, a new one, which new reads, or a reference.              *)
objectValue(d, new) ==
  IF Peek(d) = -1 THEN Fail(d)
  ELSE IF Peek(d) = tagNil THEN [Skip(d, 1) EXCEPT !.val = Nothing]
  ELSE IF Peek(d) = tagNew THEN new[Skip(d, 1)]
  ELSE Reference(d, {"object", "class", "reserved"})

(* A value of type t.                                                      *)
value(d, t, new) ==
  IF t = <<At>> THEN objectValue(d, new)
  ELSE IF t = <<Plus>> THEN inlineString(d)
  ELSE IF t = <<Star>> THEN sharedString(d)
  ELSE Fail(d)

typedValue(d, new) == Then(typeEncoding(d), LAMBDA t : value(t, t.val.str, new))

(* The string an object pointer leads to, if it leads to one.               *)
HasString(d) ==
  /\ d.val.kind = "pointer" /\ d.val.ref \in DOMAIN d.objects
  /\ d.objects[d.val.ref].kind = "object" /\ d.objects[d.val.ref].hasString

Holding(v, slot, text) ==
  [v EXCEPT !.objects[slot] = [@ EXCEPT !.text = text, !.hasString = TRUE],
            !.val = Pointer(slot)]

(* The string of an NSString, or of the object an NSAttributedString is      *)
(* backed by.                                                              *)
objectContents(d, slot, new) ==
  Then(typedValue(d, new), LAMBDA v :
    IF IsString(d.objects[slot].name) /\ v.val.kind = "string"
    THEN Holding(v, slot, v.val.str)
    ELSE IF IsAttributed(d.objects[slot].name) /\ HasString(v)
    THEN Holding(v, slot, v.objects[v.val.ref].text)
    ELSE Fail(d))

(* An object takes its slot before its class is read, and then its name.    *)
ofClass(c, slot) ==
  IF c.val.ref = 0 THEN c
  ELSE [c EXCEPT !.objects[slot] = Object(c.objects[c.val.ref].name)]

(* The object an attributed string is backed by is read by the same method.  *)
newObject[d \in Decoders] ==
  LET slot == Len(d.objects) + 1 IN
  Then(class[Reserve(d)], LAMBDA c : objectContents(ofClass(c, slot), slot, newObject))

header(d) ==
  IF Len(d.b) < 2 THEN Fail(d)
  ELSE IF d.b[2] # 1 \/ Len(d.b) < 3 THEN Fail(d)
  ELSE IF d.b[3] # Signature \/ d.b[1] # 4 THEN Fail(d)
  ELSE readInt([d EXCEPT !.pos = 3])

TextOf(v) ==
  IF v.ok /\ HasString(v) THEN [text |-> v.objects[v.val.ref].text, err |-> FALSE]
  ELSE [text |-> <<>>, err |-> TRUE]

(* The text, or err = TRUE for any of the decoder's errors.                 *)
DecodeText(data) == TextOf(Then(header(Decoder(data)), LAMBDA d : typedValue(d, newObject)))
=============================================================================
