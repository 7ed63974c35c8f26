---------------------------- MODULE MessageBody ----------------------------
(***************************************************************************)
(* The body of one message: message.text, or the text decoded from the      *)
(* attributedBody archive.  The archive is written by NSArchiver, which     *)
(* internal/typedstream/encode.go imitates: Archive is that encoder, for    *)
(* more shapes of archive than one.                                        *)
(***************************************************************************)
EXTENDS TypedStream, SequencesExt

tagEnd == 134
Replacement == 261  (* U+FFFC, the place of an attachment                  *)
NSObject == 262

(* ------------------------------ the archiver --------------------------- *)

(* The byte of v that counts by weight.                                    *)
byte(v, weight) == (v \div weight) % 256

appendInt(v) ==
  IF 0 <= v /\ v <= 127 THEN <<v>>
  ELSE IF -32768 <= v /\ v <= 32767 THEN <<tagInt16, byte(v, 1), byte(v, 256)>>
  ELSE <<tagInt32, byte(v, 1), byte(v, 256), byte(v, 65536), byte(v, 256 * 65536)>>

(* Archives so far: their bytes, their two tables (0 stands for an object),  *)
(* and whether the numbers that do not fit the reserved range are written as *)
(* tagged integers.                                                        *)
Writers == [b : Seq(Nat), strings : Seq(Nat), objects : Seq(Nat), wide : BOOLEAN]

Writer(wide) == [b |-> <<>>, strings |-> <<>>, objects |-> <<>>, wide |-> wide]
Emit(w, bytes) == [w EXCEPT !.b = @ \o bytes]

(* The number of a table's first entry x, counted from 1.                   *)
Number(w, table, x) ==
  LET i == SelectInSeq(table, LAMBDA y : y = x)
      beyond == i - 1 - refOffset
  IN  IF i <= refOffset THEN <<refBase + i - 1>>
      ELSE IF w.wide THEN <<tagInt16, byte(beyond, 1), byte(beyond, 256)>>
      ELSE <<beyond>>

appendSharedString(w, s) ==
  IF Contains(w.strings, s) THEN Emit(w, Number(w, w.strings, s))
  ELSE [Emit(w, <<tagNew>> \o appendInt(1) \o <<s>>) EXCEPT !.strings = Append(@, s)]

(* A class takes its number before its name and version.                    *)
appendName(w, name) ==
  Emit(appendSharedString([Emit(w, <<tagNew>>) EXCEPT !.objects = Append(@, name)], name),
       appendInt(0))

(* A class and its superclasses, up to the first one written before.        *)
appendClass[names \in Seq(Nat)] ==
  [w \in Writers |->
     IF names = <<>> THEN Emit(w, <<tagNil>>)
     ELSE IF Contains(w.objects, Head(names))
     THEN Emit(w, Number(w, w.objects, Head(names)))
     ELSE appendClass[Tail(names)][appendName(w, Head(names))]]

(* An object, after its type, takes its number before its class.            *)
appendObject(w, names) ==
  appendClass[names][[Emit(appendSharedString(w, At), <<tagNew>>)
                        EXCEPT !.objects = Append(@, 0)]]

Header == <<4, 1, Signature>> \o appendInt(1000)

(* shape.wrappers: the class chains of the attributed strings around the     *)
(* string; shape.string: the string's own; shape.wide: see Writers.          *)
Opened(shape) ==
  LET upTo[k \in 0 .. Len(shape.wrappers)] ==
        IF k = 0 THEN Emit(Writer(shape.wide), Header)
        ELSE appendObject(upTo[k - 1], shape.wrappers[k])
  IN  appendObject(upTo[Len(shape.wrappers)], shape.string)

EncodeAttributedString(shape, text) ==
  Opened(shape).b \o <<Plus>> \o appendInt(Len(text)) \o text \o <<tagEnd, tagEnd>>

(* ------------------------------ the reader ----------------------------- *)

(* cleanBody removes the placeholders of attachments.                       *)
cleanBody(s) == SelectSeq(s, LAMBDA c : c # Replacement)

(* bodyText: the column when it says something, else the blob.  A NULL      *)
(* column and an empty one are both <<>>.                                   *)
bodyText(column, blob) ==
  IF cleanBody(column) # <<>> THEN [text |-> cleanBody(column), undecoded |-> FALSE]
  ELSE IF blob = <<>> THEN [text |-> <<>>, undecoded |-> FALSE]
  ELSE LET decoded == DecodeText(blob) IN
       [text |-> cleanBody(decoded.text), undecoded |-> decoded.err]
=============================================================================
