----------------------------- MODULE NoteBody -----------------------------
(***************************************************************************)
(* The body of one note: internal/applenotes walks the protobuf inside a    *)
(* gzip blob along document(2), note(3), note_text(2); notes/notes.go       *)
(* decodeBody turns what it returns into Body and BodyUndecoded.            *)
(*                                                                         *)
(* A byte is 0..255.  A varint's value is exact below 2^28 and, from there, *)
(* only known to be that large, with its low bits: no field number or       *)
(* length of a blob in reach is that big, and 32 bits hold it.              *)
(***************************************************************************)
EXTENDS Integers, SequencesExt

fieldDocument == 2
fieldNote     == 3
fieldNoteText == 2

wireVarint == 0
wireI64    == 1
wireLen    == 2
wireI32    == 5

Large == 128 * 128 * 128 * 128

(* The varint at offset pos: its value and its length, 0 for a truncated    *)
(* one and -1 for one of more than 64 bits.                                 *)
uvarint(b, pos) ==
  LET at(i) == b[pos + 1 + i]
      ends == { i \in 0..9 : pos + i < Len(b) /\ at(i) < 128 }
      last == Min(ends)
      digit(i) == IF i <= last THEN at(i) % 128 ELSE 0
      big == \E i \in 4..last : at(i) % 128 # 0
  IN  IF ends = {} THEN [x |-> 0, n |-> IF Len(b) - pos > 10 THEN -1 ELSE 0]
      ELSE IF last = 9 /\ at(9) > 1 THEN [x |-> 0, n |-> -1]
      ELSE [x |-> digit(0) + 128 * (digit(1) + 128 * (digit(2) + 128 * digit(3)))
                    + (IF big THEN Large ELSE 0),
            n |-> last + 1]

Absent == [ok |-> FALSE, bytes |-> <<>>]

(* A field whose key is kx, of kn bytes, with the varint vx of vn bytes at      *)
(* offset at, behind the key, in a buffer of n bytes.                       *)
FieldOf(n, kx, kn, vx, vn, at) ==
  LET wire == kx % 8
      end == IF wire = wireVarint THEN at + vn
             ELSE IF wire = wireI64 THEN at + 8
             ELSE IF wire = wireI32 THEN at + 4
             ELSE at + vn + vx
  IN  [ok |-> /\ kn > 0 /\ wire \in {wireVarint, wireI64, wireLen, wireI32}
              /\ wire \in {wireVarint, wireLen} => vn > 0
              /\ end <= n,
       number |-> kx \div 8, wire |-> wire, start |-> at + vn, end |-> end]

(* The field at offset pos: its number and wire type, and the offsets where  *)
(* a length-delimited value begins and any field ends.  Not ok when it       *)
(* cannot be walked over.                                                  *)
fieldAt(buf, pos) ==
  LET key == uvarint(buf, pos)
      v == uvarint(buf, pos + key.n)
  IN  FieldOf(Len(buf), key.x, key.n, v.x, v.n, pos + key.n)

(* The first length-delimited field of that number; Absent as well when the *)
(* message cannot be walked up to it.                                       *)
lenField(buf, want) ==
  LET from[pos \in 0..Len(buf)] ==
        LET f == fieldAt(buf, pos) IN
        IF ~f.ok THEN Absent
        ELSE IF f.wire = wireLen /\ f.number = want
        THEN [ok |-> TRUE, bytes |-> SubSeq(buf, f.start + 1, f.end)]
        ELSE from[f.end]
  IN  from[0]

(* ------------------------------ the writer ----------------------------- *)

key(field, wire) == <<8 * field + wire>>

(* Below Large.                                                            *)
PutUvarint(v) ==
  LET v1 == v \div 128
      v2 == v1 \div 128
      v3 == v2 \div 128
      more(u) == 128 + (u % 128)
  IN  IF v1 = 0 THEN <<v>>
      ELSE IF v2 = 0 THEN <<more(v), v1>>
      ELSE IF v3 = 0 THEN <<more(v), more(v1), v2>>
      ELSE <<more(v), more(v1), more(v2), v3>>

lenFieldBytes(field, payload) == key(field, wireLen) \o PutUvarint(Len(payload)) \o payload

varintFieldBytes(field, v) == key(field, wireVarint) \o PutUvarint(v)

(* The message tree around a note message, with the fields pad ahead of each *)
(* level's field on the path and behind it.  The encoder's own pad is a pair *)
(* of scalars (its root has one of the two).                                *)
Around(note, pad) ==
  LET scalars == FlattenSeq(pad)
      level(field, payload) == scalars \o lenFieldBytes(field, payload) \o scalars
  IN  level(fieldDocument, level(fieldNote, note))

NoteMessage(text, pad) ==
  FlattenSeq(pad) \o lenFieldBytes(fieldNoteText, text) \o FlattenSeq(pad)

EncodeBody(text, pad) == Around(NoteMessage(text, pad), pad)

(* ------------------------------ the reader ----------------------------- *)

(* A blob: gzip of raw, or damaged (not gzip, cut short, a wrong checksum,   *)
(* or over maxDecompressed), which gunzip reports.                          *)
Gzip(raw) == [gzip |-> TRUE, raw |-> raw, blank |-> FALSE]
Damaged == [gzip |-> FALSE, raw |-> <<>>, blank |-> FALSE]
Blank == [gzip |-> FALSE, raw |-> <<>>, blank |-> TRUE]

gunzip(zdata) == [ok |-> zdata.gzip, bytes |-> zdata.raw]

DecodeBody(zdata) ==
  LET raw == gunzip(zdata)
      doc == lenField(raw.bytes, fieldDocument)
      note == lenField(doc.bytes, fieldNote)
  IN  IF ~raw.ok \/ ~doc.ok \/ ~note.ok THEN [text |-> <<>>, err |-> TRUE]
      ELSE [text |-> lenField(note.bytes, fieldNoteText).bytes, err |-> FALSE]

(* Mutant of decodeBody: the blob of a locked note is decoded as well.      *)
decodeBodyLocked(locked, zdata) ==
  IF zdata.blank THEN [text |-> <<>>, undecoded |-> FALSE]
  ELSE [text |-> DecodeBody(zdata).text, undecoded |-> DecodeBody(zdata).err]

(* A locked note's blob is ciphertext; a NULL or empty one a blank note.    *)
decodeBody(locked, zdata) ==
  IF locked \/ zdata.blank THEN [text |-> <<>>, undecoded |-> FALSE]
  ELSE [text |-> DecodeBody(zdata).text, undecoded |-> DecodeBody(zdata).err]
=============================================================================
