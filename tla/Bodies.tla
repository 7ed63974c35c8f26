------------------------------ MODULE Bodies ------------------------------
(***************************************************************************)
(* One record whose body is a blob another program wrote: a message with    *)
(* its attributedBody archive, or a note with its gzipped protobuf.  The    *)
(* blob may be whole or have lost its end before the library reads it.      *)
(*                                                                         *)
(* A row of messages is [column, blob, shape, text]: message.text, whether  *)
(* there is an archive, its shape and the text in it.  A row of notes is    *)
(* [locked, form, written, pad, raw]: written is its text and form what its *)
(* ZDATA is made of, see Zdata.  Both have the domain as well.              *)
(***************************************************************************)
EXTENDS MessageBody, NoteBody

CONSTANTS
  BodyRows, (* what the record may be                                       *)
  Cuts(_)   (* the lengths a blob of this length may be cut to               *)

VARIABLES
  row,     (* the record in the database                                    *)
  kept,    (* how many bytes of its blob are there                           *)
  body     (* what the library made of it                                   *)

bodyVars == <<row, kept, body>>

(***************************************************************************)
(* What writers write                                                      *)
(***************************************************************************)
(* An archive whose numbers fit the width they are written in, made of       *)
(* attributed strings around a string.                                     *)
Chain(names) ==
  names \in Seq(Nat) /\ names # <<>> /\ \A i \in 1 .. Len(names) : names[i] \notin {0, At}

Archivable(shape) ==
  /\ shape.wide \in BOOLEAN
  /\ Chain(shape.string) /\ IsString(<<Head(shape.string)>>)
  /\ shape.wrappers \in Seq(Seq(Nat))
  /\ \A k \in 1 .. Len(shape.wrappers) :
       Chain(shape.wrappers[k]) /\ IsAttributed(<<Head(shape.wrappers[k])>>)
  /\ Len(Opened(shape).objects) <= refOffset + (IF shape.wide THEN 32768 ELSE 128)

(* A column beside an archive says the same as it, or nothing.              *)
MessageRow(r) ==
  /\ r.column \in Seq(Nat) /\ r.blob \in BOOLEAN
  /\ r.blob => /\ Archivable(r.shape)
               /\ r.text \in Seq(Nat) /\ Len(r.text) <= 2147483647
               /\ r.column = r.text \/ cleanBody(r.column) = <<>>

(* A field that is not the one of that number.                             *)
Skipped(field, want) ==
  LET f == fieldAt(field, 0)
  IN  f.ok /\ f.end = Len(field) /\ ~(f.wire = wireLen /\ f.number = want)

Padding(pad) ==
  /\ pad \in Seq(Seq(Nat))
  /\ \A i \in 1 .. Len(pad) :
       \A want \in {fieldDocument, fieldNote, fieldNoteText} : Skipped(pad[i], want)

(* A note is "written" around its text, has a message without one            *)
(* ("textless", a note of attachments) or no blob ("blank"); or it is not    *)
(* gzip ("garbled"), its root cannot be walked over ("broken"), or a field    *)
(* ahead of its text cannot ("stray").  Large is over maxDecompressed.      *)
NoteRow(r) ==
  /\ r.locked \in BOOLEAN
  /\ r.form \in {"blank", "textless", "garbled", "written", "stray", "broken"}
  /\ r.form = "blank" => r.written = <<>>
  /\ r.form = "textless" =>
       Padding(r.pad) /\ r.written = <<>> /\ Len(Around(FlattenSeq(r.pad), r.pad)) < Large
  /\ r.form = "written" =>
       Padding(r.pad) /\ r.written \in Seq(Nat) /\ Len(EncodeBody(r.written, r.pad)) < Large
  /\ r.form = "stray" =>
       /\ Padding(r.pad) /\ r.raw \in Seq(Nat) /\ Len(Around(r.raw, r.pad)) < Large
       /\ ~lenField(r.raw, fieldNoteText).ok
       /\ r.written # <<>> /\ IsSuffix(lenFieldBytes(fieldNoteText, r.written), r.raw)
  /\ r.form = "broken" => r.raw \in Seq(Nat) /\ ~fieldAt(r.raw, 0).ok

ASSUME BodiesAssumption ==
  \A r \in BodyRows : \/ r.domain = "messages" /\ MessageRow(r)
                      \/ r.domain = "notes" /\ NoteRow(r)

(***************************************************************************)
(* The record, and its reading                                             *)
(***************************************************************************)
Unread == [read |-> FALSE, text |-> <<>>, undecoded |-> FALSE]

IsMessage == row.domain = "messages"
IsNote == row.domain = "notes"

Zdata(r) ==
  CASE r.form = "blank" -> Blank
    [] r.form = "textless" -> Gzip(Around(FlattenSeq(r.pad), r.pad))
    [] r.form = "garbled" -> Damaged
    [] r.form = "written" -> Gzip(EncodeBody(r.written, r.pad))
    [] r.form = "stray" -> Gzip(Around(r.raw, r.pad))
    [] r.form = "broken" -> Gzip(r.raw)

Blob(r) ==
  CASE r.domain = "notes" -> Zdata(r).raw
    [] r.domain = "messages" /\ r.blob -> EncodeAttributedString(r.shape, r.text)
    [] OTHER -> <<>>

BodyInit ==
  /\ row \in BodyRows
  /\ kept = Len(Blob(row))
  /\ body = Unread

(* The blob lost its end.  An archive of no bytes is no archive; a protobuf *)
(* of none is still a gzip file.                                           *)
Damage ==
  /\ ~body.read
  /\ kept = Len(Blob(row))
  /\ \E n \in Cuts(kept) \cap 0 .. kept - 1 :
       /\ n > 0 \/ IsNote
       /\ kept' = n
  /\ UNCHANGED <<row, body>>

Stored == SubSeq(Blob(row), 1, kept)

ReadMessage ==
  /\ IsMessage /\ ~body.read
  /\ LET b == bodyText(row.column, Stored)
     IN  body' = [read |-> TRUE, text |-> b.text, undecoded |-> b.undecoded]
  /\ UNCHANGED <<row, kept>>

ReadNote ==
  /\ IsNote /\ ~body.read
  /\ LET b == decodeBody(row.locked, [Zdata(row) EXCEPT !.raw = Stored])
     IN  body' = [read |-> TRUE, text |-> b.text, undecoded |-> b.undecoded]
  /\ UNCHANGED <<row, kept>>

BodyNext == Damage \/ ReadMessage \/ ReadNote

BodySpec == BodyInit /\ [][BodyNext]_bodyVars

(***************************************************************************)
(* Properties                                                              *)
(***************************************************************************)
(* The text whoever wrote the record put there, as the library shows it: a   *)
(* locked note's body is left empty, and Note.Locked says so.               *)
TrueText ==
  CASE IsNote -> IF row.locked THEN <<>> ELSE row.written
    [] IsMessage -> cleanBody(IF row.blob THEN row.text ELSE row.column)

(* A body is the record's own text, whole, or it is reported as unknown: no  *)
(* cut of a blob yields a shorter text, another string of the archive,      *)
(* bytes of another field or a silent "" (typedstream.go DecodeText,        *)
(* messages.go bodyText, applenotes.go DecodeBody; notes.go decodeBody      *)
(* promises it).                                                           *)
EveryBodyTrueOrUnknown == body.read /\ ~body.undecoded => body.text = TrueText

(* DecodeBody takes a note message that it cannot walk to its text for one    *)
(* that has none, and returns "" and no error.                             *)
Stray == IsNote /\ row.form = "stray" /\ ~row.locked

(* So it is of every record but a stray note, whose body is "" and not the   *)
(* text it has.                                                            *)
BodyTrueOrUnknown == ~Stray => EveryBodyTrueOrUnknown

(* Whatever a writer writes decodes: each back-reference of an archive leads *)
(* to the entry the archiver meant, whatever the chain of classes, nesting  *)
(* and widths; a note's text is found wherever scalars and other messages   *)
(* lie around the path, and a note without one is no damaged note; and       *)
(* nobody tries to decode a locked note.                                   *)
UnknownOnlyWhenDamaged ==
  body.read /\ body.undecoded =>
    /\ kept # Len(Blob(row)) \/ (IsNote /\ row.form \in {"garbled", "broken", "stray"})
    /\ IsNote => ~row.locked
=============================================================================
