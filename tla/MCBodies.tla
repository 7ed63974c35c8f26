------------------------------ MODULE MCBodies ------------------------------
(* Archives of several shapes, notes of several layouts, and texts around   *)
(* the widths of a length.                                                 *)
EXTENDS Bodies

(* ------------------------------- messages ------------------------------ *)

(* Class chains: the usual ones, and two so long that the references to      *)
(* classes written last lie past the reserved range.                       *)
StringChain == <<NSString, NSObject>>
MutableStringChain == <<NSMutableString, NSString, NSObject>>
Attributed == <<NSAttributedString, NSObject>>
MutableAttributed == <<NSMutableAttributedString, NSAttributedString, NSObject>>

Long(name, first, last) == <<name>> \o [i \in 1 .. last - first + 1 |-> 1000 + first + i - 1]

Shape(wrappers, string, wide) == [wrappers |-> wrappers, string |-> string, wide |-> wide]

Shapes ==
  { Shape(<<>>, StringChain, FALSE),
    Shape(<<Attributed>>, StringChain, FALSE),
    Shape(<<MutableAttributed>>, MutableStringChain, FALSE),
    Shape(<<Attributed, MutableAttributed>>, StringChain, FALSE) }

(* The last class is entry 109, 110, 111 and 112 of the object table, from 0. *)
LongShapes ==
  { Shape(<<Long(NSAttributedString, 1, 53), Long(NSMutableAttributedString, 54, n)>>,
          <<NSString, 1000 + n>>, wide) : n \in 106..109, wide \in BOOLEAN }

Plain(n) == [i \in 1..n |-> 65]

Texts ==
  { <<>>, <<65>>, <<Replacement>>, <<65, Replacement, 66>>,
    <<tagNew, refBase, tagNil, tagEnd>>, Plain(127), Plain(128), Plain(300) }

(* The column: NULL, the placeholder alone, or the text as well.            *)
Message(column, blob, shape, text) ==
  [domain |-> "messages", column |-> column, blob |-> blob, shape |-> shape, text |-> text]

Messages ==
  { Message(column, TRUE, shape, text) :
      column \in { <<>>, <<Replacement>> }, shape \in Shapes, text \in Texts }
  \cup { Message(text, TRUE, shape, text) : shape \in Shapes, text \in Texts }
  \cup { Message(<<>>, TRUE, shape, <<65, 66>>) : shape \in LongShapes }
  \cup { Message(<<>>, TRUE, Shape(<<Attributed>>, StringChain, FALSE), Plain(33000)) }
  \cup { Message(text, FALSE, Shape(<<>>, StringChain, FALSE), <<>>) : text \in Texts }

(* -------------------------------- notes -------------------------------- *)

(* Lengths of one and two bytes; and a text that reads as a note_text field. *)
NoteTexts == { <<>>, <<65>>, <<18, 1, 66>>, Plain(127), Plain(128), Plain(300) }

(* What a level may hold besides: nothing, the encoder's scalars, a scalar   *)
(* with note_text's number and a long value, fixed-width fields whose bytes  *)
(* read as a note_text field, and a message of another number.               *)
Pads ==
  { <<>>,
    <<varintFieldBytes(1, 0), varintFieldBytes(2, 0)>>,
    <<varintFieldBytes(2, 300), key(4, wireI64) \o <<18, 1, 66, 18, 1, 66, 0, 0>>>>,
    <<key(4, wireI32) \o <<18, 1, 66, 0>>, lenFieldBytes(5, <<18, 1, 66>>)>>,
    <<key(1, wireVarint) \o <<255, 255, 255, 255, 255, 255, 255, 255, 255, 1>>>> }

Note(locked, form, written, pad, raw) ==
  [domain |-> "notes", locked |-> locked, form |-> form, written |-> written, pad |-> pad,
   raw |-> raw]

(* Roots that cannot be walked: a group, a length no buffer holds, a varint  *)
(* that does not end and one of more than 64 bits.                          *)
Broken ==
  { key(1, 3) \o EncodeBody(<<65>>, <<>>),
    key(2, wireLen) \o <<255, 255, 255, 255, 15>> \o Plain(9),
    key(1, wireVarint) \o [i \in 1..9 |-> 255],
    key(1, wireVarint) \o [i \in 1..9 |-> 255] \o <<2>> \o EncodeBody(<<65>>, <<>>) }

(* A note message with a group, or a long varint, ahead of its text.        *)
Strays ==
  { key(7, 3) \o lenFieldBytes(fieldNoteText, <<65>>),
    key(4, wireVarint) \o [i \in 1..11 |-> 255] \o lenFieldBytes(fieldNoteText, <<65>>) }

MCNotes ==
  { Note(FALSE, "written", text, pad, <<>>) : text \in NoteTexts, pad \in Pads }
  \cup { Note(FALSE, "broken", <<65>>, <<>>, raw) : raw \in Broken }
  \cup { Note(locked, "stray", <<65>>, pad, FlattenSeq(pad) \o raw) :
            locked \in BOOLEAN, pad \in Pads, raw \in Strays }
  \cup { Note(FALSE, "textless", <<>>, pad, <<>>) : pad \in Pads }
  \cup { Note(locked, "garbled", <<65>>, <<>>, <<>>) : locked \in BOOLEAN }
  \cup { Note(locked, "blank", <<>>, <<>>, <<>>) : locked \in BOOLEAN }

MCRows == Messages \cup MCNotes

(* Every cut of a short blob; of a long one its ends and what lies around    *)
(* its 128th byte.                                                         *)
MCCuts(n) == 0..40 \cup 120..135 \cup (n - 10)..n
=============================================================================
