----------------------------- MODULE MCIbpDump -----------------------------
EXTENDS IbpDump

Kinds == {"record", "unencodable", "RowError"}
Short == {<<>>} \cup {<<a>> : a \in Kinds}
Rows == Short \cup {<<a, b>> : a \in Kinds, b \in Kinds}

Stream(rows, fails) == [refused |-> FALSE, rows |-> rows, fails |-> fails]
Refusal == [refused |-> TRUE, rows |-> <<>>, fails |-> FALSE]

Yields(type, rows) ==
  {Stream(r, f) : r \in rows, f \in BOOLEAN} \cup (IF type \in MayRefuse THEN {Refusal} ELSE {})

(* Two rows at most for a dump's first iterator, one for the others.         *)
StreamsOf(dump) ==
  LET y(k) == Yields(dump[k].record, IF k = 1 THEN Rows ELSE IF k = 2 THEN Short ELSE {<<"record">>}) IN
  IF Len(dump) = 1 THEN {<<a>> : a \in y(1)}
  ELSE IF Len(dump) = 2 THEN {<<a, b>> : a \in y(1), b \in y(2)}
  ELSE {<<a, b, c>> : a \in y(1), b \in y(2), c \in y(3)}

World(root, domain, tree, opens, streams, room) ==
  [root |-> root, domain |-> domain, tree |-> tree, opens |-> opens, streams |-> streams, room |-> room]

MCWorlds ==
  UNION {{World(TRUE, d, TRUE, TRUE, s, room) : s \in StreamsOf(Dumps[d]), room \in {0, 1, 3, 9}} :
           d \in DOMAIN Dumps}
    \cup {World(r, d, t, FALSE, <<>>, 9) : r \in BOOLEAN, t \in BOOLEAN,
                                          d \in DOMAIN Dumps \cup {"photos"}}
=============================================================================
