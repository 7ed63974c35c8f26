------------------------------- MODULE Orders -------------------------------
(***************************************************************************)
(* What an ORDER BY makes of a set of rows.  An order is a set of pairs,      *)
(* <<x, y>> when x comes before y.                                         *)
(***************************************************************************)
EXTENDS Naturals, FiniteSets

(* How many come before x.                                                 *)
PlaceIn(x, S, order) == Cardinality({y \in S : <<y, x>> \in order})

Listed(S, order) == [k \in 1 .. Cardinality(S) |-> CHOOSE x \in S : PlaceIn(x, S, order) = k - 1]
=============================================================================
