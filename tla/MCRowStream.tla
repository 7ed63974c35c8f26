---------------------------- MODULE MCRowStream ----------------------------
(* RowStream for TLC: rows of every kind, good ones after the bad ones.     *)
EXTENDS RowStream, TLC

MCRows == <<{"children"}, {"corrupt"}, {"children", "dangling"}, {}>>
PlainRows == <<{}, {"corrupt"}, {}>>

Symmetry == Permutations(Iterators)
=============================================================================
