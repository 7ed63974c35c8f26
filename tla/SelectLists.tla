---------------------------- MODULE SelectLists ----------------------------
(***************************************************************************)
(* The SELECT statements of an iterator, reduced to the columns they name.  *)
(* A query is a record of                                                  *)
(*   needs    units without which it is not sent                            *)
(*   columns  the columns it always names                                   *)
(*   gated    unit -> columns it names only when the unit is available      *)
(*   perRow   it is sent for some of the anchor's rows, maybe for none      *)
(*   entities entities (of a CoreData store) without which it is not sent   *)
(***************************************************************************)
EXTENDS Introspect

Preload(units, columns) ==
  [needs |-> units, columns |-> columns, gated |-> <<>>, perRow |-> FALSE, entities |-> {}]
Anchor(columns, gated) ==
  [needs |-> {}, columns |-> columns, gated |-> gated, perRow |-> FALSE, entities |-> {}]
PerRow(units, columns) ==
  [needs |-> units, columns |-> columns, gated |-> <<>>, perRow |-> TRUE, entities |-> {}]
OfEntities(entities, q) == [q EXCEPT !.entities = entities]

(* Mutant of Names: one unavailable unit takes the other units with it.    *)
NamesAllOrNothing(q, units) ==
  q.columns \cup (IF units = {} THEN UNION {q.gated[u] : u \in DOMAIN q.gated} ELSE {})

(* The columns a query names under a set of unavailable units.             *)
Names(q, units) == q.columns \cup UNION {q.gated[u] : u \in DOMAIN q.gated \ units}

(* The columns any database has that matches fp and lacks none of units.   *)
Guaranteed(fp, units) ==
  fp.required \cup UNION {fp.optional[u] : u \in units \cap DOMAIN fp.optional}

QueryCovered(fp, units, q) ==
  /\ \A c \in q.columns : Provides(Guaranteed(fp, units \cup q.needs), c)
  /\ \A u \in DOMAIN q.gated : \A c \in q.gated[u] :
       Provides(Guaranteed(fp, units \cup q.needs \cup {u}), c)
=============================================================================
