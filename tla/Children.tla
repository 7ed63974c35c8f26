------------------------------ MODULE Children ------------------------------
(***************************************************************************)
(* What the iterators' reference tables are made of.  A store is a record    *)
(* of tables, sets of rows; a row is a record of its columns, [id, ...].      *)
(* The columns a record copies unchanged are two: "plain", always selected,   *)
(* and "optional", selected unless unit "optional" is absent; a child that    *)
(* has nothing to resolve is known by its id.  A row whose bad is a column's  *)
(* name has a value there that Scan cannot convert.                          *)
(*                                                                         *)
(* A function of the code that may fail returns the set of what it returns,   *)
(* {} for an error: the row then yields a RowError.                         *)
(*                                                                         *)
(* store.absent has the units r.unavailable names; store.noEntity those of a  *)
(* Core Data store whose entity its Z_PRIMARYKEY lacks.  A SELECT list goes   *)
(* by the first alone; what is loaded goes by both.                         *)
(***************************************************************************)
EXTENDS Naturals, Sequences, FiniteSets, Orders

CONSTANTS
  Null,         (* a NULL column; a nil pointer; a column that converts    *)
  Spoilt        (* what a consumer wrote over a value                      *)

Ids(rows) == {r.id : r \in rows}
RowOf(rows, id) == CHOOSE r \in rows : r.id = id
Sorted(ids) == Listed(ids, {p \in ids \X ids : p[1] < p[2]})
SortedRows(rows) == Listed(rows, {p \in rows \X rows : p[1].id < p[2].id})

(* Maps, from ids.  A nil map has no key.                                  *)
NilMap == <<>>
At(map, key) == IF key \in DOMAIN map THEN map[key] ELSE Null
ListAt(map, key) == IF key \in DOMAIN map THEN map[key] ELSE <<>>

ById(rows) == [i \in Ids(rows) |-> i]

(* A NULL owner is scanned into a NullInt64, whose Int64 is then 0.          *)
OwnerKey(r) == IF r.owner = Null THEN 0 ELSE r.owner

(* Rows grouped by the row that owns them, in the order of ids.             *)
ByOwner(rows) ==
  [o \in {OwnerKey(r) : r \in rows} |-> Sorted(Ids({r \in rows : OwnerKey(r) = o}))]

Loaded(db, unit) == unit \notin db.absent \cup db.noEntity

(* A map that stays nil unless its unit is loaded.                         *)
Unless(db, unit, map) == IF Loaded(db, unit) THEN map ELSE NilMap

(* A column of a SELECT that is there when its unit is.                     *)
Col(db, unit, column) == IF unit \in db.absent THEN <<>> ELSE <<column>>
=============================================================================
