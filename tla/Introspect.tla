----------------------------- MODULE Introspect -----------------------------
(***************************************************************************)
(* internal/introspect: deciding what a database can provide from the       *)
(* tables and columns it has.                                              *)
(*                                                                         *)
(* A column is <<table, name>>, a database the set of columns pragma        *)
(* table_info lists, a set of required tables (type Tables) a set of        *)
(* columns.  A fingerprint is a record [required, optional, alwaysMissing]; *)
(* optional maps the name of a unit to the columns it needs.               *)
(***************************************************************************)
EXTENDS Naturals, Sequences

Of(table, names) == {table} \X names

Tables(columns) == {c[1] : c \in columns}

(* Every table that exists has a rowid, listed by table_info or not.       *)
Provides(db, c) == c \in db \/ (c[2] = "ROWID" /\ \E d \in db : d[1] = c[1])

Unmet(want, db) == {c \in want : ~Provides(db, c)}

Matches(fp, db) == Unmet(fp.required, db) = {}

(* Mutant of UnitsAbsent: a table has to have the listed columns, no other. *)
UnitsNotExact(fp, db) ==
  {u \in DOMAIN fp.optional :
     {c \in db : c[1] \in Tables(fp.optional[u])}
       # {c \in fp.optional[u] : c[2] # "ROWID"}}

UnitsAbsent(fp, db) == {u \in DOMAIN fp.optional : Unmet(fp.optional[u], db) # {}}

Missing(fp, db) == fp.alwaysMissing \cup UnitsAbsent(fp, db)

(* Detect takes the first fingerprint, in discovery order, that db         *)
(* matches; with none it is UnsupportedSchemaError.                        *)
Detects(spec, db, i) ==
  /\ Matches(spec[i], db)
  /\ \A j \in 1 .. i - 1 : ~Matches(spec[j], db)

Supported(spec, db) == \E i \in 1 .. Len(spec) : Matches(spec[i], db)
=============================================================================
