---------------------------- MODULE DomainReader ----------------------------
(***************************************************************************)
(* An open domain over databases of any shape.  A domain reads one store    *)
(* (messages, contacts, calls, calendar, notes) or every Data-*.sqlite of a *)
(* directory (reminders).  Open takes the stores in the order of their      *)
(* names, detects the schema of each, keeps the capability of the first and *)
(* gives back every handle when one fails; an iterator streams the stores   *)
(* in turn, sending each the queries its unavailable units leave it.        *)
(*                                                                         *)
(* Specs[d] is the domain's introspect.Spec, its fingerprints in discovery  *)
(* order.  Streams[d][s] is an iterator, [needs, entities, queries]: it is   *)
(* refused when one of needs is unavailable or an entity is not there.  A    *)
(* store is [columns, entities]: its columns, and the entities its          *)
(* Z_PRIMARYKEY names ({} where the domain does not use CoreData).          *)
(***************************************************************************)
EXTENDS SelectLists

CONSTANTS
  Domains,      (* the domains                                             *)
  Specs,        (* the fingerprints of each                                *)
  Anchored,     (* the entities a store of it has to have                  *)
  Streams,      (* its iterators, by name                                  *)
  Backups,      (* what may be in a backup of it: functions from stores    *)
  Hosts,        (* can the host list its directory: TRUE, FALSE            *)
  MaxStores,    (* stores are numbered in the order of their names,        *)
  LocalStore,   (* and this one has a name known in advance                *)
  Excepted      (* domains whose SELECTs disagree with their fingerprints  *)

Stores == 1 .. MaxStores

ASSUME StoresAssumption == MaxStores \in Nat /\ LocalStore \in Stores
ASSUME HostsAssumption == \A d \in Domains : Hosts[d] \subseteq BOOLEAN
ASSUME BackupsAssumption ==
  \A d \in Domains : \A b \in Backups[d] : DOMAIN b \subseteq Stores
ASSUME StreamsAssumption ==
  \A d \in Domains : \A s \in DOMAIN Streams[d] : Len(Streams[d][s].queries) \in Nat

VARIABLES
  domain,       (* the domain being read                                   *)
  disk,         (* the stores in the backup                                *)
  enumerated,   (* the host implements ReadDirFS                           *)
  phase,        (* "closed", "opening", "idle", "streaming", "failed",      *)
                (* "released"                                              *)
  handles,      (* stores with an open *sql.DB                             *)
  stores,       (* r.stores                                                *)
  pending,      (* the store Open has a handle of and has not accepted, 0  *)
  todo,         (* the stores Open, or the iterator, has not got to        *)
  unavailable,  (* r.unavailable                                           *)
  missing,      (* r.capability.Missing                                    *)
  stream,       (* the iterator running, or the last one that ran          *)
  at,           (* the next query to the store at hand                     *)
  selected,     (* columns named by the queries sent to each store         *)
  given,        (* the stores whose rows it has yielded                    *)
  outcome       (* how the last iterator ended                             *)

backup == <<domain, disk, enumerated>>
openVars == <<handles, stores, pending, unavailable, missing>>
streamVars == <<stream, at, selected, given, outcome>>
vars == <<backup, phase, todo, openVars, streamVars>>

None == "none"

(* The store at hand: the first of those not got to.                       *)
First(k) == k \in todo /\ \A j \in todo : k <= j

Queries == Streams[domain][stream].queries
Query == Queries[at]

(***************************************************************************)
(* Open                                                                    *)
(***************************************************************************)
Init ==
  /\ domain \in Domains
  /\ disk \in Backups[domain]
  /\ enumerated \in Hosts[domain]
  /\ phase = "closed" /\ todo = {}
  /\ handles = {} /\ stores = {} /\ pending = 0
  /\ unavailable = {} /\ missing = {}
  /\ stream = None /\ at = 0 /\ outcome = None
  /\ selected = [k \in Stores |-> {}] /\ given = {}

(* storeNames: without ReadDirFS only the name known in advance.           *)
storeNames == IF enumerated THEN DOMAIN disk ELSE DOMAIN disk \cap {LocalStore}

Open ==
  /\ phase = "closed"
  /\ storeNames # {}
  /\ phase' = "opening" /\ todo' = storeNames
  /\ UNCHANGED <<backup, openVars, streamVars>>

(* No store is there (fs.ErrNotExist), or the directory cannot be read.     *)
OpenFails ==
  /\ phase = "closed"
  /\ phase' = "failed"
  /\ UNCHANGED <<backup, todo, openVars, streamVars>>

(* Materialize and sqlitedb.Open: a handle no one owns yet.                *)
OpenStore(k) ==
  /\ phase = "opening" /\ pending = 0 /\ First(k)
  /\ handles' = handles \cup {k} /\ pending' = k
  /\ UNCHANGED <<backup, phase, todo, stores, unavailable, missing, streamVars>>

(* Detect and loadEntities accept the store: it joins r.stores; the first   *)
(* one's capability stands for all.                                        *)
AcceptStore(k) ==
  /\ phase = "opening" /\ pending = k /\ First(k)
  /\ Anchored[domain] \subseteq disk[k].entities
  /\ \E i \in 1 .. Len(Specs[domain]) :
       /\ Detects(Specs[domain], disk[k].columns, i)
       /\ IF stores = {}
          THEN /\ unavailable' = UnitsAbsent(Specs[domain][i], disk[k].columns)
               /\ missing' = Missing(Specs[domain][i], disk[k].columns)
          ELSE UNCHANGED <<unavailable, missing>>
  /\ stores' = stores \cup {k} /\ pending' = 0 /\ todo' = todo \ {k}
  /\ UNCHANGED <<backup, phase, handles, streamVars>>

(* Mutant of GiveUp: the handle of the store at fault is forgotten.        *)
GiveUpOwned ==
  /\ phase = "opening"
  /\ phase' = "failed"
  /\ handles' = handles \ stores
  /\ UNCHANGED <<backup, todo, stores, pending, unavailable, missing, streamVars>>

(* A store is not there any more, cannot be read, matches no fingerprint or *)
(* lacks the entity: its handle, if any, and those of r.stores are closed.  *)
GiveUp ==
  /\ phase = "opening"
  /\ phase' = "failed"
  /\ handles' = handles \ (stores \cup {pending})
  /\ UNCHANGED <<backup, todo, stores, pending, unavailable, missing, streamVars>>

(* Mutant of Opened: only one of the two sets is told.                     *)
OpenedHalf ==
  /\ phase = "opening" /\ todo = {}
  /\ phase' = "idle"
  /\ unavailable' = IF enumerated THEN unavailable ELSE unavailable \cup {"cloudkit_stores"}
  /\ UNCHANGED <<backup, todo, handles, stores, pending, missing, streamVars>>

(* Reminders without ReadDirFS: the stores not looked for are reported.    *)
Opened ==
  /\ phase = "opening" /\ todo = {}
  /\ phase' = "idle"
  /\ IF enumerated
     THEN UNCHANGED <<unavailable, missing>>
     ELSE /\ unavailable' = unavailable \cup {"cloudkit_stores"}
          /\ missing' = missing \cup {"cloudkit_stores"}
  /\ UNCHANGED <<backup, todo, handles, stores, pending, streamVars>>

(* Close, closeAll.                                                        *)
Close ==
  /\ phase = "idle"
  /\ phase' = "released"
  /\ handles' = handles \ stores
  /\ UNCHANGED <<backup, todo, stores, pending, unavailable, missing, streamVars>>

(***************************************************************************)
(* An iterator                                                             *)
(***************************************************************************)
Has(k, entities) == entities \subseteq disk[k].entities

(* A unit is unavailable, or the entity's ordinal is 0.                    *)
Refused(s) ==
  \/ Streams[domain][s].needs \cap unavailable # {}
  \/ \E k \in stores : ~Has(k, Streams[domain][s].entities)

Iterate(s) ==
  /\ phase = "idle" /\ ~Refused(s)
  /\ phase' = "streaming"
  /\ stream' = s /\ at' = 1 /\ todo' = stores
  /\ selected' = [k \in Stores |-> {}] /\ given' = {} /\ outcome' = None
  /\ UNCHANGED <<backup, openVars>>

Refuse(s) ==
  /\ phase = "idle" /\ Refused(s)
  /\ stream' = s /\ at' = 0 /\ todo' = {}
  /\ selected' = [k \in Stores |-> {}] /\ given' = {} /\ outcome' = "ErrUnavailable"
  /\ UNCHANGED <<backup, phase, openVars>>

(* Mutant of Sends: a query is sent for units that are not available.       *)
SendsAlways(k) ==
  /\ phase = "streaming" /\ First(k) /\ at <= Len(Queries)
  /\ Has(k, Query.entities)

Sends(k) ==
  /\ phase = "streaming" /\ First(k) /\ at <= Len(Queries)
  /\ Query.needs \cap unavailable = {} /\ Has(k, Query.entities)

(* A query of an unavailable unit or of an entity the store does not have,  *)
(* or of rows whose anchors are not there.                                 *)
SkipQuery(k) ==
  /\ phase = "streaming" /\ First(k) /\ at <= Len(Queries)
  /\ Query.needs \cap unavailable # {} \/ ~Has(k, Query.entities) \/ Query.perRow
  /\ at' = at + 1
  /\ UNCHANGED <<backup, phase, todo, openVars, stream, selected, given, outcome>>

SendQuery(k) ==
  /\ Sends(k) /\ Unmet(Names(Query, unavailable), disk[k].columns) = {}
  /\ selected' = [selected EXCEPT ![k] = @ \cup Names(Query, unavailable)]
  /\ at' = at + 1
  /\ UNCHANGED <<backup, phase, todo, openVars, stream, given, outcome>>

(* The store has no such column: a stream-scoped error ends the iteration,  *)
(* the stores behind it included.                                          *)
QueryFails(k) ==
  /\ Sends(k) /\ Unmet(Names(Query, unavailable), disk[k].columns) # {}
  /\ phase' = "idle" /\ outcome' = "SQLError"
  /\ UNCHANGED <<backup, todo, openVars, stream, at, selected, given>>

(* Mutant of StoreDone: the iterator ends with the first store.            *)
StoreDoneFirst(k) ==
  /\ phase = "streaming" /\ First(k) /\ at > Len(Queries)
  /\ given' = given \cup {k}
  /\ todo' = {} /\ at' = 1
  /\ UNCHANGED <<backup, phase, openVars, stream, selected, outcome>>

(* The store's rows were yielded to the last one.                          *)
StoreDone(k) ==
  /\ phase = "streaming" /\ First(k) /\ at > Len(Queries)
  /\ given' = given \cup {k}
  /\ todo' = todo \ {k} /\ at' = 1
  /\ UNCHANGED <<backup, phase, openVars, stream, selected, outcome>>

(* The consumer breaks out of a store's rows.                              *)
Break(k) ==
  /\ phase = "streaming" /\ First(k) /\ at > Len(Queries)
  /\ phase' = "idle" /\ outcome' = "stopped"
  /\ UNCHANGED <<backup, todo, openVars, stream, at, selected, given>>

EndOfStream ==
  /\ phase = "streaming" /\ todo = {}
  /\ phase' = "idle" /\ outcome' = "complete"
  /\ UNCHANGED <<backup, todo, openVars, stream, at, selected, given>>

Next ==
  \/ Open \/ OpenFails \/ GiveUp \/ Opened \/ Close \/ EndOfStream
  \/ \E k \in Stores : \/ OpenStore(k) \/ AcceptStore(k)
                       \/ SkipQuery(k) \/ SendQuery(k) \/ QueryFails(k)
                       \/ StoreDone(k) \/ Break(k)
  \/ \E s \in DOMAIN Streams[domain] : Iterate(s) \/ Refuse(s)

Spec == Init /\ [][Next]_vars

(***************************************************************************)
(* Properties                                                              *)
(***************************************************************************)
Phases == {"closed", "opening", "idle", "streaming", "failed", "released"}

TypeOK ==
  /\ domain \in Domains /\ DOMAIN disk \subseteq Stores /\ enumerated \in BOOLEAN
  /\ phase \in Phases
  /\ handles \subseteq Stores /\ stores \subseteq Stores
  /\ todo \subseteq Stores /\ pending \in Stores \cup {0}
  /\ unavailable \subseteq missing
  /\ at \in Nat /\ given \subseteq Stores
  /\ outcome \in {None, "ErrUnavailable", "SQLError", "complete", "stopped"}

(* Open fails on the third store, or the domain is closed: no handle stays  *)
(* open that nobody can close.  While it is open each of its stores has one. *)
HandlesReleased ==
  /\ phase \in {"failed", "released"} => handles = {}
  /\ phase \in {"idle", "streaming"} => handles = stores /\ stores # {}

(* An iterator that ran to its end has yielded the rows of every store in   *)
(* the backup, or Capability.Missing says that some could not be found:     *)
(* "never a silent partial read" (schema.go).                              *)
EveryStoreRead ==
  outcome = "complete" => given = DOMAIN disk \/ "cloudkit_stores" \in missing

(* A query has read every column it knows of, or Missing names the unit it  *)
(* left out, or the store does not have the entity.                        *)
Told(units) == units \cap missing # {}
Accounted(k, q) ==
  \/ q.perRow \/ Told(q.needs) \/ ~Has(k, q.entities)
  \/ /\ q.columns \subseteq selected[k]
     /\ \A u \in DOMAIN q.gated : Told({u}) \/ q.gated[u] \subseteq selected[k]

(* And it has read every column it knows of in each of them, except those   *)
(* of units Missing names and of entities the store does not have.  Nothing  *)
(* is left out silently.                                                   *)
HonestStores ==
  outcome = "complete" =>
    \A k \in stores : \A i \in 1 .. Len(Queries) : Accounted(k, Queries[i])

(* Every column a SELECT names is required by the fingerprint or listed by a *)
(* unit that guards it.                                                    *)
Covered(d) ==
  \A i \in 1 .. Len(Specs[d]) : \A s \in DOMAIN Streams[d] :
    \A k \in 1 .. Len(Streams[d][s].queries) :
      QueryCovered(Specs[d][i], Streams[d][s].needs, Streams[d][s].queries[k])

OneStore(d) == \A b \in Backups[d] : \A j, k \in DOMAIN b : j = k

(* The two hand-kept lists of a domain agree, the queries sent only for     *)
(* some rows included: an available unit guarantees that no SELECT names an *)
(* absent column (the rule the schema.go files state).                      *)
ListsAgree == phase = "closed" /\ domain \notin Excepted => Covered(domain)

(* A missing column degrades Missing, it does not break a stream (doc.go):   *)
(* an iterator of a domain Open accepted never fails for want of a column.  *)
NoAbsentColumn == outcome = "SQLError" => domain \in Excepted

(* What remains of it for the others: when a stream does break, the SELECT   *)
(* names a column its unit does not list, or the store lacks a unit the     *)
(* first one has.                                                          *)
FailureExplained ==
  outcome = "SQLError" =>
    \E k \in stores : \E i \in 1 .. Len(Specs[domain]) :
      /\ First(k) /\ Detects(Specs[domain], disk[k].columns, i)
      /\ \/ ~(UnitsAbsent(Specs[domain][i], disk[k].columns) \subseteq unavailable)
         \/ ~QueryCovered(Specs[domain][i], Streams[domain][stream].needs, Query)

AllColumns(d) ==
  UNION {Specs[d][i].required : i \in 1 .. Len(Specs[d])}
    \cup UNION {UNION {Specs[d][i].optional[u] : u \in DOMAIN Specs[d][i].optional} :
                  i \in 1 .. Len(Specs[d])}

(* A database with one more column, known or unknown, is still supported,  *)
(* by a fingerprint at least as early, and under the same fingerprint      *)
(* nothing else goes missing: unknown columns never disqualify             *)
(* (introspect.go Detect).                                                 *)
ExtraColumnHarmless ==
  phase = "idle" /\ stream = None =>
    \A k \in stores : (\A j \in stores : k <= j) =>
      \A c \in AllColumns(domain) \cup {<<t, "(unknown)">> : t \in Tables(AllColumns(domain))} :
        LET more == disk[k].columns \cup {c} IN
        \E i \in 1 .. Len(Specs[domain]) :
          /\ Detects(Specs[domain], more, i)
          /\ IF Detects(Specs[domain], disk[k].columns, i)
             THEN Missing(Specs[domain][i], more) \subseteq missing
             ELSE ~\E j \in 1 .. i : Detects(Specs[domain], disk[k].columns, j)
=============================================================================
