------------------------------ MODULE Records ------------------------------
(***************************************************************************)
(* One iterator of a domain and the consumer ranging over it: what each row  *)
(* of the anchor table turns into, the reference tables loaded for it, and   *)
(* what the consumer may do to the records it is given.  The reader of       *)
(* reminders goes through several stores, the others have one.              *)
(***************************************************************************)
EXTENDS PreloadedChildren, QueriedChildren, RecordTruth, Integers, SequencesExt

CONSTANTS
  Worlds,       (* [iterator, stores]: an iterator and the stores it reads  *)
  Chat1,        (* the chat that ChatMessages is asked for                 *)
  MaxRanges     (* bound: times the iterator is ranged over                *)

(* The columns of each iterator's SELECT.                                  *)
ColumnsOf(i, db) ==
  CASE i = "Events"    -> EventColumns(db)
    [] i = "Calendars" -> CalendarColumns
    [] i = "Notes"     -> NoteColumns(db)
    [] i = "Folders"   -> FolderColumns(db)
    [] i = "Reminders" -> ReminderColumns(db)
    [] i = "Lists"     -> ListColumns
    [] i \in {"Messages", "ChatMessages"} -> MessageColumns(db)
    [] i = "Chats"     -> ChatColumns
    [] i = "Calls"     -> CallColumns(db)
    [] i = "People"    -> PersonColumns(db)
    [] i = "Groups"    -> GroupColumns

Iterators ==
  {"Events", "Calendars", "Notes", "Folders", "Reminders", "Lists",
   "Messages", "ChatMessages", "Chats", "Calls", "People", "Groups"}

(* An anchor table: a row has the columns of the widest SELECT and is told     *)
(* apart by its id, an INTEGER PRIMARY KEY, which always scans; a date is a   *)
(* number.                                                                 *)
IsAnchor(i, db) ==
  /\ IsFiniteSet(db.rows)
  /\ \A r \in db.rows :
       /\ r.id \in Int /\ r.bad # "id"
       /\ LET columns == ColumnsOf(i, [absent |-> {}]) IN
          \A k \in DOMAIN columns : columns[k] \in DOMAIN r \ {"bad"}
       /\ i \in {"Messages", "ChatMessages"} => r.date \in Int \cup {Null}
  /\ \A r, s \in db.rows : r.id = s.id => r = s

Keyed(table) ==
  /\ IsFiniteSet(table) /\ \A r \in table : r.id \in Int
  /\ \A r, s \in table : r.id = s.id => r = s

(* The tables of children: finite, with a primary key or a join's columns.     *)
(* SQLite numbers rows from 1 (0 is no event, and no participant), and an       *)
(* attachment of a note has one medium.                                     *)
HasTables(i, db) ==
  CASE i \in {"Events", "Calendars"} ->
         /\ Keyed(db.Store) /\ Keyed(db.Calendar) /\ Keyed(db.Location) /\ Keyed(db.Identity)
         /\ Keyed(db.Participant) /\ 0 \notin Ids(db.Participant) \cup Ids(db.rows)
         /\ Keyed(db.Recurrence) /\ Keyed(db.Alarm) /\ Keyed(db.Attachment)
    [] i \in {"Notes", "Folders"} ->
         /\ Keyed(db.ICAccount) /\ Keyed(db.ICFolder) /\ Keyed(db.ICAttachment) /\ Keyed(db.ICMedia)
         /\ \A m, n \in db.ICMedia :
              m.attachment = n.attachment /\ m.attachment \in Ids(db.ICAttachment) => m = n
    [] i \in {"Reminders", "Lists"} ->
         /\ Keyed(db.account) /\ Keyed(db.list) /\ Keyed(db.rule)
         /\ Keyed(db.sharee) /\ Keyed(db.assignment)
    [] i \in {"Messages", "ChatMessages"} ->
         /\ Keyed(db.Handle) /\ Keyed(db.Attachment) /\ IsFiniteSet(db.ChatMessageJoin)
         /\ \A j \in db.ChatMessageJoin : j.chat \in Int \cup {Null}
    [] i \in {"Chats", "Calls"} -> Keyed(db.Handle)
    [] i = "People" ->
         Keyed(db.Label) /\ Keyed(db.EntryKey) /\ Keyed(db.Store) /\ Keyed(db.MultiValue)
    [] i = "Groups" ->
         /\ IsFiniteSet(db.GroupMember)
         /\ \A m \in db.GroupMember : m.type \in Int /\ m.member \in Int

(* The units of child tables that are read by an entity of Z_PRIMARYKEY.      *)
EntityUnits(i) ==
  CASE i \in {"Notes", "Folders"} -> {"account", "folders", "attachments"}
    [] i \in {"Reminders", "Lists"} -> {"account", "recurrence", "assignment"}
    [] OTHER -> {}

ASSUME RecordsAssumption ==
  /\ MaxRanges \in Nat /\ Null \notin Int
  /\ \A w \in Worlds :
       /\ w.iterator \in Iterators
       /\ w.stores \in Seq({w.stores[k] : k \in DOMAIN w.stores}) \ {<<>>}
       /\ w.iterator \notin {"Reminders", "Lists"} => Len(w.stores) = 1
       /\ \A k \in DOMAIN w.stores :
            /\ IsAnchor(w.iterator, w.stores[k]) /\ HasTables(w.iterator, w.stores[k])
            /\ w.stores[k].noEntity \subseteq EntityUnits(w.iterator)

VARIABLES
  iterator,
  stores,       (* the databases, private copies that do not change         *)
  pc,           (* "outside" a range, "load", "rows"                       *)
  at,           (* the store being read, and how many of its rows are       *)
  children,     (* its reference tables                                    *)
  buffer,       (* the row scanned into                                    *)
  given,        (* what this range has yielded                             *)
  ending,       (* how it ended: "none" yet, "complete", "stopped",         *)
                (* "error", "unavailable"                                  *)
  wrote,        (* this range's consumer wrote over records it was given    *)
  ranges        (* ranges begun                                            *)

vars == <<iterator, stores, pc, at, children, buffer, given, ending, wrote, ranges>>

(***************************************************************************)
(* The iterators                                                           *)
(***************************************************************************)

(* The unit without which an iterator yields ErrUnavailable, if there is one. *)
UnitOf ==
  CASE iterator \in {"ChatMessages", "Chats"} -> {"chats"}
    [] iterator = "Groups"    -> {"groups"}
    [] iterator = "Calendars" -> {"calendar"}
    [] iterator = "Folders"   -> {"folders"}
    [] iterator = "Lists"     -> {"lists"}
    [] OTHER -> {}

Refused == \E unit \in UnitOf : ~Loaded(stores[1], unit)

TablesOf ==
  CASE iterator = "Events"       -> EventTables
    [] iterator = "Calendars"    -> CalendarTables
    [] iterator = "Notes"        -> NoteTables
    [] iterator = "Folders"      -> FolderTables
    [] iterator = "Reminders"    -> ReminderTables
    [] iterator = "Lists"        -> ListTables
    [] iterator = "Messages"     -> MessageTables
    [] iterator = "ChatMessages" -> ChatMessageTables
    [] iterator = "Chats"        -> ChatTables
    [] iterator = "Calls"        -> CallTables
    [] iterator = "People"       -> PersonTables
    [] iterator = "Groups"       -> {}

(* Scanning a reference table stops at a value it cannot convert.           *)
Unreadable(db) ==
  \E t \in TablesOf :
    Loaded(db, t[1]) /\ \E r \in db[t[2]] : r.bad # Null

ChildrenOf(db) ==
  CASE iterator = "Events"       -> {EventChildren(db)}
    [] iterator = "Calendars"    -> {CalendarChildren(db)}
    [] iterator = "Notes"        -> {NoteChildren(db)}
    [] iterator = "Folders"      -> {FolderChildren(db)}
    [] iterator = "Reminders"    -> ReminderChildren(db)
    [] iterator = "Lists"        -> {ListChildren(db)}
    [] iterator = "Messages"     -> {MessageChildren(db)}
    [] iterator = "ChatMessages" -> {ChatMessageChildren(db)}
    [] iterator = "Chats"        -> {ChatChildren(db)}
    [] iterator = "Calls"        -> {CallChildren(db)}
    [] iterator = "People"       -> {loadLookups(db)}
    [] iterator = "Groups"       -> {NilMap}

(* Mutant of LoadedFor: reference tables are loaded once.                   *)
LoadedOnce(db) == IF children # NilMap THEN {children} ELSE ChildrenOf(db)

LoadedFor(db) == ChildrenOf(db)

(* The record of the row in the buffer.                                    *)
RecordOf(db, row) ==
  CASE iterator = "Events"       -> {Event(children, row)}
    [] iterator = "Calendars"    -> {Calendar(children, row)}
    [] iterator = "Notes"        -> {Note(children, row)}
    [] iterator = "Folders"      -> {Folder(children, row)}
    [] iterator = "Reminders"    -> {Reminder(db, children, row)}
    [] iterator = "Lists"        -> {List(db, children, row)}
    [] iterator = "Messages"     -> Message(db, children, row)
    [] iterator = "ChatMessages" -> ChatMessage(db, children, row)
    [] iterator = "Chats"        -> Chat(db, children, row)
    [] iterator = "Calls"        -> Call(db, children, row)
    [] iterator = "People"       -> Person(db, children, row)
    [] iterator = "Groups"       -> Group(db, row)

(* What is left of the reference tables when a consumer has written over     *)
(* whatever a record of it leads to.                                       *)
Spoiled(record) ==
  CASE iterator = "Events"    -> SpoilEvent(children, record)
    [] iterator = "Notes"     -> SpoilNote(children, record)
    [] iterator = "Reminders" -> SpoilReminder(children, record)
    [] OTHER -> children

(* The anchor query: its rows, and their order.                            *)
Anchored(db) ==
  CASE iterator = "Events" -> {r \in db.rows : r.scale # "birthday"}
    [] iterator = "ChatMessages" ->
         {r \in db.rows : \E j \in db.ChatMessageJoin :
                            j.bad = Null /\ j.message = r.id /\ j.chat = Chat1}
    [] OTHER -> db.rows

(* SQLite sorts NULL below any date.                                       *)
DateBelow(d, e) == e # Null /\ (d = Null \/ d < e)
Earlier(r, s) == DateBelow(r.date, s.date) \/ (r.date = s.date /\ r.id < s.id)

Before(r, s) ==
  CASE iterator = "Messages"     -> Earlier(r, s)
    [] iterator = "ChatMessages" -> Earlier(s, r)
    [] OTHER -> r.id < s.id

Result(db) == LET rows == Anchored(db) IN Listed(rows, {p \in rows \X rows : Before(p[1], p[2])})

(***************************************************************************)
(* A range                                                                 *)
(***************************************************************************)

Init ==
  /\ \E w \in Worlds : iterator = w.iterator /\ stores = w.stores
  /\ pc = "outside" /\ at = [store |-> 0, row |-> 0]
  /\ children = NilMap /\ buffer = NilMap
  /\ given = <<>> /\ ending = "none" /\ wrote = FALSE /\ ranges = 0

Leave(how) == pc' = "outside" /\ ending' = how

Begin ==
  /\ pc = "outside" /\ ranges < MaxRanges
  /\ ranges' = ranges + 1
  /\ given' = <<>> /\ wrote' = FALSE
  /\ at' = [store |-> 1, row |-> 0]
  /\ IF Refused THEN Leave("unavailable") ELSE pc' = "load" /\ ending' = "none"
  /\ UNCHANGED <<iterator, stores, children, buffer>>

(* loadChildren, then the anchor query.                                    *)
Load ==
  /\ pc = "load"
  /\ LET db == stores[at.store] IN
     \/ Unreadable(db) /\ Leave("error") /\ UNCHANGED children
     \/ ~Unreadable(db) /\ pc' = "rows" /\ children' \in LoadedFor(db) /\ UNCHANGED ending
  /\ UNCHANGED <<iterator, stores, at, buffer, given, wrote, ranges>>

(* *row = messageRow{}, then Scan: it assigns column after column up to one  *)
(* that it cannot convert.                                                 *)
(* Mutant of Scanned: the row's id is scanned last, into a buffer that is not *)
(* reset.                                                                  *)
ScannedOver(columns, row) ==
  LET upto == IF \E k \in DOMAIN columns : columns[k] = row.bad
              THEN CHOOSE k \in DOMAIN columns : columns[k] = row.bad ELSE 0 IN
  [f \in DOMAIN row \ {"bad"} |->
     IF \E k \in upto + 1 .. Len(columns) : columns[k] = f THEN row[f]
     ELSE At(buffer, f)]

Scanned(columns, row) ==
  LET upto == IF \E k \in DOMAIN columns : columns[k] = row.bad
              THEN CHOOSE k \in DOMAIN columns : columns[k] = row.bad ELSE Len(columns) + 1 IN
  [f \in DOMAIN row \ {"bad"} |->
     IF \E k \in 1 .. upto - 1 : columns[k] = f THEN row[f] ELSE Null]

(* An id that was not scanned is 0.                                        *)
Give(kind, id, record) ==
  given' = Append(given, [kind |-> kind, store |-> at.store, id |-> IF id = Null THEN 0 ELSE id,
                          record |-> record])

(* The consumer goes on, or breaks out of its loop.                         *)
GoesOn ==
  \/ pc' = "rows" /\ UNCHANGED ending
  \/ Leave("stopped")

(* A row: its record, which the consumer may write over, or a RowError.      *)
NextRow ==
  /\ pc = "rows"
  /\ LET db == stores[at.store]
         row == Result(db)[at.row + 1]
         columns == ColumnsOf(iterator, db)
         scans == \A k \in DOMAIN columns : columns[k] # row.bad
         records == IF scans THEN RecordOf(db, buffer') ELSE {}
     IN  /\ at.row < Len(Result(db))
         /\ buffer' = Scanned(columns, row)
         /\ \/ \E record \in records :
               /\ Give("record", buffer'.id, record) /\ GoesOn
               /\ \/ UNCHANGED <<children, wrote>>
                  \/ children' = Spoiled(record) /\ wrote' = TRUE
            \/ /\ records = {}
               /\ Give("RowError", buffer'.id, Null) /\ GoesOn
               /\ UNCHANGED <<children, wrote>>
  /\ at' = [at EXCEPT !.row = @ + 1]
  /\ UNCHANGED <<iterator, stores, ranges>>

(* Mutant of More: one store too many.                                     *)
MoreOverEnd == at.store <= Len(stores)

More == at.store < Len(stores)

(* rows.Next returns false: the next store, if there is one.                *)
EndOfRows ==
  /\ pc = "rows" /\ at.row = Len(Result(stores[at.store]))
  /\ IF More
     THEN /\ at' = [store |-> at.store + 1, row |-> 0]
          /\ pc' = "load" /\ UNCHANGED ending
     ELSE Leave("complete") /\ UNCHANGED at
  /\ UNCHANGED <<iterator, stores, children, buffer, given, wrote, ranges>>

Next == Begin \/ Load \/ NextRow \/ EndOfRows

Spec == Init /\ [][Next]_vars

(***************************************************************************)
(* Properties                                                              *)
(***************************************************************************)

TypeOK ==
  /\ pc \in {"outside", "load", "rows"} /\ ranges \in 0 .. MaxRanges
  /\ at.store \in 0 .. Len(stores) /\ at.row \in Nat
  /\ wrote \in BOOLEAN
  /\ \A k \in DOMAIN given :
       /\ given[k].kind \in {"record", "RowError"} /\ given[k].id \in Int
       /\ given[k].store \in 1 .. at.store
  /\ ending \in {"none", "complete", "stopped", "error", "unavailable"}

(* Every record says of its row what the store says: its own columns, the     *)
(* children that are its own in their order, nil for a link to nowhere, and    *)
(* never another row's value, another store's row of the same number, or what   *)
(* an earlier range's consumer left.  Where records share a child, what this     *)
(* range's consumer wrote there may show, and nowhere else.                    *)
RecordsTrue ==
  \A k \in DOMAIN given :
    given[k].kind = "record" =>
      LET db == stores[given[k].store]
          row == RowOf(db.rows, given[k].id)
      IN  given[k].record \in Truth(iterator, db, row, wrote)

(* A row is withheld just when one of its columns cannot be scanned, or it    *)
(* or a child of it is defective in a way that its domain holds against it.   *)
OnlyDefectsWithheld ==
  \A k \in DOMAIN given :
    LET db == stores[given[k].store]
        row == RowOf(db.rows, given[k].id)
        columns == ColumnsOf(iterator, db)
        unscannable == \E c \in DOMAIN columns : columns[c] = row.bad
    IN  given[k].kind = "RowError" <=> unscannable \/ Defective(iterator, db, row)

Numbers(k) == LET rows == Result(stores[k]) IN [j \in 1 .. Len(rows) |-> <<k, rows[j].id>>]
All(n) == FlattenSeq([k \in 1 .. n |-> Numbers(k)])
Seen == [k \in 1 .. Len(given) |-> <<given[k].store, given[k].id>>]

(* Records and RowErrors come under their own rows' numbers, in the anchor's   *)
(* order and store after store, none twice and none left out up to where the   *)
(* range is; a complete range has them all, and one that ended with an error    *)
(* has all of the stores before the one that could not be loaded.             *)
RowsInOrder ==
  /\ IsPrefix(Seen, All(Len(stores)))
  /\ ending = "complete" => Seen = All(Len(stores))
  /\ ending = "error" => Seen = All(at.store - 1) /\ Unreadable(stores[at.store])
  /\ ending = "unavailable" => Refused
=============================================================================
