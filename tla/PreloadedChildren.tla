------------------------- MODULE PreloadedChildren -------------------------
(***************************************************************************)
(* calendar, notes and reminders: every child comes from a table loaded      *)
(* before the first row.  Per iterator: the tables it preloads, <<unit,       *)
(* table>>; the maps it makes of them; its columns; the record of a scanned   *)
(* row; and the maps after a consumer wrote over all a record leads it to.    *)
(***************************************************************************)
EXTENDS Children

(* ------------------------------ calendar ------------------------------- *)

loadStores(db) == ById(db.Store)

loadCalendars(db) ==
  [c \in Ids(db.Calendar) |->
     [id |-> c, store |-> At(loadStores(db), RowOf(db.Calendar, c).store)]]

(* Mutant of loadAttendees: the organizer is an attendee as well.          *)
loadAttendeesAll(db) ==
  LET person == [p \in Ids(db.Participant) |->
                   [id |-> p, name |-> At(ById(db.Identity), RowOf(db.Participant, p).identity)]]
      owned == ByOwner({p \in db.Participant : p.owner # Null})
  IN  [byID |-> person,
       byOwner |-> [o \in DOMAIN owned |-> [k \in 1 .. Len(owned[o]) |-> person[owned[o][k]]]]]

(* Participants by ROWID, for organizer_id, and the invitees of each event;   *)
(* one whose owner is NULL is no event's.                                   *)
loadAttendees(db) ==
  LET person == [p \in Ids(db.Participant) |->
                   [id |-> p, name |-> At(ById(db.Identity), RowOf(db.Participant, p).identity)]]
      owned == ByOwner({p \in db.Participant : p.invitee /\ p.owner # Null})
  IN  [byID |-> person,
       byOwner |-> [o \in DOMAIN owned |-> [k \in 1 .. Len(owned[o]) |-> person[owned[o][k]]]]]

EventTables ==
  { <<"calendar", "Store">>, <<"calendar", "Calendar">>, <<"location", "Location">>,
    <<"attendees", "Identity">>, <<"attendees", "Participant">>,
    <<"recurrence", "Recurrence">>, <<"alarms", "Alarm">>, <<"attachments", "Attachment">> }

EventChildren(db) ==
  [calendars   |-> Unless(db, "calendar", loadCalendars(db)),
   locations   |-> Unless(db, "location", ById(db.Location)),
   organizers  |-> Unless(db, "attendees", loadAttendees(db).byID),
   attendees   |-> Unless(db, "attendees", loadAttendees(db).byOwner),
   recurrences |-> Unless(db, "recurrence", ByOwner(db.Recurrence)),
   alarms      |-> Unless(db, "alarms", ByOwner(db.Alarm)),
   attachments |-> Unless(db, "attachments", ByOwner(db.Attachment))]

EventColumns(db) ==
  <<"id", "plain", "calendar">> \o Col(db, "optional", "optional")
    \o Col(db, "location", "location") \o Col(db, "attendees", "organizer")

Event(c, row) ==
  [id |-> row.id, plain |-> row.plain, optional |-> row.optional,
   calendar |-> At(c.calendars, row.calendar),
   location |-> At(c.locations, row.location),
   organizer |-> IF row.organizer = 0 THEN Null ELSE At(c.organizers, row.organizer),
   attendees |-> ListAt(c.attendees, row.id),
   recurrences |-> ListAt(c.recurrences, row.id),
   alarms |-> ListAt(c.alarms, row.id),
   attachments |-> ListAt(c.attachments, row.id)]

(* Records share what their pointers lead to.  Over[i].f of a map.          *)
Over(map, child, field) ==
  IF child = Null \/ child[field] = Null THEN map
  ELSE [map EXCEPT ![child.id] = [@ EXCEPT ![field] = Spoilt]]

OverList(map, id) ==
  IF id \in DOMAIN map THEN [map EXCEPT ![id] = [k \in DOMAIN @ |-> Spoilt]] ELSE map

(* Mutant of SpoilEvent: attach hands out the map's own entries.           *)
SpoilEventEntry(c, e) ==
  IF e.calendar = Null THEN c ELSE [c EXCEPT !.calendars[e.calendar.id] = Spoilt]

(* An event has copies of its calendar, location and organizer; its calendar's *)
(* Store is behind a pointer of the map's entry, and its lists are the map's. *)
SpoilEvent(c, e) ==
  [c EXCEPT !.calendars = Over(@, e.calendar, "store"),
            !.attendees = OverList(@, e.id), !.recurrences = OverList(@, e.id),
            !.alarms = OverList(@, e.id), !.attachments = OverList(@, e.id)]

CalendarTables == {<<"calendar", "Store">>}
CalendarChildren(db) == [stores |-> loadStores(db)]
CalendarColumns == <<"id", "store", "plain">>

Calendar(c, row) == [id |-> row.id, plain |-> row.plain, store |-> At(c.stores, row.store)]

(* -------------------------------- notes -------------------------------- *)

loadNoteAccounts(db) == ById(db.ICAccount)

(* folderAccountExpr: the account's column, or NULL when its unit is absent.  *)
loadFolders(db, accounts) ==
  [f \in Ids(db.ICFolder) |->
     [id |-> f,
      account |-> At(accounts, IF "account" \in db.absent THEN Null
                               ELSE RowOf(db.ICFolder, f).account)]]

(* ICAttachment LEFT JOIN ICMedia, of attachments that belong to a note: a    *)
(* row for each medium, or one without.  A medium with a part of its path     *)
(* missing counts as none.                                                 *)
loadNoteAttachments(db) ==
  LET joined == {[id |-> m.attachment, media |-> m.id, named |-> m.named] : m \in db.ICMedia}
      alone == {[id |-> a, media |-> Null, named |-> FALSE] :
                  a \in Ids(db.ICAttachment) \ {m.attachment : m \in db.ICMedia}}
      of(n) == {j \in joined \cup alone : j.id \in Ids({a \in db.ICAttachment : a.owner = n})}
  IN  [n \in {a.owner : a \in db.ICAttachment} \ {Null} |-> SortedRows(of(n))]

NoteTables ==
  {<<"account", "ICAccount">>, <<"folders", "ICFolder">>, <<"attachments", "ICAttachment">>}

NoteChildren(db) ==
  LET accounts == Unless(db, "account", loadNoteAccounts(db)) IN
  [accounts    |-> accounts,
   folders     |-> Unless(db, "folders", loadFolders(db, accounts)),
   attachments |-> Unless(db, "attachments", loadNoteAttachments(db))]

NoteColumns(db) ==
  <<"id", "plain">> \o Col(db, "optional", "optional")
    \o Col(db, "folders", "folder") \o Col(db, "account", "account")

(* attachment: a FileRef only when the account is known as well.            *)
NoteAttachment(pair, account) ==
  [id |-> pair.id,
   file |-> IF account = Null \/ ~pair.named THEN Null ELSE <<account, pair.media>>]

Note(c, row) ==
  LET account == At(c.accounts, row.account)
      found == ListAt(c.attachments, row.id)
  IN  [id |-> row.id, plain |-> row.plain, optional |-> row.optional,
       account |-> account,
       folder |-> At(c.folders, row.folder),
       attachments |-> [k \in 1 .. Len(found) |-> NoteAttachment(found[k], account)]]

(* A note has a copy of its folder; the folder's Account is behind a pointer. *)
SpoilNote(c, n) == [c EXCEPT !.folders = Over(@, n.folder, "account")]

FolderTables == {<<"account", "ICAccount">>}
FolderChildren(db) == [accounts |-> Unless(db, "account", loadNoteAccounts(db))]
FolderColumns(db) == <<"id", "plain">> \o Col(db, "account", "account")

Folder(c, row) ==
  [id |-> row.id, plain |-> row.plain, account |-> At(c.accounts, row.account)]

(* ------------------------------ reminders ------------------------------ *)

(* What is read of a store bears its name.                                 *)
loadAccounts(s) == [a \in Ids(s.account) |-> <<s.name, a>>]

scanList(s, row, accounts) ==
  [store |-> s.name, id |-> row.id, account |-> At(accounts, row.account)]

loadLists(s, accounts) == [l \in Ids(s.list) |-> scanList(s, RowOf(s.list, l), accounts)]

(* Of several rows of one reminder the last one read stays, in an order the  *)
(* query leaves to SQLite.                                                 *)
OneEach(s, rows) ==
  {f \in [{r.owner : r \in rows} \ {Null} -> {<<s.name, i>> : i \in Ids(rows)}] :
     \A o \in DOMAIN f : \E r \in rows : r.owner = o /\ f[o] = <<s.name, r.id>>}

loadRecurrences(s) == OneEach(s, s.rule)

(* The sharee an assignment targets, if there is one and it has a name.  (A   *)
(* NULL assignee is looked up as 0, which is no sharee's Z_PK.)              *)
loadAssignees(s) ==
  OneEach(s, {[id |-> a.assignee, owner |-> a.owner] :
                a \in {a \in s.assignment :
                         a.assignee \in Ids({h \in s.sharee : h.named})}})

ReminderTables ==
  { <<"account", "account">>, <<"lists", "list">>, <<"recurrence", "rule">>,
    <<"assignment", "sharee">>, <<"assignment", "assignment">> }

ReminderChildren(s) ==
  LET accounts == Unless(s, "account", loadAccounts(s)) IN
  [accounts    : {accounts},
   lists       : {Unless(s, "lists", loadLists(s, accounts))},
   recurrences : IF Loaded(s, "recurrence") THEN loadRecurrences(s) ELSE {NilMap},
   assignees   : IF Loaded(s, "assignment") THEN loadAssignees(s) ELSE {NilMap}]

ReminderColumns(s) ==
  <<"id", "plain">> \o Col(s, "optional", "optional")
    \o Col(s, "list_link", "list") \o Col(s, "account", "account")

Reminder(s, c, row) ==
  [store |-> s.name, id |-> row.id, plain |-> row.plain, optional |-> row.optional,
   account |-> At(c.accounts, row.account),
   list |-> At(c.lists, row.list),
   recurrence |-> At(c.recurrences, row.id),
   assignee |-> At(c.assignees, row.id)]

(* A reminder has a copy of its list, the list's Account behind a pointer,   *)
(* and the map's own recurrence rule.                                      *)
SpoilReminder(c, r) ==
  [c EXCEPT !.lists = Over(@, r.list, "account"),
            !.recurrences = IF r.recurrence = Null THEN @ ELSE [@ EXCEPT ![r.id] = Spoilt]]

ListTables == {<<"account", "account">>}
ListChildren(s) == [accounts |-> Unless(s, "account", loadAccounts(s))]
ListColumns == <<"id", "plain", "account">>

List(s, c, row) ==
  [store |-> s.name, id |-> row.id, plain |-> row.plain, account |-> At(c.accounts, row.account)]
=============================================================================
