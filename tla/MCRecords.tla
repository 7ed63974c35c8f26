----------------------------- MODULE MCRecords -----------------------------
(***************************************************************************)
(* Small stores for Records: per iterator a base store whose links all       *)
(* resolve, and families of stores that each vary one kind of link, the      *)
(* units that are absent with it and the values that cannot be scanned.      *)
(***************************************************************************)
EXTENDS Records

Of(iter, dbs) == {[iterator |-> iter, stores |-> <<db>>] : db \in dbs}

Plain(i) == [id |-> i, bad |-> Null]
PlainRows == {{Plain(1)}, {Plain(1), Plain(2)}, {[Plain(1) EXCEPT !.bad = "name"]}, {}}
Bads(columns) == {Null} \cup columns

(* Rows of a table the rows own or are owned by.                            *)
Owners == {Null, 1, 2, 9}
OwnedPairs == {{[id |-> 1, owner |-> o, bad |-> Null], [id |-> 2, owner |-> p, bad |-> Null]} :
                 o \in Owners, p \in Owners}

(* ------------------------------- calendar ------------------------------ *)

EventRow(i) ==
  [id |-> i, plain |-> 10 + i, optional |-> IF i = 1 THEN 21 ELSE Null, calendar |-> 1,
   location |-> 1, organizer |-> 0, scale |-> Null, bad |-> Null]
CalendarRow(i, s) == [id |-> i, plain |-> 30 + i, store |-> s, bad |-> Null]
Participant(i, o, n, v) == [id |-> i, owner |-> o, identity |-> n, invitee |-> v, bad |-> Null]

CalendarBase ==
  [Store |-> {Plain(1)}, Calendar |-> {CalendarRow(1, 1)}, Location |-> {Plain(1)},
   Identity |-> {Plain(1)}, Participant |-> {}, Recurrence |-> {}, Alarm |-> {}, Attachment |-> {},
   absent |-> {}, noEntity |-> {}, rows |-> {EventRow(1), EventRow(2)}]

CalendarSets ==
  {{CalendarRow(1, s)} : s \in {Null, 1, 9}}
    \cup {{CalendarRow(1, s), CalendarRow(2, 1)} : s \in {1, 2}}
    \cup {{[CalendarRow(1, 1) EXCEPT !.bad = "title"]}}

EventStores ==
  {[CalendarBase EXCEPT !.Calendar = C, !.absent = u,
      !.rows = {[EventRow(1) EXCEPT !.calendar = a], [EventRow(2) EXCEPT !.calendar = b]}] :
     C \in CalendarSets, u \in {{}, {"calendar"}}, a \in {Null, 1, 2}, b \in {1, 2, 9}}
  \cup
  {[CalendarBase EXCEPT !.Participant = {Participant(1, o, n, v), Participant(2, p, 1, w)},
      !.absent = u, !.rows = {[EventRow(1) EXCEPT !.organizer = g], EventRow(2)}] :
     o \in {1, 2}, n \in {Null, 1, 9}, v \in BOOLEAN, p \in {1, 2, 9}, w \in BOOLEAN,
     u \in {{}, {"attendees"}}, g \in {Null, 0, 1, 2, 9}}
  \cup
  {[CalendarBase EXCEPT !.Recurrence = rs, !.absent = u] :
     rs \in OwnedPairs, u \in {{}, {"recurrence"}}}
  \cup
  {[CalendarBase EXCEPT !.Alarm = rs, !.absent = u] : rs \in OwnedPairs, u \in {{}, {"alarms"}}}
  \cup
  {[CalendarBase EXCEPT !.Attachment = rs, !.absent = u] :
     rs \in OwnedPairs, u \in {{}, {"attachments"}}}
  \cup
  {[CalendarBase EXCEPT !.Location = ls, !.absent = u] : ls \in PlainRows, u \in {{}, {"location"}}}
  \cup
  {[CalendarBase EXCEPT !.Store = ss, !.absent = u] : ss \in PlainRows, u \in {{}, {"calendar"}}}
  \cup
  {[CalendarBase EXCEPT !.absent = u,
      !.rows = {[EventRow(1) EXCEPT !.bad = a], [EventRow(2) EXCEPT !.bad = b],
                [EventRow(3) EXCEPT !.scale = sc]}] :
     a \in Bads({"plain", "calendar", "optional"}), b \in Bads({"plain", "location", "organizer"}),
     u \in SUBSET {"optional", "attendees"}, sc \in {Null, "birthday"}}

CalendarStores ==
  {[CalendarBase EXCEPT !.Store = ss, !.absent = u,
      !.rows = {CalendarRow(1, s), [CalendarRow(2, t) EXCEPT !.bad = b]}] :
     ss \in PlainRows, u \in {{}, {"calendar"}}, s \in {Null, 1, 9}, t \in {1, 2},
     b \in Bads({"plain", "store"})}

(* -------------------------------- notes -------------------------------- *)

NoteRow(i) ==
  [id |-> i, plain |-> 10 + i, optional |-> IF i = 1 THEN 21 ELSE Null, folder |-> 1,
   account |-> 1, bad |-> Null]
FolderRow(i, a) == [id |-> i, plain |-> 30 + i, account |-> a, bad |-> Null]
(* One medium of an attachment at most, as Core Data keeps it.              *)
Medium(i, a, n) == [id |-> i, attachment |-> a, named |-> n]

NotesBase ==
  [ICAccount |-> {Plain(1)}, ICFolder |-> {FolderRow(1, 1)}, ICAttachment |-> {}, ICMedia |-> {},
   absent |-> {}, noEntity |-> {}, rows |-> {NoteRow(1), NoteRow(2)}]

FolderSets ==
  {{FolderRow(1, a)} : a \in {Null, 1, 9}}
    \cup {{FolderRow(1, a), FolderRow(2, 1)} : a \in {1, 2}}
    \cup {{[FolderRow(1, 1) EXCEPT !.bad = "title"]}}

NoteStores ==
  {[NotesBase EXCEPT !.ICFolder = F, !.absent = u, !.noEntity = e,
      !.rows = {[NoteRow(1) EXCEPT !.folder = f], [NoteRow(2) EXCEPT !.folder = g]}] :
     F \in FolderSets, u \in SUBSET {"folders", "account"}, e \in {{}, {"folders"}, {"account"}},
     f \in {Null, 1, 2}, g \in {1, 2, 9}}
  \cup
  {[NotesBase EXCEPT !.ICAttachment = as, !.ICMedia = {Medium(1, m, n), Medium(2, l, TRUE)},
      !.absent = u, !.noEntity = e, !.rows = {[NoteRow(1) EXCEPT !.account = a], NoteRow(2)}] :
     as \in OwnedPairs, m \in {1, 9}, n \in BOOLEAN, l \in {2, 9}, a \in {Null, 1, 9},
     u \in {{}, {"attachments"}}, e \in {{}, {"attachments"}}}
  \cup
  {[NotesBase EXCEPT !.ICAccount = as, !.absent = u, !.noEntity = e,
      !.rows = {[NoteRow(1) EXCEPT !.bad = a], [NoteRow(2) EXCEPT !.bad = b]}] :
     as \in PlainRows, u \in SUBSET {"optional", "folders"}, e \in SUBSET {"folders", "account"},
     a \in Bads({"plain", "optional"}), b \in Bads({"folder", "account"})}

FolderStores ==
  {[NotesBase EXCEPT !.ICAccount = as, !.absent = u, !.noEntity = e,
      !.rows = {FolderRow(1, s), [FolderRow(2, t) EXCEPT !.bad = b]}] :
     as \in PlainRows, u \in SUBSET {"account", "folders"}, e \in {{}, {"folders"}, {"account"}}, s \in {Null, 1, 9}, t \in {1, 2},
     b \in Bads({"plain", "account"})}

(* ------------------------------ reminders ------------------------------ *)

ReminderRow(i) ==
  [id |-> i, plain |-> 10 + i, optional |-> IF i = 1 THEN 21 ELSE Null, list |-> 1,
   account |-> 1, bad |-> Null]
ListRow(i, a) == [id |-> i, plain |-> 30 + i, account |-> a, bad |-> Null]
Assignment(i, o, h) == [id |-> i, owner |-> o, assignee |-> h, bad |-> Null]
Sharee(i, n) == [id |-> i, named |-> n, bad |-> Null]

RemindersBase(n) ==
  [name |-> n, account |-> {Plain(1)}, list |-> {ListRow(1, 1)}, rule |-> {}, sharee |-> {},
   assignment |-> {}, absent |-> {}, noEntity |-> {}, rows |-> {ReminderRow(1), ReminderRow(2)}]

ReminderStores(n) ==
  {[RemindersBase(n) EXCEPT !.list = L, !.absent = u,
      !.rows = {[ReminderRow(1) EXCEPT !.list = a], [ReminderRow(2) EXCEPT !.list = 1]}] :
     L \in {{ListRow(1, a)} : a \in {Null, 1, 9}} \cup {{[ListRow(1, 1) EXCEPT !.bad = "name"]}, {}},
     u \in {{}, {"lists"}, {"list_link"}, {"account"}}, a \in {Null, 1, 9}}
  \cup
  {[RemindersBase(n) EXCEPT !.rule = rs, !.absent = u, !.noEntity = e] :
     rs \in OwnedPairs, u \in {{}, {"recurrence"}}, e \in {{}, {"recurrence"}}}
  \cup
  {[RemindersBase(n) EXCEPT !.sharee = {Sharee(1, named), Sharee(2, TRUE)},
      !.assignment = {Assignment(1, o, g), Assignment(2, p, h)}, !.absent = u, !.noEntity = e] :
     named \in BOOLEAN, o \in {Null, 1}, p \in {1, 2}, g \in {Null, 1}, h \in {1, 2, 9},
     u \in {{}, {"assignment"}}, e \in {{}, {"assignment"}}}
  \cup
  {[RemindersBase(n) EXCEPT !.account = as, !.absent = u, !.noEntity = e,
      !.rows = {[ReminderRow(1) EXCEPT !.bad = a], [ReminderRow(2) EXCEPT !.bad = b]}] :
     as \in PlainRows, u \in SUBSET {"optional", "account"}, e \in {{}, {"account"}},
     a \in Bads({"plain", "optional"}), b \in Bads({"list", "account"})}

ListStores(n) ==
  {[RemindersBase(n) EXCEPT !.account = as, !.absent = u, !.noEntity = e,
      !.rows = {ListRow(1, s), [ListRow(2, 1) EXCEPT !.bad = b]}] :
     as \in PlainRows, u \in SUBSET {"account", "lists"}, e \in {{}, {"account"}}, s \in {Null, 1, 9},
     b \in Bads({"plain", "account"})}

(* A second store with rows of the same numbers and little else.  Its        *)
(* entities are its own, the units are the first one's.                     *)
SecondStores ==
  {RemindersBase(2), [RemindersBase(2) EXCEPT !.account = {}, !.list = {}],
   [RemindersBase(2) EXCEPT !.noEntity = {"account"}],
   [RemindersBase(2) EXCEPT !.rows = {ReminderRow(2)}, !.account = {[Plain(1) EXCEPT !.bad = "name"]}]}

InTwo(iter, dbs, seconds) ==
  Of(iter, dbs) \cup
  {[iterator |-> iter, stores |-> <<db, [second EXCEPT !.absent = db.absent]>>] :
     db \in dbs, second \in seconds}

(* ------------------------- messages and calls -------------------------- *)

MessageRow(i) ==
  [id |-> i, plain |-> 10 + i, date |-> i, handle |-> 1, optional |-> IF i = 1 THEN 21 ELSE Null,
   attachments |-> 1, bad |-> Null]
Join(m, c, b) == [message |-> m, chat |-> c, bad |-> b]
HandleJoin(o, h, b) == [owner |-> o, handle |-> h, bad |-> b]
Attached1(m, a) == [message |-> m, attachment |-> a]

MessagesBase ==
  [Handle |-> {Plain(1)}, ChatMessageJoin |-> {Join(1, 1, Null), Join(2, 1, Null)},
   HandleJoin |-> {}, Attachment |-> {}, AttachmentJoin |-> {},
   absent |-> {}, noEntity |-> {}, rows |-> {MessageRow(1), MessageRow(2)}]

MessageStores ==
  {[MessagesBase EXCEPT !.Handle = hs, !.absent = u,
      !.rows = {[MessageRow(1) EXCEPT !.handle = a], [MessageRow(2) EXCEPT !.handle = b]}] :
     hs \in PlainRows, u \in {{}, {"handles"}}, a \in {Null, 0, 1}, b \in {0, 2, 9}}
  \cup
  {[MessagesBase EXCEPT !.ChatMessageJoin = js, !.absent = u] :
     js \in {{Join(1, 1, Null), j, k} : j \in {Join(m, c, Null) : m \in {Null, 1, 2}, c \in {Null, 2}},
                                        k \in {Join(2, 1, Null), Join(2, Null, "chat"), Join(9, 1, Null)}},
     u \in {{}, {"chats"}}}
  \cup
  {[MessagesBase EXCEPT !.Attachment = as, !.AttachmentJoin = {Attached1(1, x), Attached1(m, y)},
      !.absent = u, !.rows = {[MessageRow(1) EXCEPT !.attachments = f], MessageRow(2)}] :
     as \in PlainRows, x \in {1, 2}, m \in {1, 2, 9}, y \in {1, 9}, f \in {Null, 0, 1},
     u \in {{}, {"attachments"}}}
  \cup
  {[MessagesBase EXCEPT !.absent = u,
      !.rows = {[MessageRow(1) EXCEPT !.bad = a, !.date = d], [MessageRow(2) EXCEPT !.date = e]}] :
     a \in Bads({"plain", "handle", "optional", "attachments"}), d \in {Null, 1, 3}, e \in {Null, 1, 3},
     u \in SUBSET {"optional", "attachments"}}

ChatRow(i) == [id |-> i, plain |-> 10 + i, optional |-> IF i = 1 THEN 21 ELSE Null, bad |-> Null]

HandleJoins ==
  {{HandleJoin(o, h, Null), HandleJoin(p, 1, b)} :
     o \in {1, 2}, h \in {Null, 1, 2, 9}, p \in {1, 2, 9}, b \in {Null, "handle"}}

ChatStores ==
  {[MessagesBase EXCEPT !.Handle = hs, !.HandleJoin = js, !.absent = u,
      !.rows = {[ChatRow(1) EXCEPT !.bad = b], ChatRow(2)}] :
     hs \in PlainRows, js \in HandleJoins,
     u \in {{}, {"handles"}, {"chats"}, {"participants"}}, b \in Bads({"plain"})}

CallStores ==
  {[MessagesBase EXCEPT !.Handle = hs, !.HandleJoin = js, !.absent = u,
      !.rows = {[ChatRow(1) EXCEPT !.bad = b], ChatRow(2)}] :
     hs \in PlainRows, js \in HandleJoins, u \in {{}, {"participants"}, {"optional"}},
     b \in Bads({"optional"})}

(* ------------------------------- contacts ------------------------------ *)

PersonRow(i) ==
  [id |-> i, plain |-> 10 + i, optional |-> IF i = 1 THEN 21 ELSE Null, store |-> 1, bad |-> Null]
Multi(i, o, p, l, b) == [id |-> i, owner |-> o, property |-> p, label |-> l, bad |-> b]
EntryRow(v, k, b) == [parent |-> v, key |-> k, bad |-> b]
Member(o, t, m, b) == [owner |-> o, type |-> t, member |-> m, bad |-> b]

ContactsBase ==
  [Label |-> {Plain(1)}, EntryKey |-> {Plain(1)}, Store |-> {Plain(1)}, MultiValue |-> {}, Entry |-> {},
   GroupMember |-> {}, absent |-> {}, noEntity |-> {}, rows |-> {PersonRow(1), PersonRow(2)}]

PersonStores ==
  {[ContactsBase EXCEPT !.Label = ls, !.absent = u,
      !.MultiValue = {Multi(1, 1, p, l, Null), Multi(2, o, q, k, b)}] :
     ls \in PlainRows, u \in {{}, {"addresses"}}, p \in {"value", "other"}, l \in {Null, 1, 2},
     o \in {1, 2}, q \in {"value", "address"}, k \in {Null, 1}, b \in Bads({"value"})}
  \cup
  {[ContactsBase EXCEPT !.EntryKey = ks, !.absent = u,
      !.MultiValue = {Multi(1, 1, "address", 1, Null), Multi(2, o, "address", Null, Null)},
      !.Entry = {EntryRow(1, k, Null), EntryRow(v, j, b)}] :
     ks \in PlainRows, u \in {{}, {"addresses"}}, o \in {1, 2}, k \in {1, 9}, v \in {1, 2},
     j \in {Null, 1, 2}, b \in Bads({"value"})}
  \cup
  {[ContactsBase EXCEPT !.Store = ss, !.absent = u,
      !.rows = {[PersonRow(1) EXCEPT !.store = s, !.bad = a], [PersonRow(2) EXCEPT !.bad = b]}] :
     ss \in PlainRows, u \in SUBSET {"account", "optional"}, s \in {Null, 1, 9},
     a \in Bads({"plain", "optional"}), b \in Bads({"store"})}

GroupStores ==
  {[ContactsBase EXCEPT !.GroupMember = {Member(1, 1, m, Null), Member(o, t, 2, b)}, !.absent = u,
      !.rows = {[PersonRow(1) EXCEPT !.bad = a], PersonRow(2)}] :
     m \in {1, 2, 9}, o \in {1, 2, 9}, t \in {0, 1}, b \in Bads({"member"}), u \in {{}, {"groups"}},
     a \in Bads({"plain"})}

MCWorlds ==
  Of("Events", EventStores) \cup Of("Calendars", CalendarStores)
    \cup Of("Notes", NoteStores) \cup Of("Folders", FolderStores)
    \cup InTwo("Reminders", ReminderStores(1), SecondStores)
    \cup InTwo("Lists", ListStores(1),
               {[RemindersBase(2) EXCEPT !.rows = {ListRow(1, 1)}, !.account = as] : as \in PlainRows})
    \cup Of("Messages", MessageStores) \cup Of("ChatMessages", MessageStores)
    \cup Of("Chats", ChatStores) \cup Of("Calls", CallStores)
    \cup Of("People", PersonStores) \cup Of("Groups", GroupStores)
=============================================================================
