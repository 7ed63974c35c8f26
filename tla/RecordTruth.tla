---------------------------- MODULE RecordTruth ----------------------------
(***************************************************************************)
(* What a record may say of its row, by the store's tables alone: per        *)
(* iterator, whether the row is defective, and each field's possible values. *)
(* A field shared among records may show what the consumer wrote there.     *)
(***************************************************************************)
EXTENDS Children

(* The schema has the unit and the store its entity.                        *)
Known(db, unit) == unit \notin db.absent /\ unit \notin db.noEntity

(* A column of the row itself asks for no entity.                          *)
Shown(db, unit) == unit \notin db.absent

(* The row that a link names, if it is there.                              *)
Referred(db, unit, rows, link) ==
  IF Known(db, unit) /\ link \in Ids(rows) THEN {link} ELSE {Null}

Optional(db, row) == IF Shown(db, "optional") THEN {row.optional} ELSE {Null}

(* The list of just these rows, in the order of their ids.                 *)
Listing(ids) ==
  {s \in [1 .. Cardinality(ids) -> ids] :
     \A j, k \in DOMAIN s : j < k => s[j] < s[k]}

Owned(db, unit, rows, owner) ==
  IF Known(db, unit) THEN Listing(Ids({r \in rows : r.owner = owner})) ELSE {<<>>}

Written(wrote) == IF wrote THEN {Spoilt} ELSE {}

(* ---------------- calendar: a dangling link is nil --------------------- *)

AttendeeTruth(db, p) ==
  [id |-> p, name |-> CHOOSE n \in Referred(db, "attendees", db.Identity,
                                             RowOf(db.Participant, p).identity) : TRUE]

EventTruth(db, row, wrote) ==
  [id : {row.id}, plain : {row.plain}, optional : Optional(db, row),
   calendar : UNION {IF c = Null THEN {Null}
                     ELSE [id : {c}, store : Written(wrote) \cup
                             Referred(db, "calendar", db.Store, RowOf(db.Calendar, c).store)] :
                     c \in Referred(db, "calendar", db.Calendar, row.calendar)},
   location : Referred(db, "location", db.Location, row.location),
   organizer : {IF p = Null THEN Null ELSE AttendeeTruth(db, p) :
                  p \in Referred(db, "attendees", db.Participant, row.organizer)},
   attendees : {[k \in DOMAIN s |-> AttendeeTruth(db, s[k])] :
                  s \in Owned(db, "attendees", {p \in db.Participant : p.invitee}, row.id)},
   recurrences : Owned(db, "recurrence", db.Recurrence, row.id),
   alarms : Owned(db, "alarms", db.Alarm, row.id),
   attachments : Owned(db, "attachments", db.Attachment, row.id)]

CalendarTruth(db, row) ==
  [id : {row.id}, plain : {row.plain}, store : Referred(db, "calendar", db.Store, row.store)]

(* -------------------- notes: the same ---------------------------------- *)

NoteTruth(db, row, wrote) ==
  LET account == Referred(db, "account", db.ICAccount, row.account)
      mine == {a \in db.ICAttachment : a.owner = row.id}
      files(a) == {IF account # {Null} /\ m.named THEN <<CHOOSE x \in account : TRUE, m.id>> ELSE Null :
                     m \in {m \in db.ICMedia : m.attachment = a.id}}
      shown == UNION {[id : {a.id}, file : IF files(a) = {} THEN {Null} ELSE files(a)] : a \in mine}
  IN  [id : {row.id}, plain : {row.plain}, optional : Optional(db, row),
       account : account,
       folder : UNION {IF f = Null THEN {Null}
                       ELSE [id : {f}, account : Written(wrote) \cup
                               Referred(db, "account", db.ICAccount, RowOf(db.ICFolder, f).account)] :
                       f \in Referred(db, "folders", db.ICFolder, row.folder)},
       attachments : IF ~Known(db, "attachments") THEN {<<>>}
                     ELSE {s \in [1 .. Cardinality(shown) -> shown] :
                             /\ {s[k] : k \in DOMAIN s} = shown
                             /\ \A j, k \in DOMAIN s : j < k => s[j].id <= s[k].id}]

FolderTruth(db, row) ==
  [id : {row.id}, plain : {row.plain},
   account : Referred(db, "account", db.ICAccount, row.account)]

(* ---------- reminders: the same, each store with its own rows ---------- *)

Named(s, ids) == {IF i = Null THEN Null ELSE <<s.name, i>> : i \in ids}

(* One of the rows a reminder owns, nil if it owns none.                    *)
AnyOf(s, unit, ids) == IF Known(s, unit) /\ ids # {} THEN Named(s, ids) ELSE {Null}

ReminderTruth(s, row, wrote) ==
  [store : {s.name}, id : {row.id}, plain : {row.plain}, optional : Optional(s, row),
   account : Named(s, Referred(s, "account", s.account, row.account)),
   list : UNION {IF l = Null THEN {Null}
                 ELSE [store : {s.name}, id : {l}, account : Written(wrote) \cup
                         Named(s, Referred(s, "account", s.account, RowOf(s.list, l).account))] :
                 l \in IF Shown(s, "list_link") THEN Referred(s, "lists", s.list, row.list)
                       ELSE {Null}},
   recurrence : AnyOf(s, "recurrence", Ids({r \in s.rule : r.owner = row.id})),
   assignee : AnyOf(s, "assignment",
                    {h.id : h \in {h \in s.sharee : h.named /\ \E a \in s.assignment :
                                     a.owner = row.id /\ a.assignee = h.id}})]

ListTruth(s, row) ==
  [store : {s.name}, id : {row.id}, plain : {row.plain},
   account : Named(s, Referred(s, "account", s.account, row.account))]

(* ------ messages, calls, contacts: a dangling link is a defect --------- *)

Sent(row) == row.handle \notin {Null, 0}

JoinsOf(db, row) == {j \in db.HandleJoin : j.owner = row.id}
BadJoins(db, unit, row) ==
  Known(db, unit) /\ \E j \in JoinsOf(db, row) : j.bad # Null \/ j.handle \notin Ids(db.Handle)
Participants(db, unit, row) ==
  IF Known(db, unit) THEN Listing({j.handle : j \in JoinsOf(db, row)}) ELSE {<<>>}

Memberships(db, row) == {j \in db.ChatMessageJoin : j.message = row.id}
Attached(db, row) ==
  IF Known(db, "attachments") /\ row.attachments \notin {Null, 0}
  THEN {j.attachment : j \in {j \in db.AttachmentJoin : j.message = row.id}} ELSE {}

MessageDefect(db, row) ==
  \/ Known(db, "handles") /\ Sent(row) /\ row.handle \notin Ids(db.Handle)
  \/ Known(db, "chats") /\ \E j \in Memberships(db, row) : j.bad # Null
  \/ ~Attached(db, row) \subseteq Ids({a \in db.Attachment : a.bad = Null})

MessageTruth(db, row) ==
  [id : {row.id}, plain : {row.plain}, optional : Optional(db, row), date : {row.date},
   handle : Referred(db, "handles", db.Handle, row.handle),
   chats : IF Known(db, "chats") THEN Listing({j.chat : j \in Memberships(db, row)} \ {Null})
           ELSE {<<>>},
   attachments : Listing(Attached(db, row))]

ValuesOf(db, row) == {v \in db.MultiValue : v.owner = row.id}
EntriesOf(db, v) == {e \in db.Entry : e.parent = v.id}

PersonDefect(db, row) ==
  \E v \in ValuesOf(db, row) :
    \/ v.bad # Null \/ v.label \notin {Null} \cup Ids(db.Label)
    \/ /\ Known(db, "addresses") /\ v.property = "address"
       /\ \E e \in EntriesOf(db, v) : e.bad # Null \/ e.key \notin Ids(db.EntryKey)

PersonTruth(db, row) ==
  LET values == {v \in ValuesOf(db, row) : v.property = "value"}
      addresses == {v \in ValuesOf(db, row) : Known(db, "addresses") /\ v.property = "address"}
  IN  [id : {row.id}, plain : {row.plain}, optional : Optional(db, row),
       store : Referred(db, "account", db.Store, row.store),
       values : {[k \in DOMAIN s |-> [id |-> s[k], label |-> RowOf(values, s[k]).label]] :
                   s \in Listing(Ids(values))},
       addresses : {[k \in DOMAIN s |->
                       [id |-> s[k], label |-> RowOf(addresses, s[k]).label,
                        components |-> {e.key : e \in EntriesOf(db, RowOf(addresses, s[k]))}]] :
                      s \in Listing(Ids(addresses))}]

Members(db, row) == {m \in db.GroupMember : m.owner = row.id}

(* People before groups, each in the order of their ids.                    *)
MembersShown(db, row) ==
  LET shown == {[type |-> m.type, id |-> m.member] : m \in Members(db, row)} IN
  {s \in [1 .. Cardinality(shown) -> shown] :
     \A j, k \in DOMAIN s :
       j < k => s[j].type < s[k].type \/ (s[j].type = s[k].type /\ s[j].id < s[k].id)}

(* A row that no record may stand for, beyond one that cannot be scanned.    *)
Defective(iterator, db, row) ==
  CASE iterator \in {"Messages", "ChatMessages"} -> MessageDefect(db, row)
    [] iterator = "Chats" -> BadJoins(db, "handles", row)
    [] iterator = "Calls" -> BadJoins(db, "participants", row)
    [] iterator = "People" -> PersonDefect(db, row)
    [] iterator = "Groups" -> \E m \in Members(db, row) : m.bad # Null
    [] OTHER -> FALSE

Truth(iterator, db, row, wrote) ==
  CASE iterator = "Events" -> EventTruth(db, row, wrote)
    [] iterator = "Calendars" -> CalendarTruth(db, row)
    [] iterator = "Notes" -> NoteTruth(db, row, wrote)
    [] iterator = "Folders" -> FolderTruth(db, row)
    [] iterator = "Reminders" -> ReminderTruth(db, row, wrote)
    [] iterator = "Lists" -> ListTruth(db, row)
    [] iterator \in {"Messages", "ChatMessages"} -> MessageTruth(db, row)
    [] iterator = "Chats" -> [id : {row.id}, plain : {row.plain},
                              participants : Participants(db, "handles", row)]
    [] iterator = "Calls" -> [id : {row.id}, plain : {row.plain}, optional : Optional(db, row),
                              participants : Participants(db, "participants", row)]
    [] iterator = "People" -> PersonTruth(db, row)
    [] OTHER -> [id : {row.id}, plain : {row.plain},
                 members : MembersShown(db, row)]
=============================================================================
