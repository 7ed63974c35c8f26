-------------------------- MODULE QueriedChildren --------------------------
(***************************************************************************)
(* messages, calls and contacts: small reference tables are loaded before    *)
(* the first row, and each row's children come from queries of its own.  A    *)
(* child that refers to a row that is not there withholds the whole record.  *)
(* Nothing a record leads to is shared with another: they get copies.       *)
(***************************************************************************)
EXTENDS Children

(* ------------------------------- messages ------------------------------ *)

loadHandles(db) == ById(db.Handle)

(* chat_message_join read once; a row with a NULL on either side is skipped.  *)
loadChatIDs(db) ==
  LET joins == {j \in db.ChatMessageJoin : Null \notin {j.message, j.chat}} IN
  [m \in {j.message : j \in joins} |-> Sorted({j.chat : j \in {k \in joins : k.message = m}})]

(* The same for one message; a chat that cannot be scanned withholds it.     *)
fillChatIDs(db, message) ==
  LET joins == {j \in db.ChatMessageJoin : j.message = message} IN
  IF \E j \in joins : j.bad # Null THEN {} ELSE {Sorted({j.chat : j \in joins} \ {Null})}

(* Attachments by message_attachment_join, LEFT JOIN attachment.            *)
fillAttachments(db, message) ==
  LET joins == {j \in db.AttachmentJoin : j.message = message} IN
  IF \A j \in joins : \E a \in db.Attachment : a.id = j.attachment /\ a.bad = Null
  THEN {Sorted({j.attachment : j \in joins})} ELSE {}

MessageTables == {<<"handles", "Handle">>, <<"chats", "ChatMessageJoin">>}

MessageChildren(db) ==
  [handles |-> Unless(db, "handles", loadHandles(db)),
   chatIDs |-> Unless(db, "chats", loadChatIDs(db))]

MessageColumns(db) ==
  <<"id", "plain", "date", "handle">> \o Col(db, "optional", "optional")
    \o Col(db, "attachments", "attachments")

(* enrich: who sent it, the chats it belongs to, as Messages or ChatMessages  *)
(* found them, and its attachments.                                        *)
(* Mutant: handle_id 0, which no handle row has, dangles too.               *)
enrichZero(db, c, row, chats) ==
  LET dangling == Loaded(db, "handles") /\ row.handle # Null
                    /\ row.handle \notin DOMAIN c.handles
      attachments == IF ~Loaded(db, "attachments") \/ row.attachments \in {Null, 0} THEN {<<>>}
                     ELSE fillAttachments(db, row.id)
  IN  IF dangling THEN {}
      ELSE [id : {row.id}, plain : {row.plain}, optional : {row.optional}, date : {row.date},
            handle : {At(c.handles, row.handle)}, chats : chats, attachments : attachments]

enrich(db, c, row, chats) ==
  LET dangling == Loaded(db, "handles") /\ row.handle \notin {Null, 0}
                    /\ row.handle \notin DOMAIN c.handles
      attachments == IF ~Loaded(db, "attachments") \/ row.attachments \in {Null, 0} THEN {<<>>}
                     ELSE fillAttachments(db, row.id)
  IN  IF dangling THEN {}
      ELSE [id : {row.id}, plain : {row.plain}, optional : {row.optional}, date : {row.date},
            handle : {At(c.handles, row.handle)}, chats : chats, attachments : attachments]

Message(db, c, row) ==
  enrich(db, c, row, {IF ~Loaded(db, "chats") THEN <<>> ELSE ListAt(c.chatIDs, row.id)})

ChatMessageTables == {<<"handles", "Handle">>}
ChatMessageChildren(db) == [handles |-> Unless(db, "handles", loadHandles(db))]

ChatMessage(db, c, row) == enrich(db, c, row, fillChatIDs(db, row.id))

ChatTables == {<<"handles", "Handle">>}
ChatChildren(db) == [handles |-> Unless(db, "handles", loadHandles(db))]
ChatColumns == <<"id", "plain">>

(* A NULL handle is looked up as 0, which is no handle's ROWID.             *)
fillParticipants(handles, joins) ==
  IF \A j \in joins : j.bad = Null /\ j.handle \in DOMAIN handles
  THEN {Sorted({j.handle : j \in joins})} ELSE {}

Chat(db, c, row) ==
  LET participants ==
        IF ~Loaded(db, "handles") THEN {<<>>}
        ELSE fillParticipants(c.handles, {j \in db.HandleJoin : j.owner = row.id})
  IN  [id : {row.id}, plain : {row.plain}, participants : participants]

(* -------------------------------- calls -------------------------------- *)

loadCallHandles(db) == ById(db.Handle)

CallTables == {<<"participants", "Handle">>}
CallChildren(db) == [handles |-> Unless(db, "participants", loadCallHandles(db))]
CallColumns(db) == <<"id", "plain">> \o Col(db, "optional", "optional")

fillCallParticipants(handles, joins) ==
  IF \A j \in joins : j.bad = Null /\ j.handle \in DOMAIN handles
  THEN {Sorted({j.handle : j \in joins})} ELSE {}

Call(db, c, row) ==
  LET participants ==
        IF ~Loaded(db, "participants") THEN {<<>>}
        ELSE fillCallParticipants(c.handles, {j \in db.HandleJoin : j.owner = row.id})
  IN  [id : {row.id}, plain : {row.plain}, optional : {row.optional}, participants : participants]

(* ------------------------------- contacts ------------------------------ *)

(* Labels are a table every schema has; unit "always" is never absent.       *)
PersonTables == {<<"always", "Label">>, <<"addresses", "EntryKey">>, <<"account", "Store">>}

loadLookups(db) ==
  [labels    |-> ById(db.Label),
   entryKeys |-> Unless(db, "addresses", ById(db.EntryKey)),
   stores    |-> Unless(db, "account", ById(db.Store))]

PersonColumns(db) ==
  <<"id", "plain">> \o Col(db, "optional", "optional") \o Col(db, "account", "store")

addressComponents(db, uid, keys) ==
  LET entries == {e \in db.Entry : e.parent = uid} IN
  IF \A e \in entries : e.bad = Null /\ e.key \in DOMAIN keys
  THEN {{e.key : e \in entries}} ELSE {}

(* Phones, emails and URLs are read alike and stand as "value"; values of any *)
(* other kind but addresses are not surfaced, though a defect there counts.  *)
fillMultiValues(db, lk, person) ==
  LET values == {v \in db.MultiValue : v.owner = person}
      label(v) == IF v.label = Null THEN Null ELSE lk.labels[v.label]
      of(kind) == {v \in values : v.property = kind}
      addresses == IF ~Loaded(db, "addresses") THEN {} ELSE of("address")
      components(v) == addressComponents(db, v.id, lk.entryKeys)
      shown(vs, child(_)) == LET s == SortedRows(vs) IN [k \in DOMAIN s |-> child(s[k])]
  IN  IF \/ \E v \in values : v.bad # Null \/ v.label \notin {Null} \cup DOMAIN lk.labels
         \/ \E v \in addresses : components(v) = {}
      THEN {}
      ELSE {[values |-> shown(of("value"), LAMBDA v : [id |-> v.id, label |-> label(v)]),
             addresses |-> shown(addresses, LAMBDA v : [id |-> v.id, label |-> label(v),
                                   components |-> CHOOSE keys \in components(v) : TRUE])]}

Person(db, lk, row) ==
  {[id |-> row.id, plain |-> row.plain, optional |-> row.optional,
    store |-> At(lk.stores, row.store),
    values |-> multi.values, addresses |-> multi.addresses] :
     multi \in fillMultiValues(db, lk, row.id)}

GroupColumns == <<"id", "plain">>

MemberBelow(m, n) == m.type < n.type \/ (m.type = n.type /\ m.id < n.id)

(* ORDER BY member_type, member_id.                                        *)
MembersListed(members) ==
  Listed(members, {p \in members \X members : MemberBelow(p[1], p[2])})

(* fillMembers: as they are, whether they exist or not.                     *)
Group(db, row) ==
  LET members == {m \in db.GroupMember : m.owner = row.id} IN
  IF \E m \in members : m.bad # Null THEN {}
  ELSE {[id |-> row.id, plain |-> row.plain,
         members |-> MembersListed({[type |-> m.type, id |-> m.member] : m \in members})]}
=============================================================================
