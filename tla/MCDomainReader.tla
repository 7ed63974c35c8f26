--------------------------- MODULE MCDomainReader ---------------------------
(***************************************************************************)
(* DomainReader over six domains.  A store holds everything the domain       *)
(* knows and columns it does not know, less up to two pieces: a column, a   *)
(* table or an entity.  Two absences meet every pair of units, and a unit   *)
(* next to a required column; what an iterator may name depends on no more  *)
(* than one unit at a time.  Reminders has up to two stores, each less one.  *)
(***************************************************************************)
EXTENDS DomainReader, Schemas, StoreSchemas

MCSpecs == [
  messages |-> MessagesSpec, contacts |-> ContactsSpec, calls |-> CallsSpec,
  calendar |-> CalendarSpec, notes |-> NotesSpec, reminders |-> RemindersSpec]

MCStreams == [
  messages  |-> [Messages |-> Messages, ChatMessages |-> ChatMessages, Chats |-> Chats],
  contacts  |-> [People |-> People, Groups |-> Groups],
  calls     |-> [Calls |-> Calls],
  calendar  |-> [Events |-> Events, Calendars |-> Calendars],
  notes     |-> [Notes |-> Notes, Folders |-> Folders],
  reminders |-> [Reminders |-> Reminders, Lists |-> Lists]]

Entities == [
  messages |-> {}, contacts |-> {}, calls |-> {}, calendar |-> {},
  notes |-> {"ICNote", "ICFolder", "ICAccount", "ICAttachment"},
  reminders |-> {"REMCDReminder", "REMCDAccount", "REMCDRecurrenceRule", "REMCDAssignment",
                 "REMCDSharee"}]

MCAnchored == [
  messages |-> {}, contacts |-> {}, calls |-> {}, calendar |-> {},
  notes |-> {"ICNote"}, reminders |-> {"REMCDReminder"}]

Known == [d \in Domains |->
  AllColumns(d) \cup
    UNION {UNION {Names(MCStreams[d][s].queries[i], {}) :
                    i \in 1 .. Len(MCStreams[d][s].queries)} : s \in DOMAIN MCStreams[d]}]

Complete == [d \in Domains |->
  [columns |-> {c \in Known[d] : c[2] # "ROWID"} \cup {<<t, "(other)">> : t \in Tables(Known[d])},
   entities |-> Entities[d]]]

Pieces == [d \in Domains |->
  LET all == Complete[d] IN
  {[columns |-> {c}, entities |-> {}] : c \in all.columns}
    \cup {[columns |-> {c \in all.columns : c[1] = t}, entities |-> {}] :
            t \in Tables(all.columns)}
    \cup {[columns |-> {}, entities |-> {e}] : e \in all.entities}]

Less(store, p) ==
  [columns |-> store.columns \ p.columns, entities |-> store.entities \ p.entities]

LessOne == [d \in Domains |-> {Less(Complete[d], p) : p \in Pieces[d]}]
LessTwo == [d \in Domains |-> {Less(store, p) : store \in LessOne[d], p \in Pieces[d]}]

MCBackups == [d \in Domains |->
  IF d = "reminders" THEN UNION {[names -> LessOne[d]] : names \in SUBSET {1, 2}}
  ELSE {<<store>> : store \in LessTwo[d]} \cup {<<>>}]

MCHosts == [d \in Domains |-> IF d = "reminders" THEN {TRUE, FALSE} ELSE {TRUE}]
=============================================================================
