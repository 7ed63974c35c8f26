------------------------------ MODULE Schemas ------------------------------
(***************************************************************************)
(* The fingerprints of each domain (<domain>/schema.go) next to the         *)
(* columns its SELECT statements name (<domain>/<domain>.go): two lists     *)
(* kept by hand, which have to agree.                                      *)
(***************************************************************************)
EXTENDS SelectLists

(***************************************************************************)
(* messages                                                                *)
(***************************************************************************)
MessagesSpec == <<[
  required |-> Of("message", {"ROWID", "guid", "text", "date", "is_from_me", "handle_id"}),
  optional |-> [
    attributed_text |-> Of("message", {"attributedBody"}),
    service         |-> Of("message", {"service"}),
    delivery        |-> Of("message", {"date_read", "date_delivered"}),
    tapbacks        |-> Of("message", {"associated_message_type", "associated_message_guid"}),
    tapback_emoji   |-> Of("message", {"associated_message_emoji"}),
    edits           |-> Of("message", {"date_edited", "date_retracted"}),
    threads         |-> Of("message", {"thread_originator_guid", "reply_to_guid"}),
    app_messages    |-> Of("message", {"balloon_bundle_id", "payload_data"}),
    group_events    |-> Of("message", {"item_type", "group_title", "group_action_type"}),
    handles         |-> Of("handle", {"ROWID", "id", "service", "country"}),
    chats           |-> Of("chat", {"ROWID", "guid", "style", "chat_identifier", "service_name",
                                    "display_name", "room_name", "group_id"})
                        \cup Of("chat_message_join", {"chat_id", "message_id"})
                        \cup Of("chat_handle_join", {"chat_id", "handle_id"}),
    attachments     |-> Of("message", {"cache_has_attachments"})
                        \cup Of("attachment", {"ROWID", "guid", "filename", "uti", "mime_type",
                                               "transfer_name", "total_bytes", "is_sticker"})
                        \cup Of("message_attachment_join", {"message_id", "attachment_id"})],
  alwaysMissing |-> {}]>>

loadHandles == Preload({"handles"}, Of("handle", {"ROWID", "id", "service", "country"}))

messageColumns ==
  Of("message", {"ROWID", "guid", "text", "date", "is_from_me", "handle_id"})

messageUnitColumns == [
  attributed_text |-> Of("message", {"attributedBody"}),
  service         |-> Of("message", {"service"}),
  delivery        |-> Of("message", {"date_read", "date_delivered"}),
  tapbacks        |-> Of("message", {"associated_message_type", "associated_message_guid"}),
  tapback_emoji   |-> Of("message", {"associated_message_emoji"}),
  edits           |-> Of("message", {"date_edited", "date_retracted"}),
  threads         |-> Of("message", {"thread_originator_guid", "reply_to_guid"}),
  app_messages    |-> Of("message", {"balloon_bundle_id", "payload_data"}),
  group_events    |-> Of("message", {"item_type", "group_title", "group_action_type"}),
  attachments     |-> Of("message", {"cache_has_attachments"})]

(* Mutant of fillAttachments: a column added to the SELECT alone.           *)
fillAttachmentsAdded ==
  PerRow({"attachments"},
    Of("message_attachment_join", {"attachment_id", "message_id"})
      \cup Of("attachment", {"ROWID", "guid", "filename", "created_date"}))

fillAttachments ==
  PerRow({"attachments"},
    Of("message_attachment_join", {"attachment_id", "message_id"})
      \cup Of("attachment", {"ROWID", "guid", "filename", "uti", "mime_type", "transfer_name",
                             "total_bytes", "is_sticker"}))

Messages == [needs |-> {}, entities |-> {}, queries |-> <<
  loadHandles,
  Preload({"chats"}, Of("chat_message_join", {"message_id", "chat_id"})),
  Anchor(messageColumns, messageUnitColumns),
  fillAttachments>>]

ChatMessages == [needs |-> {"chats"}, entities |-> {}, queries |-> <<
  loadHandles,
  Anchor(messageColumns \cup Of("chat_message_join", {"message_id", "chat_id"}),
         messageUnitColumns),
  PerRow({"chats"}, Of("chat_message_join", {"chat_id", "message_id"})),
  fillAttachments>>]

Chats == [needs |-> {"chats"}, entities |-> {}, queries |-> <<
  loadHandles,
  Anchor(Of("chat", {"ROWID", "guid", "style", "chat_identifier", "service_name",
                     "display_name", "room_name", "group_id"}), <<>>),
  PerRow({"handles"}, Of("chat_handle_join", {"handle_id", "chat_id"}))>>]

(***************************************************************************)
(* contacts                                                                *)
(***************************************************************************)
personUnitColumns == [
  middle_name  |-> Of("ABPerson", {"Middle"}),
  prefix       |-> Of("ABPerson", {"Prefix"}),
  suffix       |-> Of("ABPerson", {"Suffix"}),
  nickname     |-> Of("ABPerson", {"Nickname"}),
  organization |-> Of("ABPerson", {"Organization"}),
  department   |-> Of("ABPerson", {"Department"}),
  job_title    |-> Of("ABPerson", {"JobTitle"}),
  note         |-> Of("ABPerson", {"Note"}),
  kind         |-> Of("ABPerson", {"Kind"}),
  birthday     |-> Of("ABPerson", {"Birthday"}),
  created      |-> Of("ABPerson", {"CreationDate"}),
  modified     |-> Of("ABPerson", {"ModificationDate"}),
  account      |-> Of("ABPerson", {"StoreID"})]

ContactsSpec == <<[
  required |->
    Of("ABPerson", {"ROWID", "First", "Last"})
      \cup Of("ABMultiValue", {"UID", "record_id", "property", "label", "value"})
      \cup Of("ABMultiValueLabel", {"value"}),
  optional |-> [
    middle_name  |-> Of("ABPerson", {"Middle"}),
    prefix       |-> Of("ABPerson", {"Prefix"}),
    suffix       |-> Of("ABPerson", {"Suffix"}),
    nickname     |-> Of("ABPerson", {"Nickname"}),
    organization |-> Of("ABPerson", {"Organization"}),
    department   |-> Of("ABPerson", {"Department"}),
    job_title    |-> Of("ABPerson", {"JobTitle"}),
    note         |-> Of("ABPerson", {"Note"}),
    kind         |-> Of("ABPerson", {"Kind"}),
    birthday     |-> Of("ABPerson", {"Birthday"}),
    created      |-> Of("ABPerson", {"CreationDate"}),
    modified     |-> Of("ABPerson", {"ModificationDate"}),
    addresses    |-> Of("ABMultiValueEntry", {"parent_id", "key", "value"})
                     \cup Of("ABMultiValueEntryKey", {"value"}),
    account      |-> Of("ABPerson", {"StoreID"})
                     \cup Of("ABStore", {"ROWID", "Name", "Type", "AccountID"})
                     \cup Of("ABAccount", {"ROWID", "AccountIdentifier"}),
    groups       |-> Of("ABGroup", {"ROWID", "Name", "StoreID"})
                     \cup Of("ABGroupMembers", {"group_id", "member_type", "member_id"})],
  alwaysMissing |-> {"photo"}]>>

loadLookups == <<
  Preload({}, Of("ABMultiValueLabel", {"ROWID", "value"})),
  Preload({"addresses"}, Of("ABMultiValueEntryKey", {"ROWID", "value"})),
  Preload({"account"}, Of("ABStore", {"ROWID", "Name", "Type", "AccountID"})
                       \cup Of("ABAccount", {"AccountIdentifier", "ROWID"}))>>

fillMultiValues == <<
  PerRow({}, Of("ABMultiValue", {"UID", "property", "label", "value", "record_id"})),
  PerRow({"addresses"}, Of("ABMultiValueEntry", {"key", "value", "parent_id"}))>>

People == [needs |-> {}, entities |-> {}, queries |->
  loadLookups
    \o <<Anchor(Of("ABPerson", {"ROWID", "First", "Last"}), personUnitColumns)>>
    \o fillMultiValues]

Groups == [needs |-> {"groups"}, entities |-> {}, queries |-> <<
  Anchor(Of("ABGroup", {"ROWID", "Name", "StoreID"}), <<>>),
  PerRow({"groups"}, Of("ABGroupMembers", {"member_type", "member_id", "group_id"}))>>]

(***************************************************************************)
(* calls                                                                   *)
(***************************************************************************)
CallsSpec == <<[
  required |-> Of("ZCALLRECORD", {"Z_PK", "ZDATE", "ZDURATION", "ZORIGINATED", "ZANSWERED",
                                  "ZCALLTYPE", "ZADDRESS"}),
  optional |-> [
    name             |-> Of("ZCALLRECORD", {"ZNAME"}),
    service_provider |-> Of("ZCALLRECORD", {"ZSERVICE_PROVIDER"}),
    iso_country_code |-> Of("ZCALLRECORD", {"ZISO_COUNTRY_CODE"}),
    unique_id        |-> Of("ZCALLRECORD", {"ZUNIQUE_ID"}),
    read             |-> Of("ZCALLRECORD", {"ZREAD"}),
    spam             |-> Of("ZCALLRECORD", {"ZJUNKCONFIDENCE", "ZJUNKIDENTIFICATIONCATEGORY"}),
    participants     |-> Of("Z_2REMOTEPARTICIPANTHANDLES",
                            {"Z_2REMOTEPARTICIPANTCALLS", "Z_4REMOTEPARTICIPANTHANDLES"})
                         \cup Of("ZHANDLE", {"Z_PK", "ZVALUE", "ZNORMALIZEDVALUE", "ZTYPE"})],
  alwaysMissing |-> {}]>>

Calls == [needs |-> {}, entities |-> {}, queries |-> <<
  Preload({"participants"}, Of("ZHANDLE", {"Z_PK", "ZVALUE", "ZNORMALIZEDVALUE", "ZTYPE"})),
  Anchor(Of("ZCALLRECORD", {"Z_PK", "ZDATE", "ZDURATION", "ZORIGINATED", "ZANSWERED",
                            "ZCALLTYPE", "ZADDRESS"}),
         [name             |-> Of("ZCALLRECORD", {"ZNAME"}),
          service_provider |-> Of("ZCALLRECORD", {"ZSERVICE_PROVIDER"}),
          iso_country_code |-> Of("ZCALLRECORD", {"ZISO_COUNTRY_CODE"}),
          unique_id        |-> Of("ZCALLRECORD", {"ZUNIQUE_ID"}),
          read             |-> Of("ZCALLRECORD", {"ZREAD"}),
          spam |-> Of("ZCALLRECORD", {"ZJUNKCONFIDENCE", "ZJUNKIDENTIFICATIONCATEGORY"})]),
  PerRow({"participants"}, Of("Z_2REMOTEPARTICIPANTHANDLES",
                              {"Z_4REMOTEPARTICIPANTHANDLES", "Z_2REMOTEPARTICIPANTCALLS"}))>>]

(***************************************************************************)
(* calendar                                                                *)
(***************************************************************************)
CalendarSpec == <<[
  required |-> Of("CalendarItem", {"ROWID", "summary", "start_date", "end_date", "all_day",
                                   "calendar_id", "calendar_scale"}),
  optional |-> [
    notes        |-> Of("CalendarItem", {"description"}),
    entity_type  |-> Of("CalendarItem", {"entity_type"}),
    timezone     |-> Of("CalendarItem", {"start_tz", "end_tz"}),
    status       |-> Of("CalendarItem", {"status"}),
    availability |-> Of("CalendarItem", {"availability"}),
    privacy      |-> Of("CalendarItem", {"privacy_level"}),
    url          |-> Of("CalendarItem", {"url"}),
    created      |-> Of("CalendarItem", {"creation_date"}),
    modified     |-> Of("CalendarItem", {"last_modified"}),
    conference   |-> Of("CalendarItem", {"conference_url_detected"}),
    calendar     |-> Of("Calendar", {"ROWID", "store_id", "title", "color", "type",
                                     "sharing_status"})
                     \cup Of("Store", {"ROWID", "name", "type"}),
    location     |-> Of("CalendarItem", {"location_id"})
                     \cup Of("Location", {"ROWID", "title", "address", "latitude", "longitude"}),
    attendees    |-> Of("CalendarItem", {"organizer_id"})
                     \cup Of("Participant", {"ROWID", "entity_type", "owner_id", "email",
                                             "phone_number", "status", "role", "type",
                                             "is_self", "identity_id"})
                     \cup Of("Identity", {"display_name"}),
    recurrence   |-> Of("Recurrence", {"ROWID", "frequency", "interval", "count", "end_date",
                                       "specifier", "owner_id"}),
    alarms       |-> Of("Alarm", {"ROWID", "trigger_date", "trigger_interval", "type",
                                  "proximity", "calendaritem_owner_id"}),
    attachments  |-> Of("Attachment", {"ROWID", "owner_id", "file_id"})
                     \cup Of("AttachmentFile", {"ROWID", "filename", "file_size", "url", "UUID"})],
  alwaysMissing |-> {}]>>

loadStores == Preload({"calendar"}, Of("Store", {"ROWID", "name", "type"}))

loadCalendars == Preload({"calendar"},
  Of("Calendar", {"ROWID", "store_id", "title", "color", "type", "sharing_status"}))

loadChildren == <<
  loadStores,
  loadCalendars,
  Preload({"location"}, Of("Location", {"ROWID", "title", "address", "latitude", "longitude"})),
  Preload({"attendees"}, Of("Identity", {"ROWID", "display_name"})),
  Preload({"attendees"}, Of("Participant", {"ROWID", "entity_type", "owner_id", "email",
                                            "phone_number", "status", "role", "type",
                                            "is_self", "identity_id"})),
  Preload({"recurrence"}, Of("Recurrence", {"owner_id", "frequency", "interval", "count",
                                            "end_date", "specifier", "ROWID"})),
  Preload({"alarms"}, Of("Alarm", {"calendaritem_owner_id", "trigger_date", "trigger_interval",
                                   "type", "proximity", "ROWID"})),
  Preload({"attachments"},
    Of("Attachment", {"owner_id", "file_id", "ROWID"})
      \cup Of("AttachmentFile", {"filename", "file_size", "UUID", "url", "local_path", "ROWID"}))>>

Events == [needs |-> {}, entities |-> {}, queries |-> Append(loadChildren,
  Anchor(Of("CalendarItem", {"ROWID", "summary", "start_date", "end_date", "all_day",
                             "calendar_id", "calendar_scale"}),
         [notes        |-> Of("CalendarItem", {"description"}),
          entity_type  |-> Of("CalendarItem", {"entity_type"}),
          timezone     |-> Of("CalendarItem", {"start_tz", "end_tz"}),
          status       |-> Of("CalendarItem", {"status"}),
          availability |-> Of("CalendarItem", {"availability"}),
          privacy      |-> Of("CalendarItem", {"privacy_level"}),
          url          |-> Of("CalendarItem", {"url"}),
          created      |-> Of("CalendarItem", {"creation_date"}),
          modified     |-> Of("CalendarItem", {"last_modified"}),
          conference   |-> Of("CalendarItem", {"conference_url_detected", "conference_url"}),
          location     |-> Of("CalendarItem", {"location_id"}),
          attendees    |-> Of("CalendarItem", {"organizer_id"})]))]

Calendars == [needs |-> {"calendar"}, entities |-> {}, queries |-> <<loadStores, loadCalendars>>]
=============================================================================
