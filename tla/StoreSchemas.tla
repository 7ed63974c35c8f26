---------------------------- MODULE StoreSchemas ----------------------------
(***************************************************************************)
(* The fingerprints and SELECT lists of the two CoreData domains, notes and *)
(* reminders, where rows of several entities share one table.               *)
(***************************************************************************)
EXTENDS SelectLists

(***************************************************************************)
(* notes                                                                   *)
(***************************************************************************)
Objects(names) == Of("ZICCLOUDSYNCINGOBJECT", names)

NotesSpec == <<[
  required |-> Objects({"Z_PK", "Z_ENT", "ZIDENTIFIER"})
                 \cup Of("Z_PRIMARYKEY", {"Z_ENT", "Z_NAME"})
                 \cup Of("ZICNOTEDATA", {"ZNOTE", "ZDATA"}),
  optional |-> [
    title       |-> Objects({"ZTITLE1"}),
    snippet     |-> Objects({"ZSNIPPET"}),
    created     |-> Objects({"ZCREATIONDATE3"}),
    modified    |-> Objects({"ZMODIFICATIONDATE1"}),
    folders     |-> Objects({"ZFOLDER", "ZTITLE2", "ZFOLDERTYPE"}),
    account     |-> Objects({"ZACCOUNT7", "ZNAME", "ZACCOUNTTYPE"}),
    locked      |-> Objects({"ZISPASSWORDPROTECTED", "ZPASSWORDHINT"}),
    pinned      |-> Objects({"ZISPINNED"}),
    deletion    |-> Objects({"ZMARKEDFORDELETION"}),
    attachments |-> Objects({"ZNOTE", "ZTYPEUTI", "ZTITLE", "ZATTACHMENT1", "ZFILENAME",
                             "ZGENERATION1"})],
  alwaysMissing |-> {}]>>

loadNoteAccounts == OfEntities({"ICAccount"},
  Preload({"account"}, Objects({"Z_PK", "ZIDENTIFIER", "ZNAME", "ZACCOUNTTYPE", "Z_ENT"})))

(* Mutant of folderColumns: the account is selected whatever Open found.   *)
folderColumnsUngated ==
  [Preload({"folders"}, Objects({"Z_PK", "ZIDENTIFIER", "ZTITLE2", "ZFOLDERTYPE", "Z_ENT",
                                 "ZACCOUNT7"}))
     EXCEPT !.entities = {"ICFolder"}]

(* A folder's account is NULL, not a column, where accounts are missing.   *)
folderColumns ==
  [Preload({"folders"}, Objects({"Z_PK", "ZIDENTIFIER", "ZTITLE2", "ZFOLDERTYPE", "Z_ENT"}))
     EXCEPT !.gated = [account |-> Objects({"ZACCOUNT7"})], !.entities = {"ICFolder"}]

loadAttachments == OfEntities({"ICAttachment"},
  Preload({"attachments"},
    Objects({"Z_PK", "ZIDENTIFIER", "ZTYPEUTI", "ZTITLE", "ZNOTE", "ZGENERATION1", "ZFILENAME",
             "ZATTACHMENT1", "Z_ENT"})))

Notes == [needs |-> {}, entities |-> {}, queries |-> <<
  loadNoteAccounts, folderColumns, loadAttachments,
  Anchor(Objects({"Z_PK", "ZIDENTIFIER", "Z_ENT"}) \cup Of("ZICNOTEDATA", {"ZDATA", "ZNOTE"}),
         [title    |-> Objects({"ZTITLE1"}),
          snippet  |-> Objects({"ZSNIPPET"}),
          created  |-> Objects({"ZCREATIONDATE3"}),
          modified |-> Objects({"ZMODIFICATIONDATE1"}),
          folders  |-> Objects({"ZFOLDER"}),
          account  |-> Objects({"ZACCOUNT7"}),
          locked   |-> Objects({"ZISPASSWORDPROTECTED", "ZPASSWORDHINT"}),
          pinned   |-> Objects({"ZISPINNED"}),
          deletion |-> Objects({"ZMARKEDFORDELETION"})])>>]

Folders == [needs |-> {"folders"}, entities |-> {"ICFolder"},
            queries |-> <<loadNoteAccounts, folderColumns>>]

(***************************************************************************)
(* reminders                                                               *)
(***************************************************************************)
Reminder(names) == Of("ZREMCDREMINDER", names)
REMCDObject(names) == Of("ZREMCDOBJECT", names)

reminderUnits == [
  notes      |-> Reminder({"ZNOTES"}),
  completion |-> Reminder({"ZCOMPLETED", "ZCOMPLETIONDATE"}),
  flagged    |-> Reminder({"ZFLAGGED"}),
  priority   |-> Reminder({"ZPRIORITY"}),
  all_day    |-> Reminder({"ZALLDAY"}),
  created    |-> Reminder({"ZCREATIONDATE"}),
  modified   |-> Reminder({"ZLASTMODIFIEDDATE"}),
  due        |-> Reminder({"ZDUEDATE"}),
  start      |-> Reminder({"ZSTARTDATE"}),
  deletion   |-> Reminder({"ZMARKEDFORDELETION"}),
  parent     |-> Reminder({"ZPARENTREMINDER"}),
  identifier |-> Reminder({"ZIDENTIFIER"}),
  list_link  |-> Reminder({"ZLIST"}),
  lists      |-> Of("ZREMCDBASELIST", {"Z_PK", "Z_ENT", "ZIDENTIFIER", "ZNAME", "ZISGROUP",
                                       "ZSHARINGSTATUS", "ZACCOUNT"}),
  account    |-> Reminder({"ZACCOUNT"}) \cup REMCDObject({"Z_PK", "Z_ENT", "ZNAME"}),
  recurrence |-> REMCDObject({"ZREMINDER4", "ZFREQUENCY", "ZINTERVAL", "ZOCCURRENCECOUNT",
                              "ZENDDATE"}),
  assignment |-> REMCDObject({"ZREMINDER1", "ZASSIGNEE", "ZFIRSTNAME", "ZLASTNAME",
                              "ZADDRESS1"})]

RemindersSpec == <<[
  required |-> Of("Z_PRIMARYKEY", {"Z_ENT", "Z_NAME"})
                 \cup Reminder({"Z_PK", "Z_ENT", "ZTITLE"}),
  optional |-> reminderUnits,
  alwaysMissing |-> {}]>>

loadAccounts == OfEntities({"REMCDAccount"},
  Preload({"account"}, REMCDObject({"Z_PK", "ZNAME", "Z_ENT"})))

loadLists == Preload({"lists"},
  Of("ZREMCDBASELIST", {"Z_PK", "ZIDENTIFIER", "ZNAME", "ZISGROUP", "ZSHARINGSTATUS",
                        "ZACCOUNT"}))

loadRecurrences == OfEntities({"REMCDRecurrenceRule"},
  Preload({"recurrence"}, REMCDObject({"ZREMINDER4", "ZFREQUENCY", "ZINTERVAL",
                                       "ZOCCURRENCECOUNT", "ZENDDATE", "Z_ENT"})))

loadAssignees == <<
  OfEntities({"REMCDAssignment", "REMCDSharee"},
    Preload({"assignment"}, REMCDObject({"Z_PK", "ZFIRSTNAME", "ZLASTNAME", "ZADDRESS1",
                                         "Z_ENT"}))),
  OfEntities({"REMCDAssignment"},
    Preload({"assignment"}, REMCDObject({"ZREMINDER1", "ZASSIGNEE", "Z_ENT"})))>>

(* The SELECT names a column or two for each unit of the reminder itself.   *)
reminderColumns == [
  identifier |-> Reminder({"ZIDENTIFIER"}),
  notes      |-> Reminder({"ZNOTES"}),
  flagged    |-> Reminder({"ZFLAGGED"}),
  priority   |-> Reminder({"ZPRIORITY"}),
  all_day    |-> Reminder({"ZALLDAY"}),
  created    |-> Reminder({"ZCREATIONDATE"}),
  modified   |-> Reminder({"ZLASTMODIFIEDDATE"}),
  due        |-> Reminder({"ZDUEDATE"}),
  start      |-> Reminder({"ZSTARTDATE"}),
  deletion   |-> Reminder({"ZMARKEDFORDELETION"}),
  parent     |-> Reminder({"ZPARENTREMINDER"}),
  list_link  |-> Reminder({"ZLIST"}),
  completion |-> Reminder({"ZCOMPLETED", "ZCOMPLETIONDATE"}),
  account    |-> Reminder({"ZACCOUNT"})]

Reminders == [needs |-> {}, entities |-> {}, queries |->
  <<loadAccounts, loadLists, loadRecurrences>> \o loadAssignees
    \o <<Anchor(Reminder({"Z_PK", "ZTITLE", "Z_ENT"}), reminderColumns)>>]

Lists == [needs |-> {"lists"}, entities |-> {}, queries |-> <<loadAccounts, loadLists>>]
=============================================================================
