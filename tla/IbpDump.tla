------------------------------ MODULE IbpDump ------------------------------
(***************************************************************************)
(* cmd/ibp-dump: the only program in the repository that composes an FS, a   *)
(* domain's Open and its iterators.  It prints a capability line and then    *)
(* each iterator's records as JSON lines, one iterator after the other.      *)
(***************************************************************************)
EXTENDS Naturals, Sequences, SequencesExt

CONSTANTS
  Worlds,       (* what a run meets: [root, domain, tree, opens, streams,     *)
                (* room].  -root was given; the domain named; the tree is    *)
                (* there; the domain opens; what each of its iterators       *)
                (* yields; and the lines standard output takes before a      *)
                (* write fails.  An iterator yields ErrUnavailable if it is   *)
                (* refused; else a "record", an "unencodable" record (its     *)
                (* date has no JSON form) or a "RowError" per row, and then,   *)
                (* if it fails, a stream error: [refused, rows, fails]       *)
  None          (* not a line type                                         *)

VARIABLES
  world,
  pc,           (* "main", "open", "capability", "begin", "range",          *)
                (* "return", "exited", "killed"                            *)
  stream,       (* the iterator being ranged over                          *)
  row,          (* its rows yielded                                        *)
  out,          (* the lines printed, [type, stream, row]                   *)
  resources,    (* of "fs", "copies", "handle", "cursor"                    *)
  exit          (* the exit code, if run has decided it                    *)

vars == <<world, pc, stream, row, out, resources, exit>>

(* What a dump does with an iterator: the type of its records' lines, and     *)
(* that of the line for ErrUnavailable, if there is a case for it.            *)
Ranged(record, unavailable) == [record |-> record, unavailable |-> unavailable]

dumpContacts == <<Ranged("person", None), Ranged("group", "note")>>
dumpCalls == <<Ranged("call", None)>>
dumpMessages == <<Ranged("message", None), Ranged("chat", "note")>>
dumpCalendar == <<Ranged("event", None), Ranged("calendar", "note")>>
(* Mutant of dumpNotes: no case for ErrUnavailable.                        *)
dumpNotesUnguarded == <<Ranged("note", None), Ranged("folder", None)>>
dumpNotes == <<Ranged("note", None), Ranged("folder", "unavailable")>>
dumpSafari == <<Ranged("bookmark", None), Ranged("reading_list", "unavailable"),
                   Ranged("visit", "unavailable")>>
dumpReminders == <<Ranged("reminder", None), Ranged("list", "unavailable")>>

Dumps ==
  [contacts |-> dumpContacts, calls |-> dumpCalls, messages |-> dumpMessages,
   calendar |-> dumpCalendar, notes |-> dumpNotes, safari |-> dumpSafari,
   reminders |-> dumpReminders]

Dump == Dumps[world.domain]

LineTypes ==
  {"capability", "row_error"}
    \cup UNION {{Dumps[d][k].record : k \in 1 .. Len(Dumps[d])} : d \in DOMAIN Dumps}

(* Iterators that yield ErrUnavailable in their domains, by their records;    *)
(* the others cannot.                                                      *)
MayRefuse == {"group", "chat", "calendar", "folder", "reading_list", "visit", "list"}

ASSUME DumpAssumption ==
  /\ None \notin Nat /\ None \notin LineTypes \cup {"note", "unavailable"}
  /\ \A w \in Worlds :
       /\ w.root \in BOOLEAN /\ w.tree \in BOOLEAN /\ w.opens \in BOOLEAN /\ w.room \in Nat
       /\ w.streams \in Seq([refused : BOOLEAN, fails : BOOLEAN,
                              rows : Seq({"record", "unencodable", "RowError"})])
       /\ w.domain \in DOMAIN Dumps /\ w.opens =>
            /\ Len(w.streams) = Len(Dumps[w.domain])
            /\ \A k \in 1 .. Len(w.streams) :
                 w.streams[k].refused => Dumps[w.domain][k].record \in MayRefuse

Init ==
  /\ world \in Worlds
  /\ pc = "main" /\ stream = 1 /\ row = 0 /\ out = <<>> /\ resources = {} /\ exit = None

(* run returns: the deferred calls come next, in reverse order.             *)
Return(code) == pc' = "return" /\ exit' = code

(* enc.Encode: a whole line, or an error and none of it.                    *)
Encode(line, next) ==
  IF Len(out) < world.room
  THEN out' = Append(out, line) /\ pc' = next /\ UNCHANGED exit
  ELSE Return(1) /\ UNCHANGED out

Line(type, k, r) == [type |-> type, stream |-> k, row |-> r]

(* The flags, NewDirFS.                                                    *)
Main ==
  /\ pc = "main"
  /\ \/ ~world.root /\ Return(2) /\ UNCHANGED resources
     \/ world.root /\ ~world.tree /\ Return(1) /\ UNCHANGED resources
     \/ world.root /\ world.tree /\ pc' = "open" /\ resources' = {"fs"} /\ UNCHANGED exit
  /\ UNCHANGED <<world, stream, row, out>>

(* The domain's Open: it materializes copies, and closes what it opened if   *)
(* it fails.                                                               *)
Open ==
  /\ pc = "open"
  /\ \/ world.domain \notin DOMAIN Dumps /\ Return(1) /\ UNCHANGED resources
     \/ /\ world.domain \in DOMAIN Dumps /\ ~world.opens /\ Return(1)
        /\ \/ UNCHANGED resources
           \/ resources' = resources \cup {"copies"}
     \/ /\ world.domain \in DOMAIN Dumps /\ world.opens
        /\ pc' = "capability" /\ UNCHANGED exit
        /\ resources' = resources \cup {"copies", "handle"}
  /\ UNCHANGED <<world, stream, row, out>>

(* Mutant of Capability: the line has no type.                             *)
CapabilityUntyped ==
  /\ pc = "capability"
  /\ Encode(Line(None, 0, 0), "begin")
  /\ UNCHANGED <<world, stream, row, resources>>

Capability ==
  /\ pc = "capability"
  /\ Encode(Line("capability", 0, 0), "begin")
  /\ UNCHANGED <<world, stream, row, resources>>

(* for ... range: the next iterator, or the end of the dump.                *)
Begin ==
  /\ pc = "begin"
  /\ \/ /\ stream > Len(Dump) /\ Return(0) /\ UNCHANGED resources
     \/ /\ stream <= Len(Dump) /\ ~world.streams[stream].refused
        /\ pc' = "range" /\ resources' = resources \cup {"cursor"} /\ UNCHANGED exit
     \/ /\ stream <= Len(Dump) /\ world.streams[stream].refused
        /\ pc' = "range" /\ UNCHANGED <<resources, exit>>
  /\ UNCHANGED <<world, stream, row, out>>

Current == world.streams[stream]

(* ErrUnavailable, the one thing the iterator yields: a line of its own, or   *)
(* an error like any other.                                                *)
Unavailable ==
  /\ pc = "range" /\ Current.refused
  /\ IF Dump[stream].unavailable # None
     THEN Encode(Line(Dump[stream].unavailable, stream, 0), "begin")
     ELSE Return(1) /\ UNCHANGED out
  /\ stream' = stream + 1
  /\ UNCHANGED <<world, row, resources>>

(* Returning from the loop's body makes yield false: the iterator closes its  *)
(* cursor before the function returns.                                     *)
Break == resources' = resources \ {"cursor"}

(* Mutant of RowError: the row is passed over.                             *)
RowErrorDropped == pc' = "range" /\ UNCHANGED <<out, exit>>

RowError == Encode(Line("row_error", stream, row + 1), "range")

Item ==
  /\ pc = "range" /\ ~Current.refused /\ row < Len(Current.rows)
  /\ \/ Current.rows[row + 1] = "record" /\ Encode(Line(Dump[stream].record, stream, row + 1), "range")
     \/ Current.rows[row + 1] = "unencodable" /\ Return(1) /\ UNCHANGED out
     \/ Current.rows[row + 1] = "RowError" /\ RowError
  /\ row' = row + 1
  /\ IF pc' = "return" THEN Break ELSE UNCHANGED resources
  /\ UNCHANGED <<world, stream>>

(* Mutant of StreamError: the function returns no error.                    *)
StreamErrorLost == Return(0)

StreamError == Return(1)

(* The iterator is done, or yields a stream error.                          *)
EndOfItems ==
  /\ pc = "range" /\ ~Current.refused /\ row = Len(Current.rows)
  /\ IF Current.fails THEN StreamError ELSE pc' = "begin" /\ UNCHANGED exit
  /\ Break
  /\ stream' = stream + 1 /\ row' = 0
  /\ UNCHANGED <<world, out>>

(* Mutant of Deferred: the FS is closed first.                             *)
DeferredFSFirst ==
  /\ pc = "return"
  /\ \/ /\ "fs" \in resources
        /\ \/ resources' = resources \ {"fs", "copies"}
           \/ resources' = resources \ {"fs"}
     \/ "fs" \notin resources /\ "handle" \in resources /\ resources' = resources \ {"handle"}
  /\ UNCHANGED <<world, pc, stream, row, out, exit>>

(* The deferred Closes.  An error of FS.Close, which leaves copies behind,    *)
(* is dropped.                                                             *)
Deferred ==
  /\ pc = "return"
  /\ \/ "handle" \in resources /\ resources' = resources \ {"handle"}
     \/ /\ "handle" \notin resources /\ "fs" \in resources
        /\ \/ resources' = resources \ {"fs", "copies"}
           \/ resources' = resources \ {"fs"}
  /\ UNCHANGED <<world, pc, stream, row, out, exit>>

(* Mutant of Exit: it waits for the copies to be gone.                      *)
ExitWhenClean ==
  /\ pc = "return" /\ resources = {}
  /\ pc' = "exited"
  /\ UNCHANGED <<world, stream, row, out, resources, exit>>

Exit ==
  /\ pc = "return" /\ resources \cap {"handle", "fs"} = {}
  /\ pc' = "exited"
  /\ UNCHANGED <<world, stream, row, out, resources, exit>>

(* A signal, SIGPIPE of a reader that left among them: nothing deferred runs. *)
Killed ==
  /\ pc \notin {"exited", "killed"}
  /\ pc' = "killed"
  /\ UNCHANGED <<world, stream, row, out, resources, exit>>

Work ==
  \/ Main \/ Open \/ Capability \/ Begin \/ Unavailable \/ Item \/ EndOfItems
  \/ Deferred \/ Exit

Next == Work \/ Killed

(* Nothing the program does waits for anything but the disk and the reader of *)
(* its output.                                                             *)
Spec == Init /\ [][Next]_vars /\ WF_vars(Work)

(***************************************************************************)
(* Properties                                                              *)
(***************************************************************************)

TypeOK ==
  /\ pc \in {"main", "open", "capability", "begin", "range", "return", "exited", "killed"}
  /\ stream \in 1 .. Len(world.streams) + 1
  /\ row \in Nat
  /\ resources \subseteq {"fs", "copies", "handle", "cursor"}
  /\ exit \in {None, 0, 1, 2}
  /\ pc = "exited" => exit # None
  /\ \A k \in DOMAIN out : out[k].type # None

(* What the run is to print, by the streams alone: where each line comes from *)
(* and whether it is a row_error; up to the first thing that is no line.     *)
Row(k, r) == <<k, r, world.streams[k].rows[r] = "RowError">>

Printable(k) ==
  LET s == world.streams[k]
      bad == {r \in DOMAIN s.rows : s.rows[r] = "unencodable"}
      n == IF bad = {} THEN Len(s.rows) ELSE (CHOOSE r \in bad : \A q \in bad : r <= q) - 1
  IN  IF s.refused THEN <<<<k, 0, FALSE>>>> ELSE [r \in 1 .. n |-> Row(k, r)]

Ends(k) ==
  LET s == world.streams[k] IN
  ~s.refused /\ (s.fails \/ \E r \in DOMAIN s.rows : s.rows[r] = "unencodable")

Opened == world.root /\ world.tree /\ world.domain \in DOMAIN Dumps /\ world.opens

Expected ==
  LET n == Len(world.streams)
      last == IF \E k \in 1 .. n : Ends(k)
              THEN CHOOSE k \in 1 .. n : Ends(k) /\ \A j \in 1 .. k - 1 : ~Ends(j) ELSE n
      all == <<<<0, 0, FALSE>>>> \o FlattenSeq([k \in 1 .. last |-> Printable(k)])
  IN  IF Opened THEN SubSeq(all, 1, IF world.room < Len(all) THEN world.room ELSE Len(all)) ELSE <<>>

Lines == [k \in DOMAIN out |-> <<out[k].stream, out[k].row, out[k].type = "row_error">>]

(* The dump prints what the iterators yield, in their order, and leaves       *)
(* nothing out: rows that cannot be read and iterators that are unavailable    *)
(* have lines of their own and do not end it.  If it exits it has printed      *)
(* everything up to the first failure.                                     *)
OutputIsTheStreams ==
  /\ IsPrefix(Lines, Expected)
  /\ pc = "exited" => Lines = Expected

(* Exit code 0 says that the output is whole: the backup opened, no iterator   *)
(* ended with a stream error, and every record found its way to the output.   *)
(* In particular an iterator that is unavailable does not fail the dump.      *)
ExitCodeTells ==
  pc = "exited" =>
    (exit = 0 <=> /\ Opened
                  /\ \A k \in DOMAIN world.streams : ~Ends(k)
                  /\ Len(FlattenSeq([k \in DOMAIN world.streams |-> Printable(k)])) < world.room)

(* A cursor is open only while its domain is, a domain only while the FS with *)
(* its copies is; a dump that exits, however it came to, has closed them all.  *)
ClosedInsideOut ==
  /\ "cursor" \in resources => "handle" \in resources /\ pc \in {"range", "killed"}
  /\ "handle" \in resources => {"fs", "copies"} \subseteq resources
  /\ pc = "exited" => resources \subseteq {"copies"}

(* The dump ends.                                                          *)
DumpEnds == <>(pc \in {"exited", "killed"})
=============================================================================
