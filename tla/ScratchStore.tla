---------------------------- MODULE ScratchStore ----------------------------
(***************************************************************************)
(* What a DirFS promises the holders of the paths Materialize returned     *)
(* (the doc comments of dirfs.go and fs.go), with no goroutines, mutex,    *)
(* files or RemoveAll: paths are handed out once each and stay intact      *)
(* until the first Close, which either removes everything for good or      *)
(* reports that it could not.                                              *)
(***************************************************************************)
CONSTANT Paths

VARIABLES
  phase,        (* "open", "closing", then "gone" or "leaked"              *)
  issued,       (* the paths handed out                                    *)
  intact        (* those whose copy is still complete                      *)

vars == <<phase, issued, intact>>

TypeOK ==
  /\ phase \in {"open", "closing", "gone", "leaked"}
  /\ issued \subseteq Paths /\ intact \subseteq issued

Init == phase = "open" /\ issued = {} /\ intact = {}

(* A call that overlaps or follows Close may still return a path; only an  *)
(* open store promises that the copy is there.                             *)
Issue(p) ==
  /\ p \notin issued
  /\ issued' = issued \cup {p}
  /\ intact' \in {intact, intact \cup {p}}
  /\ phase = "open" => p \in intact'
  /\ phase = "gone" => p \notin intact'
  /\ UNCHANGED phase

BeginClose ==
  /\ phase = "open"
  /\ phase' = "closing"
  /\ UNCHANGED <<issued, intact>>

Remove ==
  /\ phase = "closing"
  /\ intact' \in SUBSET intact
  /\ UNCHANGED <<phase, issued>>

EndClose ==
  /\ \/ phase \in {"open", "closing"} /\ intact = {} /\ phase' = "gone"
     \/ phase = "closing" /\ phase' = "leaked"
  /\ UNCHANGED <<issued, intact>>

Next == (\E p \in Paths : Issue(p)) \/ BeginClose \/ Remove \/ EndClose

Spec == Init /\ [][Next]_vars
=============================================================================
