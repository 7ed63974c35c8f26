--------------------------- MODULE StreamContract ---------------------------
(***************************************************************************)
(* What a domain's iterators promise their consumers (doc.go, "Streaming    *)
(* and errors"), with no database: every row is accounted for once and in   *)
(* order, as a record or as a RowError; a RowError does not end the         *)
(* iteration, any other error does, and nothing follows it.                *)
(***************************************************************************)
EXTENDS Naturals, Sequences

CONSTANTS
  Iterators,
  Verdicts      (* what each row deserves: "record" or "RowError"           *)

VARIABLES
  running,      (* the iterators being ranged over                         *)
  given,        (* what each one's last range has been given, row by row   *)
  ending        (* how it ended: "none" yet, "complete", "stopped" or       *)
                (* "error"                                                 *)

vars == <<running, given, ending>>

Init ==
  /\ running = {}
  /\ given = [i \in Iterators |-> <<>>]
  /\ ending = [i \in Iterators |-> "none"]

Range(i) ==
  /\ i \notin running
  /\ running' = running \cup {i}
  /\ given' = [given EXCEPT ![i] = <<>>]
  /\ ending' = [ending EXCEPT ![i] = "none"]

Give(i) ==
  /\ i \in running /\ Len(given[i]) < Len(Verdicts)
  /\ given' = [given EXCEPT ![i] = Append(@, Verdicts[Len(@) + 1])]
  /\ UNCHANGED <<running, ending>>

End(i) ==
  /\ i \in running
  /\ running' = running \ {i}
  /\ \/ Len(given[i]) = Len(Verdicts) /\ ending' = [ending EXCEPT ![i] = "complete"]
     \/ \E how \in {"stopped", "error"} : ending' = [ending EXCEPT ![i] = how]
  /\ UNCHANGED given

Next == \E i \in Iterators : Range(i) \/ Give(i) \/ End(i)

Spec == Init /\ [][Next]_vars
=============================================================================
