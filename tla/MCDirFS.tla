------------------------------ MODULE MCDirFS ------------------------------
(* A DirFS shared by a few callers, over a backup with three databases:    *)
(* one with a -wal and a -journal but no -shm, one without sidecars, and   *)
(* one that does not exist.                                                *)
EXTENDS DirFS, TLC

MCSidecars == <<"-wal", "-shm", "-journal">>
MCTree == [r \in Requests |->
             CASE r = "wal"   -> {"db", "-wal", "-journal"}
               [] r = "plain" -> {"db"}
               [] OTHER       -> {}]
Symmetry == Permutations(Callers)
=============================================================================
