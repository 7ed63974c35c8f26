------------------------------- MODULE DirFS -------------------------------
(***************************************************************************)
(* DirFS (dirfs.go): callers of one DirFS that Materialize databases into   *)
(* its private scratch directory while others Close it.                    *)
(*                                                                         *)
(* The mutex covers newScratchDir and the whole of Close, os.RemoveAll     *)
(* included; the copying itself runs outside it, so RemoveAll meets copies *)
(* that are being written.  A file of the scratch tree is <<d, n>>: the    *)
(* file called n in the d-th subdirectory.  The backup tree is static.     *)
(***************************************************************************)
EXTENDS Naturals, Sequences

CONSTANTS
  Callers,      (* goroutines sharing the DirFS                            *)
  Requests,     (* the <domain, relativePath> pairs asked for              *)
  Main,         (* the name of the database file itself                    *)
  Sidecars,     (* sidecarSuffixes, in the order they are tried            *)
  Tree,         (* Tree[r]: the names that exist in the backup for r; {}   *)
                (* for an invalid or absent path                           *)
  Free,         (* the mutex is not held                                   *)
  MaxCalls      (* bound: calls of Materialize and Close in a behaviour    *)

Names == {Main} \cup {Sidecars[i] : i \in 1 .. Len(Sidecars)}

ASSUME CallersAssumption == Free \notin Callers
ASSUME TreeAssumption ==
  /\ Sidecars \in Seq({Sidecars[i] : i \in 1 .. Len(Sidecars)})
  /\ Tree \in [Requests -> SUBSET Names]
ASSUME MaxCallsAssumption == MaxCalls \in Nat

VARIABLES
  (* fields of the DirFS *)
  mu,           (* mu: its holder, or Free                                 *)
  closed,       (* closed                                                  *)
  scratch,      (* scratch # "": the DirFS still knows its scratch root    *)
  seq,          (* seq                                                     *)
  (* the scratch tree on disk *)
  root,         (* the scratch root exists                                 *)
  dirs,         (* its subdirectories                                      *)
  partial,      (* files created by copyFile and still being written       *)
  full,         (* files copyFile has finished                             *)
  (* the calls in progress *)
  pc,           (* what each caller does next                              *)
  req,          (* the request it serves                                   *)
  dir,          (* the subdirectory newScratchDir gave it                  *)
  todo,         (* the names it has still to copy                          *)
  (* os.RemoveAll of the mutex's holder *)
  rmTodo,       (* subdirectories it has listed and not yet entered        *)
  rmCur,        (* the one it is in, or 0                                  *)
  rmNames,      (* the names it has listed there and not yet unlinked      *)
  (* history *)
  calls,        (* calls begun                                             *)
  issued,       (* <<d, r>>: Materialize returned the copy of r in d       *)
  firstClose,   (* what the first Close returned                           *)
  lastClose     (* what the latest Close returned                          *)

diskVars    == <<root, dirs, partial, full>>
fieldVars   == <<closed, scratch, seq>>
historyVars == <<issued, firstClose, lastClose>>
callVars    == <<pc, req, dir, todo>>
rmVars      == <<rmTodo, rmCur, rmNames>>
vars == <<mu, fieldVars, diskVars, callVars, rmVars, calls, historyVars>>

Present(d) == {n \in Names : <<d, n>> \in partial \cup full}

Goto(c, label) == pc' = [pc EXCEPT ![c] = label]

(* The call of c returns; its local variables are gone.                    *)
Leave(c) ==
  /\ Goto(c, "idle")
  /\ dir' = [dir EXCEPT ![c] = 0]
  /\ todo' = [todo EXCEPT ![c] = <<>>]

Init ==
  /\ mu = Free /\ closed = FALSE /\ scratch = FALSE /\ seq = 0
  /\ root = FALSE /\ dirs = {} /\ partial = {} /\ full = {}
  /\ pc = [c \in Callers |-> "idle"]
  /\ req \in [Callers -> Requests]
  /\ dir = [c \in Callers |-> 0]
  /\ todo = [c \in Callers |-> <<>>]
  /\ rmTodo = {} /\ rmCur = 0 /\ rmNames = {}
  /\ calls = 0 /\ issued = {} /\ firstClose = "none" /\ lastClose = "none"

(***************************************************************************)
(* Materialize                                                             *)
(***************************************************************************)

(* Materialize up to newScratchDir: source validates the path and os.Stat  *)
(* finds the database; otherwise the call has already failed.              *)
BeginMaterialize(c, r) ==
  /\ pc[c] = "idle" /\ calls < MaxCalls
  /\ calls' = calls + 1
  /\ req' = [req EXCEPT ![c] = r]
  /\ Goto(c, IF Main \in Tree[r] THEN "reserve" ELSE "idle")
  /\ UNCHANGED <<mu, fieldVars, diskVars, dir, todo, rmVars, historyVars>>

(* newScratchDir on a closed DirFS.                                        *)
ReserveClosed(c) ==
  /\ pc[c] = "reserve" /\ mu = Free /\ closed
  /\ Goto(c, "idle")
  /\ UNCHANGED <<mu, fieldVars, diskVars, req, dir, todo, rmVars, calls, historyVars>>

(* Mutants of Reserve: a number not counted and a directory not required   *)
(* to be new; the closed flag not looked at.                               *)
ReserveUncounted(c) ==
  /\ pc[c] = "reserve" /\ mu = Free /\ ~closed
  /\ scratch' = TRUE /\ root' = TRUE
  /\ dirs' = dirs \cup {seq}
  /\ dir' = [dir EXCEPT ![c] = seq]
  /\ todo' = [todo EXCEPT ![c] = <<Main>> \o Sidecars]
  /\ Goto(c, "create")
  /\ UNCHANGED <<mu, closed, seq, partial, full, req, rmVars, calls, historyVars>>

ReserveOnClosed(c) ==
  /\ pc[c] = "reserve" /\ mu = Free
  /\ scratch' = TRUE /\ root' = TRUE
  /\ seq' = seq + 1
  /\ dirs' = dirs \cup {seq'}
  /\ dir' = [dir EXCEPT ![c] = seq']
  /\ todo' = [todo EXCEPT ![c] = <<Main>> \o Sidecars]
  /\ Goto(c, "create")
  /\ UNCHANGED <<mu, closed, partial, full, req, rmVars, calls, historyVars>>

(* newScratchDir: MkdirTemp unless the root exists, then Mkdir of the next *)
(* number, which fails when that directory is already there.               *)
Reserve(c) ==
  /\ pc[c] = "reserve" /\ mu = Free /\ ~closed
  /\ scratch' = TRUE /\ root' = TRUE
  /\ seq' = seq + 1
  /\ seq' \notin dirs
  /\ dirs' = dirs \cup {seq'}
  /\ dir' = [dir EXCEPT ![c] = seq']
  /\ todo' = [todo EXCEPT ![c] = <<Main>> \o Sidecars]
  /\ Goto(c, "create")
  /\ UNCHANGED <<mu, closed, partial, full, req, rmVars, calls, historyVars>>

(* Mutants of ReserveFails: an error path that does not unlock; one that   *)
(* does not return.                                                        *)
ReserveFailsLocked(c) ==
  /\ pc[c] = "reserve" /\ mu = Free /\ ~closed /\ ~scratch
  /\ mu' = c
  /\ Goto(c, "idle")
  /\ UNCHANGED <<fieldVars, diskVars, req, dir, todo, rmVars, calls, historyVars>>

ReserveFailsOn(c) ==
  /\ pc[c] = "reserve" /\ mu = Free /\ ~closed
  /\ Goto(c, "failed")
  /\ UNCHANGED <<mu, fieldVars, diskVars, req, dir, todo, rmVars, calls, historyVars>>

(* newScratchDir when the file system refuses: MkdirTemp fails and nothing *)
(* changes, or Mkdir fails and the number is spent.                        *)
ReserveFails(c) ==
  /\ pc[c] = "reserve" /\ mu = Free /\ ~closed
  /\ \/ ~scratch /\ UNCHANGED <<scratch, seq, root>>
     \/ scratch' = TRUE /\ root' = TRUE /\ seq' = seq + 1
  /\ Goto(c, "idle")
  /\ UNCHANGED <<mu, closed, dirs, partial, full, req, dir, todo, rmVars, calls,
                 historyVars>>

(* copyFile up to its OpenFile with O_CREATE|O_EXCL.                       *)
CreateCopy(c) ==
  LET f == <<dir[c], Head(todo[c])>> IN
  /\ pc[c] = "create"
  /\ dir[c] \in dirs
  /\ f \notin partial \cup full
  /\ partial' = partial \cup {f}
  /\ Goto(c, "fill")
  /\ UNCHANGED <<mu, fieldVars, root, dirs, full, req, dir, todo, rmVars, calls,
                 historyVars>>

(* The io.Copy and Close of copyFile; a file RemoveAll has unlinked in the *)
(* meantime is written all the same, and nothing of it is left.            *)
FillCopy(c) ==
  LET f == <<dir[c], Head(todo[c])>> IN
  /\ pc[c] = "fill"
  /\ partial' = partial \ {f}
  /\ full' = IF f \in partial THEN full \cup {f} ELSE full
  /\ todo' = [todo EXCEPT ![c] = Tail(@)]
  /\ Goto(c, "sidecar")
  /\ UNCHANGED <<mu, fieldVars, root, dirs, req, dir, rmVars, calls, historyVars>>

(* Mutant of StatSidecar: the first absent sidecar ends the loop.          *)
StatSidecarBreak(c) ==
  /\ pc[c] = "sidecar" /\ todo[c] # <<>>
  /\ IF Head(todo[c]) \in Tree[req[c]]
     THEN Goto(c, "create") /\ UNCHANGED todo
     ELSE todo' = [todo EXCEPT ![c] = <<>>] /\ UNCHANGED pc
  /\ UNCHANGED <<mu, fieldVars, diskVars, req, dir, rmVars, calls, historyVars>>

(* One turn of the sidecar loop: an absent sidecar is skipped.             *)
StatSidecar(c) ==
  /\ pc[c] = "sidecar" /\ todo[c] # <<>>
  /\ IF Head(todo[c]) \in Tree[req[c]]
     THEN Goto(c, "create") /\ UNCHANGED todo
     ELSE todo' = [todo EXCEPT ![c] = Tail(@)] /\ UNCHANGED pc
  /\ UNCHANGED <<mu, fieldVars, diskVars, req, dir, rmVars, calls, historyVars>>

(* Any error of copyFile or of the sidecar's Stat: the call returns and    *)
(* what it has copied stays in the scratch directory.                      *)
CopyFails(c) ==
  /\ \/ pc[c] \in {"create", "fill"}
     \/ pc[c] = "sidecar" /\ todo[c] # <<>>
  /\ Leave(c)
  /\ UNCHANGED <<mu, fieldVars, diskVars, req, rmVars, calls, historyVars>>

Return(c) ==
  /\ pc[c] = "sidecar" /\ todo[c] = <<>>
  /\ issued' = issued \cup {<<dir[c], req[c]>>}
  /\ Leave(c)
  /\ UNCHANGED <<mu, fieldVars, diskVars, req, rmVars, calls, firstClose, lastClose>>

(***************************************************************************)
(* Close                                                                   *)
(***************************************************************************)

BeginClose(c) ==
  /\ pc[c] = "idle" /\ calls < MaxCalls
  /\ calls' = calls + 1
  /\ Goto(c, "close")
  /\ UNCHANGED <<mu, fieldVars, diskVars, req, dir, todo, rmVars, historyVars>>

Closed(ret) ==
  /\ lastClose' = ret
  /\ firstClose' = IF firstClose = "none" THEN ret ELSE firstClose

(* Close with no scratch root to remove.                                   *)
CloseNothing(c) ==
  /\ pc[c] = "close" /\ mu = Free /\ ~scratch
  /\ closed' = TRUE
  /\ Closed("nil")
  /\ Goto(c, "idle")
  /\ UNCHANGED <<mu, scratch, seq, diskVars, req, dir, todo, rmVars, calls, issued>>

(* Mutant of CloseScratch: closed is not set.                              *)
CloseScratchOpen(c) ==
  /\ pc[c] = "close" /\ mu = Free /\ scratch
  /\ scratch' = FALSE
  /\ mu' = c
  /\ rmTodo' = dirs
  /\ Goto(c, "remove")
  /\ UNCHANGED <<closed, rmCur, rmNames, seq, diskVars, req, dir, todo, calls, historyVars>>

(* Close forgets the scratch root, then RemoveAll lists it; the mutex is   *)
(* kept until Close returns.                                               *)
CloseScratch(c) ==
  /\ pc[c] = "close" /\ mu = Free /\ scratch
  /\ closed' = TRUE /\ scratch' = FALSE
  /\ mu' = c
  /\ rmTodo' = dirs
  /\ Goto(c, "remove")
  /\ UNCHANGED <<rmCur, rmNames, seq, diskVars, req, dir, todo, calls, historyVars>>

(* os.RemoveAll enters a subdirectory and reads its entries once.          *)
RemoveList(c) ==
  /\ pc[c] = "remove" /\ rmCur = 0
  /\ \E d \in rmTodo :
       /\ rmTodo' = rmTodo \ {d}
       /\ rmCur' = d
       /\ rmNames' = Present(d)
  /\ UNCHANGED <<mu, fieldVars, diskVars, callVars, calls, historyVars>>

(* os.RemoveAll unlinks one listed entry, or fails to and goes on.         *)
RemoveFile(c) ==
  /\ pc[c] = "remove"
  /\ \E n \in rmNames :
       LET f == <<rmCur, n>> IN
       /\ rmNames' = rmNames \ {n}
       /\ \/ partial' = partial \ {f} /\ full' = full \ {f}
          \/ UNCHANGED <<partial, full>>
  /\ UNCHANGED <<mu, fieldVars, root, dirs, callVars, rmTodo, rmCur, calls,
                 historyVars>>

(* os.RemoveAll removes the emptied subdirectory; a file created since it  *)
(* was listed, or an error of the file system, keeps it.                   *)
RemoveDir(c) ==
  /\ pc[c] = "remove" /\ rmCur # 0 /\ rmNames = {}
  /\ rmCur' = 0
  /\ \/ Present(rmCur) = {} /\ dirs' = dirs \ {rmCur}
     \/ UNCHANGED dirs
  /\ UNCHANGED <<mu, fieldVars, root, partial, full, callVars, rmTodo, rmNames,
                 calls, historyVars>>

(* os.RemoveAll removes the root itself; its error is Close's.             *)
RemoveRoot(c) ==
  /\ pc[c] = "remove" /\ rmCur = 0 /\ rmTodo = {}
  /\ \/ dirs = {} /\ root' = FALSE /\ Closed("nil")
     \/ UNCHANGED root /\ Closed("err")
  /\ mu' = Free
  /\ Goto(c, "idle")
  /\ UNCHANGED <<fieldVars, dirs, partial, full, req, dir, todo, rmVars, calls,
                 issued>>

(***************************************************************************)
(* Specification.  Every call that has begun keeps running (its goroutine  *)
(* is scheduled, file operations return); nobody is obliged to call.       *)
(***************************************************************************)
Step(c) ==
  \/ ReserveClosed(c) \/ Reserve(c) \/ ReserveFails(c)
  \/ CreateCopy(c) \/ FillCopy(c) \/ StatSidecar(c) \/ CopyFails(c) \/ Return(c)
  \/ CloseNothing(c) \/ CloseScratch(c)
  \/ RemoveList(c) \/ RemoveFile(c) \/ RemoveDir(c) \/ RemoveRoot(c)

Call(c) == BeginClose(c) \/ \E r \in Requests : BeginMaterialize(c, r)

Next == \E c \in Callers : Call(c) \/ Step(c)

Spec == Init /\ [][Next]_vars
FairSpec == Spec /\ \A c \in Callers : WF_vars(Step(c))

(***************************************************************************)
(* Properties                                                              *)
(***************************************************************************)
TypeOK ==
  /\ mu \in Callers \cup {Free}
  /\ closed \in BOOLEAN /\ scratch \in BOOLEAN /\ root \in BOOLEAN
  /\ seq \in Nat /\ dirs \subseteq Nat
  /\ partial \subseteq Nat \X Names /\ full \subseteq Nat \X Names
  /\ pc \in [Callers -> {"idle", "reserve", "create", "fill", "sidecar",
                         "close", "remove"}]
  /\ req \in [Callers -> Requests]
  /\ dir \in [Callers -> Nat]
  /\ todo \in [Callers -> Seq(Names)]
  /\ rmTodo \subseteq Nat /\ rmCur \in Nat /\ rmNames \subseteq Names
  /\ calls \in Nat
  /\ issued \subseteq Nat \X Requests
  /\ firstClose \in {"none", "nil", "err"} /\ lastClose \in {"none", "nil", "err"}

Copying(c) == pc[c] \in {"create", "fill", "sidecar"}

(* Two Materialize calls never write into the same scratch directory, and  *)
(* none writes into a directory whose copy a caller already holds: the     *)
(* claim of newScratchDir that materializations never collide.             *)
PrivateScratch ==
  \A c \in Callers : Copying(c) =>
    /\ \A e \in Callers \ {c} : Copying(e) => dir[e] # dir[c]
    /\ \A r \in Requests : <<dir[c], r>> \notin issued

(* Until the first Close, every path Materialize has returned names a      *)
(* finished copy of the database next to finished copies of exactly the    *)
(* sidecars the backup has: a missing -wal would show a stale view.        *)
IssuedComplete ==
  ~closed => \A i \in issued :
    \A n \in Names : /\ <<i[1], n>> \in full <=> n \in Tree[i[2]]
                     /\ <<i[1], n>> \notin partial

(* Once the first Close has returned nil the scratch tree is gone and      *)
(* stays gone, whatever the Materialize calls it overtook do afterwards:   *)
(* no private copy is left behind.                                         *)
CleanClose == firstClose = "nil" => dirs = {} /\ partial \cup full = {} /\ ~root

(* The documentation of Close: a Close that returns nil has removed the    *)
(* scratch directory.                                                      *)
NilCloseRemoved == lastClose = "nil" => dirs = {}

(* The store's view of the flags and of the disk: Close is over once a     *)
(* first one has returned, a copy is intact while its database and every   *)
(* sidecar of it is a finished file.                                       *)
Phase ==
  CASE ~closed -> "open"
    [] closed /\ firstClose = "none" -> "closing"
    [] closed /\ firstClose = "nil" -> "gone"
    [] closed /\ firstClose = "err" -> "leaked"
Issued == {i[1] : i \in issued}
Whole(i) == \A n \in Tree[i[2]] : <<i[1], n>> \in full
Intact == {i[1] : i \in {j \in issued : Whole(j)}}

(* DirFS implements the store its documentation promises: paths are        *)
(* distinct, copies stay intact until the first Close, and after a nil     *)
(* Close nothing is there.                                                 *)
Store == INSTANCE ScratchStore WITH
  Paths <- 1 .. MaxCalls, phase <- Phase, issued <- Issued, intact <- Intact
ImplementsStore == Store!Spec

(* Every call returns: no path through Materialize or Close keeps the      *)
(* mutex, and RemoveAll ends although files appear behind it.              *)
CallsReturn == \A c \in Callers : pc[c] # "idle" ~> pc[c] = "idle"
=============================================================================
