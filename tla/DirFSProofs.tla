---------------------------- MODULE DirFSProofs ----------------------------
(***************************************************************************)
(* Proofs about DirFS, for any set of callers and requests, any backup     *)
(* tree, any list of sidecars and any bound on the calls.                  *)
(***************************************************************************)
EXTENDS DirFS, FiniteSetTheorems, TLAPS

ToCopy(c) == {todo[c][i] : i \in 1 .. Len(todo[c])}

(* Numbers in use have been handed out by seq, so the next one is fresh;   *)
(* files lie in directories that exist.                                    *)
Numbered ==
  /\ \A d \in dirs : d <= seq
  /\ \A f \in partial \cup full : f[1] \in dirs
  /\ \A c \in Callers : Copying(c) => dir[c] <= seq
  /\ \A i \in issued : i[1] <= seq

(* A copy being written has a name to write.                               *)
TypeInv ==
  /\ TypeOK
  /\ \A c \in Callers : pc[c] \in {"create", "fill"} => todo[c] # <<>>

DistinctInv == Numbered /\ PrivateScratch

(* Who may be removing, and what the two flags say of the disk.            *)
CloseInv ==
  /\ \A c \in Callers : pc[c] = "remove" => mu = c /\ closed
  /\ closed /\ firstClose = "none" => mu # Free
  /\ firstClose # "none" => closed
  /\ ~closed /\ ~scratch => dirs = {} /\ ~root
  /\ CleanClose

(* How far a copy in progress has come while nobody has closed.            *)
Progress(c) ==
  /\ \A n \in Names :
       /\ <<dir[c], n>> \in full => n \in Tree[req[c]]
       /\ n \notin ToCopy(c) =>
            (<<dir[c], n>> \in full <=> n \in Tree[req[c]])
       /\ <<dir[c], n>> \in partial => pc[c] = "fill" /\ n = Head(todo[c])
  /\ pc[c] \in {"create", "fill"} => todo[c] # <<>> /\ Head(todo[c]) \in Tree[req[c]]
  /\ pc[c] = "fill" => <<dir[c], Head(todo[c])>> \in partial

ProgressInv ==
  /\ ~closed => \A c \in Callers : Copying(c) => Progress(c)
  /\ IssuedComplete
  /\ \A c \in Callers : pc[c] = "reserve" => Main \in Tree[req[c]]

-----------------------------------------------------------------------------
USE CallersAssumption

(* sidecarSuffixes is a list of names.                                     *)
LEMMA SidecarsType == /\ Sidecars \in Seq(Names)
                      /\ Main \in Names
                      /\ Tree \in [Requests -> SUBSET Names]
<1>1. Sidecars \in Seq({Sidecars[i] : i \in 1 .. Len(Sidecars)})
  BY TreeAssumption
<1>2. {Sidecars[i] : i \in 1 .. Len(Sidecars)} \subseteq Names
  BY DEF Names
<1>3. Len(Sidecars) \in Nat /\ Sidecars \in [1 .. Len(Sidecars) -> Names]
  BY <1>1, <1>2
<1>4. QED
  BY <1>3, TreeAssumption DEF Names

(* The list copyFile works through holds exactly the names.                *)
LEMMA CopyList == /\ <<Main>> \o Sidecars \in Seq(Names)
                  /\ <<Main>> \o Sidecars # <<>>
                  /\ Head(<<Main>> \o Sidecars) = Main
                  /\ \A n \in Names : \E i \in 1 .. Len(<<Main>> \o Sidecars) :
                       n = (<<Main>> \o Sidecars)[i]
<1> DEFINE s == <<Main>> \o Sidecars
<1>1. Len(Sidecars) \in Nat /\ Sidecars \in Seq(Names) /\ Main \in Names
  BY SidecarsType
<1>2. <<Main>> \in Seq(Names) /\ Len(<<Main>>) = 1 /\ <<Main>>[1] = Main
  BY <1>1
<1>3. s \in Seq(Names) /\ Len(s) = 1 + Len(Sidecars) /\ s[1] = Main
  BY <1>1, <1>2
<1>4. \A i \in 1 .. Len(Sidecars) : i + 1 \in 1 .. Len(s) /\ s[i + 1] = Sidecars[i]
  BY <1>1, <1>2, <1>3
<1>5. s # <<>> /\ Head(s) = Main
  BY <1>1, <1>3
<1>6. ASSUME NEW n \in Names
      PROVE  \E i \in 1 .. Len(s) : n = s[i]
  <2>1. CASE n = Main
    BY <2>1, <1>1, <1>3
  <2>2. CASE n # Main
    <3>1. PICK i \in 1 .. Len(Sidecars) : n = Sidecars[i]
      BY <2>2 DEF Names
    <3>2. i + 1 \in 1 .. Len(s) /\ n = s[i + 1]
      BY <3>1, <1>4
    <3>3. QED
      BY <3>2
  <2>3. QED
    BY <2>1, <2>2
<1>7. QED
  BY <1>3, <1>5, <1>6

(* What is left of a list after its head.                                  *)
LEMMA HeadTail ==
  ASSUME NEW S, NEW s \in Seq(S), s # <<>>
  PROVE  /\ Head(s) \in S
         /\ Tail(s) \in Seq(S)
         /\ \A n : (\E i \in 1 .. Len(s) : n = s[i])
                     => n = Head(s) \/ \E i \in 1 .. Len(Tail(s)) : n = Tail(s)[i]
<1>1. Len(s) \in Nat /\ Len(s) >= 1
  OBVIOUS
<1>2. Head(s) = s[1] /\ Head(s) \in S /\ Tail(s) \in Seq(S)
  BY <1>1
<1>3. Len(Tail(s)) = Len(s) - 1
  BY <1>1
<1>4. \A i \in 1 .. Len(Tail(s)) : Tail(s)[i] = s[i + 1]
  BY <1>1, <1>3
<1>5. ASSUME NEW n, NEW i \in 1 .. Len(s), n = s[i], n # Head(s)
      PROVE  \E j \in 1 .. Len(Tail(s)) : n = Tail(s)[j]
  <2>1. i # 1 /\ i - 1 \in 1 .. Len(Tail(s))
    BY <1>1, <1>2, <1>3, <1>5
  <2>2. Tail(s)[i - 1] = s[i]
    BY <1>4, <2>1
  <2>3. QED
    BY <2>1, <2>2, <1>5
<1>6. QED
  BY <1>2, <1>5

-----------------------------------------------------------------------------
(* Types.                                                                  *)
LEMMA TypeStep == TypeInv /\ [Next]_vars => TypeInv'
<1> SUFFICES ASSUME TypeInv, [Next]_vars PROVE TypeInv'
  OBVIOUS
<1> USE DEF fieldVars, diskVars, callVars, rmVars, historyVars
<1>1. ASSUME NEW c \in Callers, NEW r \in Requests, BeginMaterialize(c, r)
      PROVE  TypeInv'
  BY <1>1 DEF BeginMaterialize, Goto, TypeInv, TypeOK
<1>2. ASSUME NEW c \in Callers, BeginClose(c) PROVE TypeInv'
  BY <1>2 DEF BeginClose, Goto, TypeInv, TypeOK
<1>3. ASSUME NEW c \in Callers, ReserveClosed(c) PROVE TypeInv'
  BY <1>3 DEF ReserveClosed, Goto, TypeInv, TypeOK
<1>4. ASSUME NEW c \in Callers, Reserve(c) PROVE TypeInv'
  BY <1>4, CopyList DEF Reserve, Goto, TypeInv, TypeOK
<1>5. ASSUME NEW c \in Callers, ReserveFails(c) PROVE TypeInv'
  <2>1. /\ scratch' \in BOOLEAN
        /\ root' \in BOOLEAN
        /\ seq' \in Nat
        /\ pc' = [pc EXCEPT ![c] = "idle"]
        /\ UNCHANGED <<mu, closed, dirs, partial, full, req, dir, todo, rmTodo,
                       rmCur, rmNames, calls, issued, firstClose, lastClose>>
    <3>1. CASE ~scratch /\ UNCHANGED <<scratch, seq, root>>
      BY <1>5, <3>1 DEF ReserveFails, Goto, TypeInv, TypeOK
    <3>2. CASE scratch' = TRUE /\ root' = TRUE /\ seq' = seq + 1
      BY <1>5, <3>2 DEF ReserveFails, Goto, TypeInv, TypeOK
    <3>3. QED
      BY <1>5, <3>1, <3>2 DEF ReserveFails
  <2>2. QED
    BY <2>1 DEF TypeInv, TypeOK
<1>6. ASSUME NEW c \in Callers, CreateCopy(c) PROVE TypeInv'
  <2>1. todo[c] \in Seq(Names) /\ todo[c] # <<>>
    BY <1>6 DEF CreateCopy, TypeInv, TypeOK
  <2>2. Head(todo[c]) \in Names
    BY <2>1, HeadTail
  <2>3. QED
    BY <1>6, <2>2 DEF CreateCopy, Goto, TypeInv, TypeOK
<1>7. ASSUME NEW c \in Callers, FillCopy(c) PROVE TypeInv'
  <2>1. todo[c] \in Seq(Names) /\ todo[c] # <<>>
    BY <1>7 DEF FillCopy, TypeInv, TypeOK
  <2>2. Head(todo[c]) \in Names /\ Tail(todo[c]) \in Seq(Names)
    BY <2>1, HeadTail
  <2>3. QED
    BY <1>7, <2>2 DEF FillCopy, Goto, TypeInv, TypeOK
<1>8. ASSUME NEW c \in Callers, StatSidecar(c) PROVE TypeInv'
  <2>1. todo[c] \in Seq(Names) /\ todo[c] # <<>>
    BY <1>8 DEF StatSidecar, TypeInv, TypeOK
  <2>2. Tail(todo[c]) \in Seq(Names)
    BY <2>1, HeadTail
  <2>3. QED
    BY <1>8, <2>1, <2>2 DEF StatSidecar, Goto, TypeInv, TypeOK
<1>9. ASSUME NEW c \in Callers, CopyFails(c) PROVE TypeInv'
  BY <1>9 DEF CopyFails, Goto, Leave, TypeInv, TypeOK
<1>10. ASSUME NEW c \in Callers, Return(c) PROVE TypeInv'
  BY <1>10 DEF Return, Goto, Leave, TypeInv, TypeOK
<1>11. ASSUME NEW c \in Callers, CloseNothing(c) PROVE TypeInv'
  BY <1>11 DEF CloseNothing, Goto, Closed, TypeInv, TypeOK
<1>12. ASSUME NEW c \in Callers, CloseScratch(c) PROVE TypeInv'
  BY <1>12 DEF CloseScratch, Goto, TypeInv, TypeOK
<1>13. ASSUME NEW c \in Callers, RemoveList(c) PROVE TypeInv'
  BY <1>13 DEF RemoveList, Present, TypeInv, TypeOK
<1>14. ASSUME NEW c \in Callers, RemoveFile(c) PROVE TypeInv'
  BY <1>14 DEF RemoveFile, Goto, TypeInv, TypeOK
<1>15. ASSUME NEW c \in Callers, RemoveDir(c) PROVE TypeInv'
  BY <1>15 DEF RemoveDir, Present, TypeInv, TypeOK
<1>16. ASSUME NEW c \in Callers, RemoveRoot(c) PROVE TypeInv'
  BY <1>16 DEF RemoveRoot, Closed, Goto, TypeInv, TypeOK
<1>17. CASE UNCHANGED vars
  BY <1>17 DEF vars, TypeInv, TypeOK
<1>18. QED
  BY <1>1, <1>2, <1>3, <1>4, <1>5, <1>6, <1>7, <1>8, <1>9,
     <1>10, <1>11, <1>12, <1>13, <1>14, <1>15, <1>16, <1>17
     DEF Next, Call, Step

LEMMA InitTypeInv == Init => TypeInv
<1> SUFFICES ASSUME Init PROVE TypeInv
  OBVIOUS
<1>1. <<>> \in Seq(Names)
  OBVIOUS
<1>2. \A c \in Callers : pc[c] = "idle"
  BY DEF Init
<1>3. todo \in [Callers -> Seq(Names)]
  BY <1>1 DEF Init
<1>4. pc \in [Callers -> {"idle", "reserve", "create", "fill", "sidecar",
                          "close", "remove"}]
  BY DEF Init
<1>5. QED
  BY <1>2, <1>3, <1>4 DEF Init, TypeInv, TypeOK

(* Every variable of DirFS keeps its type.                                 *)
THEOREM Typing == Spec => []TypeOK
<1>1. TypeInv => TypeOK
  BY DEF TypeInv
<1>2. QED
  BY <1>1, InitTypeInv, TypeStep, PTL DEF Spec

-----------------------------------------------------------------------------
(* Directory numbers are never reused.                                     *)
LEMMA DistinctStep == TypeInv /\ DistinctInv /\ [Next]_vars => DistinctInv'
<1> SUFFICES ASSUME TypeInv, DistinctInv, [Next]_vars PROVE DistinctInv'
  OBVIOUS
<1> USE DEF fieldVars, diskVars, callVars, rmVars, historyVars
<1>1. ASSUME NEW c \in Callers, NEW r \in Requests, BeginMaterialize(c, r)
      PROVE  DistinctInv'
  BY <1>1 DEF BeginMaterialize, Goto, DistinctInv, Numbered, PrivateScratch,
              Copying, TypeInv, TypeOK
<1>2. ASSUME NEW c \in Callers, BeginClose(c) PROVE DistinctInv'
  BY <1>2 DEF BeginClose, Goto, DistinctInv, Numbered, PrivateScratch, Copying,
              TypeInv, TypeOK
<1>3. ASSUME NEW c \in Callers, ReserveClosed(c) PROVE DistinctInv'
  BY <1>3 DEF ReserveClosed, Goto, DistinctInv, Numbered, PrivateScratch,
              Copying, TypeInv, TypeOK
<1>4. ASSUME NEW c \in Callers, Reserve(c) PROVE DistinctInv'
  BY <1>4 DEF Reserve, Goto, DistinctInv, Numbered, PrivateScratch, Copying,
              TypeInv, TypeOK
<1>5. ASSUME NEW c \in Callers, ReserveFails(c) PROVE DistinctInv'
  BY <1>5 DEF ReserveFails, Goto, DistinctInv, Numbered, PrivateScratch,
              Copying, TypeInv, TypeOK
<1>6. ASSUME NEW c \in Callers, CreateCopy(c) PROVE DistinctInv'
  BY <1>6 DEF CreateCopy, Goto, DistinctInv, Numbered, PrivateScratch, Copying,
              TypeInv, TypeOK
<1>7. ASSUME NEW c \in Callers, FillCopy(c) PROVE DistinctInv'
  BY <1>7 DEF FillCopy, Goto, DistinctInv, Numbered, PrivateScratch, Copying,
              TypeInv, TypeOK
<1>8. ASSUME NEW c \in Callers, StatSidecar(c) PROVE DistinctInv'
  BY <1>8 DEF StatSidecar, Goto, DistinctInv, Numbered, PrivateScratch, Copying,
              TypeInv, TypeOK
<1>9. ASSUME NEW c \in Callers, CopyFails(c) PROVE DistinctInv'
  BY <1>9 DEF CopyFails, Goto, Leave, DistinctInv, Numbered, PrivateScratch,
              Copying, TypeInv, TypeOK
<1>10. ASSUME NEW c \in Callers, Return(c) PROVE DistinctInv'
  BY <1>10 DEF Return, Goto, Leave, DistinctInv, Numbered, PrivateScratch,
               Copying, TypeInv, TypeOK
<1>11. ASSUME NEW c \in Callers, CloseNothing(c) PROVE DistinctInv'
  BY <1>11 DEF CloseNothing, Goto, Closed, DistinctInv, Numbered,
               PrivateScratch, Copying, TypeInv, TypeOK
<1>12. ASSUME NEW c \in Callers, CloseScratch(c) PROVE DistinctInv'
  BY <1>12 DEF CloseScratch, Goto, DistinctInv, Numbered, PrivateScratch,
               Copying, TypeInv, TypeOK
<1>13. ASSUME NEW c \in Callers, RemoveList(c) PROVE DistinctInv'
  BY <1>13 DEF RemoveList, Present, DistinctInv, Numbered, PrivateScratch,
               Copying, TypeInv, TypeOK
<1>14. ASSUME NEW c \in Callers, RemoveFile(c) PROVE DistinctInv'
  BY <1>14 DEF RemoveFile, DistinctInv, Numbered, PrivateScratch, Copying,
               TypeInv, TypeOK
<1>15. ASSUME NEW c \in Callers, RemoveDir(c) PROVE DistinctInv'
  <2>1. ASSUME NEW f \in partial \cup full, Present(rmCur) = {}
        PROVE  f[1] # rmCur
    <3>1. f = <<f[1], f[2]>> /\ f[2] \in Names
      BY DEF TypeInv, TypeOK
    <3>2. QED
      BY <2>1, <3>1 DEF Present
  <2>2. \A f \in partial' \cup full' : f[1] \in dirs'
    BY <1>15, <2>1 DEF RemoveDir, DistinctInv, Numbered
  <2>3. QED
    BY <1>15, <2>2 DEF RemoveDir, DistinctInv, Numbered, PrivateScratch,
                       Copying,
                       TypeInv, TypeOK
<1>16. ASSUME NEW c \in Callers, RemoveRoot(c) PROVE DistinctInv'
  BY <1>16 DEF RemoveRoot, Goto, Closed, DistinctInv, Numbered, PrivateScratch,
               Copying, TypeInv, TypeOK
<1>17. CASE UNCHANGED vars
  BY <1>17 DEF vars, DistinctInv, Numbered, PrivateScratch, Copying, TypeInv,
               TypeOK
<1>18. QED
  BY <1>1, <1>2, <1>3, <1>4, <1>5, <1>6, <1>7, <1>8, <1>9,
     <1>10, <1>11, <1>12, <1>13, <1>14, <1>15, <1>16, <1>17
     DEF Next, Call, Step

(* Materializations never share a scratch directory, for any number of     *)
(* concurrent callers and calls.                                           *)
THEOREM MaterializeDistinct == Spec => []PrivateScratch
<1>1. Init => TypeInv /\ DistinctInv
  BY InitTypeInv DEF Init, DistinctInv, Numbered, PrivateScratch, Copying
<1>2. DistinctInv => PrivateScratch
  BY DEF DistinctInv
<1>3. QED
  BY <1>1, <1>2, TypeStep, DistinctStep, PTL DEF Spec

-----------------------------------------------------------------------------
(* A Close has the disk to itself, but for the copies already begun.       *)
LEMMA CloseStep == TypeInv /\ DistinctInv /\ CloseInv /\ [Next]_vars => CloseInv'
<1> SUFFICES ASSUME TypeInv, DistinctInv, CloseInv, [Next]_vars PROVE CloseInv'
  OBVIOUS
<1> USE DEF fieldVars, diskVars, callVars, rmVars, historyVars
<1>1. ASSUME NEW c \in Callers, NEW r \in Requests, BeginMaterialize(c, r)
      PROVE  CloseInv'
  BY <1>1 DEF BeginMaterialize, Goto, CloseInv, CleanClose, Numbered,
              DistinctInv, TypeInv, TypeOK
<1>2. ASSUME NEW c \in Callers, BeginClose(c) PROVE CloseInv'
  BY <1>2 DEF BeginClose, Goto, CloseInv, CleanClose, Numbered, DistinctInv,
              TypeInv, TypeOK
<1>3. ASSUME NEW c \in Callers, ReserveClosed(c) PROVE CloseInv'
  BY <1>3 DEF ReserveClosed, Goto, CloseInv, CleanClose, Numbered, DistinctInv,
              TypeInv, TypeOK
<1>4. ASSUME NEW c \in Callers, Reserve(c) PROVE CloseInv'
  BY <1>4 DEF Reserve, Goto, CloseInv, CleanClose, Numbered, DistinctInv,
              TypeInv, TypeOK
<1>5. ASSUME NEW c \in Callers, ReserveFails(c) PROVE CloseInv'
  BY <1>5 DEF ReserveFails, Goto, CloseInv, CleanClose, Numbered, DistinctInv,
              TypeInv, TypeOK
<1>6. ASSUME NEW c \in Callers, CreateCopy(c) PROVE CloseInv'
  BY <1>6 DEF CreateCopy, Goto, CloseInv, CleanClose, Numbered, DistinctInv,
              TypeInv, TypeOK
<1>7. ASSUME NEW c \in Callers, FillCopy(c) PROVE CloseInv'
  BY <1>7 DEF FillCopy, Goto, CloseInv, CleanClose, Numbered, DistinctInv,
              TypeInv, TypeOK
<1>8. ASSUME NEW c \in Callers, StatSidecar(c) PROVE CloseInv'
  BY <1>8 DEF StatSidecar, Goto, CloseInv, CleanClose, Numbered, DistinctInv,
              TypeInv, TypeOK
<1>9. ASSUME NEW c \in Callers, CopyFails(c) PROVE CloseInv'
  BY <1>9 DEF CopyFails, Goto, Leave, CloseInv, CleanClose, Numbered,
              DistinctInv, TypeInv, TypeOK
<1>10. ASSUME NEW c \in Callers, Return(c) PROVE CloseInv'
  BY <1>10 DEF Return, Goto, Leave, CloseInv, CleanClose, Numbered, DistinctInv,
               TypeInv, TypeOK
<1>11. ASSUME NEW c \in Callers, CloseNothing(c) PROVE CloseInv'
  BY <1>11 DEF CloseNothing, Goto, Closed, CloseInv, CleanClose, Numbered,
               DistinctInv, TypeInv, TypeOK
<1>12. ASSUME NEW c \in Callers, CloseScratch(c) PROVE CloseInv'
  BY <1>12 DEF CloseScratch, Goto, CloseInv, CleanClose, Numbered, DistinctInv,
               TypeInv, TypeOK
<1>13. ASSUME NEW c \in Callers, RemoveList(c) PROVE CloseInv'
  BY <1>13 DEF RemoveList, Present, CloseInv, CleanClose, Numbered, DistinctInv,
               TypeInv, TypeOK
<1>14. ASSUME NEW c \in Callers, RemoveFile(c) PROVE CloseInv'
  BY <1>14 DEF RemoveFile, CloseInv, CleanClose, Numbered, DistinctInv, TypeInv,
               TypeOK
<1>15. ASSUME NEW c \in Callers, RemoveDir(c) PROVE CloseInv'
  BY <1>15 DEF RemoveDir, Present, CloseInv, CleanClose, Numbered, DistinctInv,
               TypeInv, TypeOK
<1>16. ASSUME NEW c \in Callers, RemoveRoot(c) PROVE CloseInv'
  BY <1>16 DEF RemoveRoot, Goto, Closed, CloseInv, CleanClose, Numbered,
               DistinctInv, TypeInv, TypeOK
<1>17. CASE UNCHANGED vars
  BY <1>17 DEF vars, CloseInv, CleanClose, Numbered, DistinctInv, TypeInv,
               TypeOK
<1>18. QED
  BY <1>1, <1>2, <1>3, <1>4, <1>5, <1>6, <1>7, <1>8, <1>9,
     <1>10, <1>11, <1>12, <1>13, <1>14, <1>15, <1>16, <1>17
     DEF Next, Call, Step

(* After a first Close that returned nil no copy is left, whatever the     *)
(* other callers do and however the file system fails.                     *)
THEOREM CloseLeavesNothing == Spec => []CleanClose
<1>1. Init => TypeInv /\ DistinctInv /\ CloseInv
  BY InitTypeInv DEF Init, DistinctInv, Numbered, PrivateScratch, Copying,
                     CloseInv,
                     CleanClose
<1>2. CloseInv => CleanClose
  BY DEF CloseInv
<1>3. QED
  BY <1>1, <1>2, TypeStep, DistinctStep, CloseStep, PTL DEF Spec

-----------------------------------------------------------------------------
(* Taking the head off a caller's list takes just that name off it.        *)
LEMMA ToCopyTail ==
  ASSUME NEW c \in Callers, todo[c] \in Seq(Names), todo[c] # <<>>,
         todo'[c] = Tail(todo[c])
  PROVE  \A n \in Names : n \in ToCopy(c) => n = Head(todo[c]) \/ n \in ToCopy(c)'
<1> DEFINE s == todo[c]
<1>1. \A n : (\E i \in 1 .. Len(s) : n = s[i])
               => n = Head(s) \/ \E i \in 1 .. Len(Tail(s)) : n = Tail(s)[i]
  BY HeadTail
<1>2. QED
  BY <1>1 DEF ToCopy

(* A copy in progress has copied just what its list says it has.           *)
LEMMA ProgressStep == TypeInv /\ DistinctInv /\ CloseInv /\ ProgressInv /\ [Next]_vars
                       => ProgressInv'
<1> SUFFICES ASSUME TypeInv, DistinctInv, CloseInv, ProgressInv, [Next]_vars
             PROVE  ProgressInv'
  OBVIOUS
<1> USE DEF fieldVars, diskVars, callVars, rmVars, historyVars
<1>1. ASSUME NEW c \in Callers, NEW r \in Requests, BeginMaterialize(c, r)
      PROVE  ProgressInv'
  BY <1>1 DEF BeginMaterialize, Goto, ProgressInv, Progress, ToCopy,
              IssuedComplete, Copying, CloseInv, Numbered, PrivateScratch,
              DistinctInv, TypeInv, TypeOK
<1>2. ASSUME NEW c \in Callers, BeginClose(c) PROVE ProgressInv'
  BY <1>2 DEF BeginClose, Goto, ProgressInv, Progress, ToCopy, IssuedComplete,
              Copying, CloseInv, Numbered, PrivateScratch, DistinctInv, TypeInv,
              TypeOK
<1>3. ASSUME NEW c \in Callers, ReserveClosed(c) PROVE ProgressInv'
  BY <1>3 DEF ReserveClosed, Goto, ProgressInv, Progress, ToCopy,
              IssuedComplete, Copying, CloseInv, Numbered, PrivateScratch,
              DistinctInv, TypeInv, TypeOK
<1>4. ASSUME NEW c \in Callers, Reserve(c) PROVE ProgressInv'
  <2>1. \A n \in Names : <<seq', n>> \notin partial \cup full
    BY <1>4 DEF Reserve, DistinctInv, Numbered
  <2>2. /\ todo'[c] = <<Main>> \o Sidecars
        /\ dir'[c] = seq'
        /\ pc'[c] = "create"
        /\ partial' = partial /\ full' = full /\ req' = req
    BY <1>4 DEF Reserve, Goto, TypeInv, TypeOK
  <2>3. \A n \in Names : n \in ToCopy(c)'
    BY <2>2, CopyList DEF ToCopy
  <2>4. Head(todo'[c]) \in Tree[req[c]]
    BY <1>4, <2>2, CopyList DEF Reserve, ProgressInv
  <2>5. Progress(c)'
    BY <2>1, <2>2, <2>3, <2>4, CopyList DEF Progress
  <2>6. ASSUME NEW e \in Callers \ {c}, Copying(e)'
        PROVE  Progress(e)'
    <3>1. Copying(e) /\ Progress(e)
      BY <1>4, <2>6 DEF Reserve, Goto, Copying, ProgressInv, TypeInv, TypeOK
    <3>2. QED
      BY <1>4, <3>1 DEF Reserve, Goto, Progress, ToCopy, TypeInv, TypeOK
  <2>7. QED
    BY <1>4, <2>5, <2>6 DEF Reserve, Goto, ProgressInv, IssuedComplete, TypeInv,
                            TypeOK
<1>5. ASSUME NEW c \in Callers, ReserveFails(c) PROVE ProgressInv'
  BY <1>5 DEF ReserveFails, Goto, ProgressInv, Progress, ToCopy, IssuedComplete,
              Copying, CloseInv, Numbered, PrivateScratch, DistinctInv, TypeInv,
              TypeOK
<1>6. ASSUME NEW c \in Callers, CreateCopy(c) PROVE ProgressInv'
  BY <1>6 DEF CreateCopy, Goto, ProgressInv, Progress, ToCopy, IssuedComplete,
              Copying, CloseInv, Numbered, PrivateScratch, DistinctInv, TypeInv,
              TypeOK
<1>7. ASSUME NEW c \in Callers, FillCopy(c) PROVE ProgressInv'
  <2> DEFINE h == Head(todo[c])
  <2>1. todo[c] \in Seq(Names) /\ todo[c] # <<>> /\ h \in Names
    BY <1>7, HeadTail DEF FillCopy, TypeInv, TypeOK
  <2>2. /\ todo'[c] = Tail(todo[c])
        /\ dir'[c] = dir[c] /\ req' = req
        /\ pc'[c] = "sidecar"
        /\ partial' = partial \ {<<dir[c], h>>}
    BY <1>7 DEF FillCopy, Goto, TypeInv, TypeOK
  <2>3. \A n \in Names : n \in ToCopy(c) => n = h \/ n \in ToCopy(c)'
    BY <2>1, <2>2, ToCopyTail
  <2>4. ASSUME ~closed'
        PROVE  Progress(c)'
    <3>1. ~closed /\ Progress(c) /\ pc[c] = "fill"
      BY <1>7, <2>4 DEF FillCopy, ProgressInv, Copying
    <3>2. full' = full \cup {<<dir[c], h>>} /\ h \in Tree[req[c]]
      BY <1>7, <3>1 DEF FillCopy, Progress
    <3>3. QED
      BY <2>1, <2>2, <2>3, <3>1, <3>2 DEF Progress
  <2>5. ASSUME NEW e \in Callers \ {c}, ~closed', Copying(e)'
        PROVE  Progress(e)'
    <3>1. Copying(e) /\ Progress(e) /\ dir[e] # dir[c]
      BY <1>7, <2>5 DEF FillCopy, Goto, Copying, ProgressInv, DistinctInv,
                        PrivateScratch,
                     TypeInv, TypeOK
    <3>2. QED
      BY <1>7, <3>1 DEF FillCopy, Goto, Progress, ToCopy, TypeInv, TypeOK
  <2>6. ASSUME ~closed' PROVE IssuedComplete'
    <3>1. ~closed /\ pc[c] = "fill"
      BY <1>7, <2>6 DEF FillCopy
    <3>2. \A i \in issued : i[1] # dir[c]
      <4>1. \A i \in issued : i = <<i[1], i[2]>> /\ i[2] \in Requests
        BY DEF TypeInv, TypeOK
      <4>2. QED
        BY <3>1, <4>1 DEF DistinctInv, PrivateScratch, Copying
    <3>3. QED
      BY <1>7, <3>1, <3>2 DEF FillCopy, ProgressInv, IssuedComplete
  <2>7. QED
    BY <1>7, <2>4, <2>5, <2>6 DEF FillCopy, Goto, ProgressInv, IssuedComplete,
                                  TypeInv,
                              TypeOK
<1>8. ASSUME NEW c \in Callers, StatSidecar(c) PROVE ProgressInv'
  <2> DEFINE h == Head(todo[c])
  <2>1. todo[c] \in Seq(Names) /\ todo[c] # <<>> /\ h \in Names
    BY <1>8, HeadTail DEF StatSidecar, TypeInv, TypeOK
  <2>2. UNCHANGED <<closed, dir, req, partial, full, issued>>
    BY <1>8 DEF StatSidecar
  <2>3. ASSUME ~closed' PROVE Progress(c)'
    <3>1. Progress(c) /\ pc[c] = "sidecar"
      BY <1>8, <2>3 DEF StatSidecar, ProgressInv, Copying
    <3>2. CASE h \in Tree[req[c]]
      BY <1>8, <3>1, <3>2 DEF StatSidecar, Goto, Progress, ToCopy, TypeInv,
                              TypeOK
    <3>3. CASE h \notin Tree[req[c]]
      <4>1. pc' = pc /\ todo'[c] = Tail(todo[c])
        BY <1>8, <3>3 DEF StatSidecar, TypeInv, TypeOK
      <4>2. \A n \in Names : n \in ToCopy(c) => n = h \/ n \in ToCopy(c)'
        BY <2>1, <4>1, ToCopyTail
      <4>3. QED
        BY <2>1, <2>2, <3>1, <3>3, <4>1, <4>2 DEF Progress
    <3>4. QED
      BY <3>2, <3>3
  <2>4. ASSUME NEW e \in Callers \ {c}, ~closed', Copying(e)'
        PROVE  Progress(e)'
    <3>1. /\ Copying(e) /\ Progress(e)
          /\ pc'[e] = pc[e] /\ todo'[e] = todo[e]
      BY <1>8, <2>4 DEF StatSidecar, Goto, Copying, ProgressInv, TypeInv, TypeOK
    <3>2. QED
      BY <2>2, <3>1 DEF Progress, ToCopy
  <2>5. QED
    BY <1>8, <2>2, <2>3, <2>4 DEF StatSidecar, Goto, ProgressInv,
                                  IssuedComplete,
                              TypeInv, TypeOK
<1>9. ASSUME NEW c \in Callers, CopyFails(c) PROVE ProgressInv'
  BY <1>9 DEF CopyFails, Goto, Leave, ProgressInv, Progress, ToCopy,
              IssuedComplete, Copying, CloseInv, Numbered, PrivateScratch,
              DistinctInv, TypeInv, TypeOK
<1>10. ASSUME NEW c \in Callers, Return(c) PROVE ProgressInv'
  <2>1. pc[c] = "sidecar" /\ todo[c] = <<>>
    BY <1>10 DEF Return
  <2>2. UNCHANGED <<closed, req, partial, full>>
    BY <1>10 DEF Return
  <2>3. ASSUME ~closed' PROVE IssuedComplete'
    <3>1. Progress(c) /\ ToCopy(c) = {}
      BY <1>10, <2>1, <2>2, <2>3 DEF ProgressInv, Copying, ToCopy
    <3>2. \A n \in Names : /\ <<dir[c], n>> \in full <=> n \in Tree[req[c]]
                           /\ <<dir[c], n>> \notin partial
      BY <2>1, <3>1 DEF Progress
    <3>3. issued' = issued \cup {<<dir[c], req[c]>>}
      BY <1>10 DEF Return
    <3>4. ASSUME NEW i \in issued', NEW n \in Names
          PROVE  (<<i[1], n>> \in full <=> n \in Tree[i[2]]) /\ <<i[1], n>> \notin partial
      <4>1. CASE i \in issued
        BY <2>2, <2>3, <4>1 DEF ProgressInv, IssuedComplete
      <4>2. CASE i = <<dir[c], req[c]>>
        <5>1. i[1] = dir[c] /\ i[2] = req[c]
          BY <4>2
        <5>2. QED
          BY <3>2, <5>1
      <4>3. QED
        BY <3>3, <4>1, <4>2
    <3>5. QED
      BY <2>2, <3>4 DEF IssuedComplete
  <2>4. ASSUME NEW e \in Callers \ {c}, ~closed', Copying(e)'
        PROVE  Progress(e)'
    <3>1. Copying(e) /\ Progress(e) /\ dir[e] # dir[c]
      BY <1>10, <2>4 DEF Return, Leave, Goto, Copying, ProgressInv, DistinctInv,
                         PrivateScratch,
                     TypeInv, TypeOK
    <3>2. QED
      BY <1>10, <3>1 DEF Return, Leave, Goto, Progress, ToCopy, TypeInv, TypeOK
  <2>5. QED
    BY <1>10, <2>2, <2>3, <2>4 DEF Return, Leave, Goto, ProgressInv,
                                   IssuedComplete,
                              Copying, TypeInv, TypeOK
<1>11. ASSUME NEW c \in Callers, CloseNothing(c) PROVE ProgressInv'
  BY <1>11 DEF CloseNothing, Goto, Closed, ProgressInv, Progress, ToCopy,
               IssuedComplete, Copying, CloseInv, Numbered, PrivateScratch,
               DistinctInv, TypeInv, TypeOK
<1>12. ASSUME NEW c \in Callers, CloseScratch(c) PROVE ProgressInv'
  BY <1>12 DEF CloseScratch, Goto, ProgressInv, Progress, ToCopy,
               IssuedComplete, Copying, CloseInv, Numbered, PrivateScratch,
               DistinctInv, TypeInv, TypeOK
<1>13. ASSUME NEW c \in Callers, RemoveList(c) PROVE ProgressInv'
  BY <1>13 DEF RemoveList, Present, ProgressInv, Progress, ToCopy,
               IssuedComplete, Copying, CloseInv, Numbered, PrivateScratch,
               DistinctInv, TypeInv, TypeOK
<1>14. ASSUME NEW c \in Callers, RemoveFile(c) PROVE ProgressInv'
  BY <1>14 DEF RemoveFile, ProgressInv, Progress, ToCopy, IssuedComplete,
               Copying, CloseInv, Numbered, PrivateScratch, DistinctInv,
               TypeInv, TypeOK
<1>15. ASSUME NEW c \in Callers, RemoveDir(c) PROVE ProgressInv'
  BY <1>15 DEF RemoveDir, Present, ProgressInv, Progress, ToCopy,
               IssuedComplete, Copying, CloseInv, Numbered, PrivateScratch,
               DistinctInv, TypeInv, TypeOK
<1>16. ASSUME NEW c \in Callers, RemoveRoot(c) PROVE ProgressInv'
  BY <1>16 DEF RemoveRoot, Goto, Closed, ProgressInv, Progress, ToCopy,
               IssuedComplete, Copying, CloseInv, Numbered, PrivateScratch,
               DistinctInv, TypeInv, TypeOK
<1>17. CASE UNCHANGED vars
  BY <1>17 DEF vars, ProgressInv, Progress, ToCopy, IssuedComplete, Copying,
               CloseInv, Numbered, PrivateScratch, DistinctInv, TypeInv, TypeOK
<1>18. QED
  BY <1>1, <1>2, <1>3, <1>4, <1>5, <1>6, <1>7, <1>8, <1>9,
     <1>10, <1>11, <1>12, <1>13, <1>14, <1>15, <1>16, <1>17
     DEF Next, Call, Step

(* Every path returned before the first Close names a complete copy.       *)
THEOREM IssuedCopiesComplete == Spec => []IssuedComplete
<1>1. Init => TypeInv /\ DistinctInv /\ CloseInv /\ ProgressInv
  BY InitTypeInv DEF Init, DistinctInv, Numbered, PrivateScratch, Copying,
                     CloseInv,
                     CleanClose, ProgressInv, IssuedComplete
<1>2. ProgressInv => IssuedComplete
  BY DEF ProgressInv
<1>3. QED
  BY <1>1, <1>2, TypeStep, DistinctStep, CloseStep, ProgressStep, PTL DEF Spec

-----------------------------------------------------------------------------
(* DirFS implements ScratchStore.                                          *)

Reserving == {c \in Callers : pc[c] = "reserve"}

(* Every directory number is paid for by a call of Materialize, and so will *)
(* be that of a caller about to reserve one: the numbers are Paths.        *)
CountInv ==
  /\ IsFiniteSet(Reserving)
  /\ seq + Cardinality(Reserving) <= calls /\ calls <= MaxCalls
  /\ \A c \in Callers : Copying(c) => dir[c] >= 1

(* What is copied is a database that exists.                               *)
MainInv ==
  /\ \A c \in Callers : pc[c] = "reserve" \/ Copying(c) => Main \in Tree[req[c]]
  /\ \A i \in issued : Main \in Tree[i[2]]

(* The first Close leaves no scratch root to a later one.                  *)
FirstInv ==
  /\ closed => ~scratch
  /\ \A c \in Callers : pc[c] = "remove" => firstClose = "none"

StoreInv == /\ TypeInv /\ DistinctInv /\ CloseInv
            /\ CountInv /\ MainInv /\ FirstInv

LEMMA FirstStep == TypeInv /\ CloseInv /\ FirstInv /\ [Next]_vars => FirstInv'
<1> SUFFICES ASSUME TypeInv, CloseInv, FirstInv, [Next]_vars PROVE FirstInv'
  OBVIOUS
<1> USE DEF fieldVars, diskVars, callVars, rmVars, historyVars, FirstInv, Goto
<1>. pc \in [Callers -> {"idle", "reserve", "create", "fill", "sidecar", "close", "remove"}]
  BY DEF TypeInv, TypeOK
<1>1. ASSUME NEW c \in Callers, CloseNothing(c) PROVE FirstInv'
  <2>1. \A e \in Callers : pc'[e] # "remove"
    BY <1>1 DEF CloseNothing, CloseInv
  <2> QED
    BY <1>1, <2>1 DEF CloseNothing
<1>2. ASSUME NEW c \in Callers, CloseScratch(c) PROVE FirstInv'
  BY <1>2 DEF CloseScratch, CloseInv
<1>3. ASSUME NEW c \in Callers, RemoveRoot(c) PROVE FirstInv'
  <2>1. \A e \in Callers : pc'[e] # "remove"
    BY <1>3 DEF RemoveRoot, CloseInv
  <2> QED
    BY <1>3, <2>1 DEF RemoveRoot
<1>4. ASSUME NEW c \in Callers, Reserve(c) \/ ReserveFails(c) PROVE FirstInv'
  BY <1>4 DEF Reserve, ReserveFails
<1>5. ASSUME NEW c \in Callers,
             \/ Call(c) \/ ReserveClosed(c) \/ CreateCopy(c) \/ FillCopy(c)
             \/ StatSidecar(c) \/ CopyFails(c) \/ Return(c)
             \/ RemoveList(c) \/ RemoveFile(c) \/ RemoveDir(c)
      PROVE FirstInv'
  BY <1>5 DEF Call, BeginMaterialize, BeginClose, ReserveClosed, CreateCopy, FillCopy,
              StatSidecar, CopyFails, Return, Leave, RemoveList, RemoveFile, RemoveDir
<1>6. CASE UNCHANGED vars
  BY <1>6 DEF vars
<1> QED
  BY <1>1, <1>2, <1>3, <1>4, <1>5, <1>6 DEF Next, Step

LEMMA MainStep == TypeInv /\ MainInv /\ [Next]_vars => MainInv'
<1> SUFFICES ASSUME TypeInv, MainInv, [Next]_vars PROVE MainInv'
  OBVIOUS
<1> USE DEF fieldVars, diskVars, callVars, rmVars, historyVars, MainInv, Goto, Copying
<1>. /\ pc \in [Callers -> {"idle", "reserve", "create", "fill", "sidecar", "close", "remove"}]
     /\ req \in [Callers -> Requests]
  BY DEF TypeInv, TypeOK
<1>1. ASSUME NEW c \in Callers, NEW r \in Requests, BeginMaterialize(c, r) PROVE MainInv'
  BY <1>1 DEF BeginMaterialize
<1>2. ASSUME NEW c \in Callers, Return(c) PROVE MainInv'
  <2>1. /\ issued' = issued \cup {<<dir[c], req[c]>>} /\ req' = req
        /\ Main \in Tree[req[c]]
        /\ \A e \in Callers : pc'[e] = pc[e] \/ pc'[e] = "idle"
    BY <1>2 DEF Return, Leave
  <2> QED
    BY <2>1
<1>3. ASSUME NEW c \in Callers,
             \/ BeginClose(c) \/ ReserveClosed(c) \/ Reserve(c) \/ ReserveFails(c)
             \/ CreateCopy(c) \/ FillCopy(c) \/ StatSidecar(c) \/ CopyFails(c)
             \/ CloseNothing(c) \/ CloseScratch(c)
             \/ RemoveList(c) \/ RemoveFile(c) \/ RemoveDir(c) \/ RemoveRoot(c)
      PROVE MainInv'
  <2>1. UNCHANGED <<req, issued>>
    BY <1>3 DEF BeginClose, ReserveClosed, Reserve, ReserveFails, CreateCopy, FillCopy,
                StatSidecar, CopyFails, Leave, CloseNothing, CloseScratch,
                RemoveList, RemoveFile, RemoveDir, RemoveRoot
  <2>2. \A e \in Callers : pc'[e] = "reserve" \/ Copying(e)' => pc[e] = "reserve" \/ Copying(e)
    BY <1>3 DEF BeginClose, ReserveClosed, Reserve, ReserveFails, CreateCopy, FillCopy,
                StatSidecar, CopyFails, Leave, CloseNothing, CloseScratch,
                RemoveList, RemoveFile, RemoveDir, RemoveRoot
  <2> QED
    BY <2>1, <2>2
<1>4. CASE UNCHANGED vars
  BY <1>4 DEF vars
<1> QED
  BY <1>1, <1>2, <1>3, <1>4 DEF Next, Call, Step

LEMMA CountStep == TypeInv /\ CountInv /\ [Next]_vars => CountInv'
<1> SUFFICES ASSUME TypeInv, CountInv, [Next]_vars PROVE CountInv'
  OBVIOUS
<1> USE DEF fieldVars, diskVars, callVars, rmVars, historyVars, Goto
<1>. /\ pc \in [Callers -> {"idle", "reserve", "create", "fill", "sidecar", "close", "remove"}]
     /\ dir \in [Callers -> Nat] /\ seq \in Nat /\ calls \in Nat /\ MaxCalls \in Nat
  BY MaxCallsAssumption DEF TypeInv, TypeOK
<1>. IsFiniteSet(Reserving) /\ Cardinality(Reserving) \in Nat
  BY FS_CardinalityType DEF CountInv
<1>1. ASSUME Reserving' = Reserving, UNCHANGED seq, calls' \in Nat, calls <= calls', calls' <= MaxCalls,
             \A e \in Callers : Copying(e)' => Copying(e) /\ dir'[e] = dir[e]
      PROVE  CountInv'
  BY <1>1 DEF CountInv
<1>2. ASSUME NEW c \in Callers, NEW r \in Requests, BeginMaterialize(c, r) PROVE CountInv'
  <2>1. /\ pc[c] = "idle" /\ calls' = calls + 1 /\ calls' <= MaxCalls /\ seq' = seq
        /\ \A e \in Callers : Copying(e)' => Copying(e) /\ dir'[e] = dir[e]
    BY <1>2 DEF BeginMaterialize, Copying
  <2>2. CASE Main \in Tree[r]
    <3>1. Reserving' = Reserving \cup {c} /\ c \notin Reserving
      BY <1>2, <2>2 DEF BeginMaterialize, Reserving
    <3>2. IsFiniteSet(Reserving') /\ Cardinality(Reserving') = Cardinality(Reserving) + 1
      BY <3>1, FS_AddElement
    <3> QED
      BY <2>1, <3>2 DEF CountInv
  <2>3. CASE Main \notin Tree[r]
    <3>1. Reserving' = Reserving
      BY <1>2, <2>3 DEF BeginMaterialize, Reserving
    <3> QED
      BY <1>1, <2>1, <3>1
  <2> QED
    BY <2>2, <2>3
<1>3. ASSUME NEW c \in Callers, Reserve(c) \/ ReserveFails(c) \/ ReserveClosed(c) PROVE CountInv'
  <2>1. Reserving' = Reserving \ {c} /\ c \in Reserving
    BY <1>3 DEF Reserve, ReserveFails, ReserveClosed, Reserving
  <2>2. IsFiniteSet(Reserving') /\ Cardinality(Reserving') = Cardinality(Reserving) - 1
    BY <2>1, FS_RemoveElement
  <2>3. calls' = calls /\ seq' \in {seq, seq + 1}
    BY <1>3 DEF Reserve, ReserveFails, ReserveClosed
  <2>4. \A e \in Callers : Copying(e)' => dir'[e] >= 1
    BY <1>3 DEF Reserve, ReserveFails, ReserveClosed, Copying, CountInv
  <2> QED
    BY <2>2, <2>3, <2>4 DEF CountInv
<1>4. ASSUME NEW c \in Callers, BeginClose(c) PROVE CountInv'
  BY <1>1, <1>4 DEF BeginClose, Reserving, Copying
<1>5. ASSUME NEW c \in Callers,
             \/ CreateCopy(c) \/ FillCopy(c) \/ StatSidecar(c) \/ CopyFails(c) \/ Return(c)
             \/ CloseNothing(c) \/ CloseScratch(c)
             \/ RemoveList(c) \/ RemoveFile(c) \/ RemoveDir(c) \/ RemoveRoot(c)
      PROVE CountInv'
  <2>1. UNCHANGED <<seq, calls>>
    BY <1>5 DEF CreateCopy, FillCopy, StatSidecar, CopyFails, Return, CloseNothing,
                CloseScratch, RemoveList, RemoveFile, RemoveDir, RemoveRoot
  <2>2. Reserving' = Reserving
    BY <1>5 DEF CreateCopy, FillCopy, StatSidecar, CopyFails, Return, Leave, CloseNothing,
                CloseScratch, RemoveList, RemoveFile, RemoveDir, RemoveRoot, Reserving
  <2>3. \A e \in Callers : Copying(e)' => Copying(e) /\ dir'[e] = dir[e]
    BY <1>5 DEF CreateCopy, FillCopy, StatSidecar, CopyFails, Return, Leave, CloseNothing,
                CloseScratch, RemoveList, RemoveFile, RemoveDir, RemoveRoot, Copying
  <2> QED
    BY <1>1, <2>1, <2>2, <2>3 DEF CountInv
<1>6. CASE UNCHANGED vars
  BY <1>1, <1>6 DEF vars, Reserving, Copying, CountInv
<1> QED
  BY <1>2, <1>3, <1>4, <1>5, <1>6 DEF Next, Call, Step

LEMMA InitStore == Init => StoreInv
<1> SUFFICES ASSUME Init PROVE StoreInv
  OBVIOUS
<1>1. TypeInv /\ DistinctInv /\ CloseInv
  BY InitTypeInv DEF Init, DistinctInv, Numbered, PrivateScratch, Copying, CloseInv, CleanClose
<1>2. Reserving = {}
  BY DEF Init, Reserving
<1>3. IsFiniteSet(Reserving) /\ Cardinality(Reserving) = 0
  BY <1>2, FS_EmptySet
<1>4. CountInv
  BY <1>3, MaxCallsAssumption DEF Init, CountInv, Copying
<1>5. MainInv /\ FirstInv
  BY DEF Init, MainInv, FirstInv, Copying
<1> QED
  BY <1>1, <1>4, <1>5 DEF StoreInv

LEMMA StoreInvariant == Spec => []StoreInv
<1>1. StoreInv /\ [Next]_vars => StoreInv'
  BY TypeStep, DistinctStep, CloseStep, CountStep, MainStep, FirstStep DEF StoreInv
<1> QED
  BY InitStore, <1>1, PTL DEF Spec

(* The store's phase, case by case.                                        *)
LEMMA PhaseIs ==
  /\ ~closed => Phase = "open"
  /\ closed /\ firstClose = "none" => Phase = "closing"
  /\ closed /\ firstClose = "nil" => Phase = "gone"
  /\ closed /\ firstClose = "err" => Phase = "leaked"
<1>1. ~closed => Phase = "open"
  BY Zenon DEF Phase
<1>2. closed /\ firstClose = "none" => Phase = "closing"
  BY Zenon DEF Phase
<1>3. closed /\ firstClose = "nil" => Phase = "gone"
  BY Zenon DEF Phase
<1>4. closed /\ firstClose = "err" => Phase = "leaked"
  BY Zenon DEF Phase
<1> QED
  BY <1>1, <1>2, <1>3, <1>4

LEMMA PhaseIsNext ==
  /\ ~closed' => Phase' = "open"
  /\ closed' /\ firstClose' = "none" => Phase' = "closing"
  /\ closed' /\ firstClose' = "nil" => Phase' = "gone"
  /\ closed' /\ firstClose' = "err" => Phase' = "leaked"
<1>1. ~closed' => Phase' = "open"
  BY Zenon DEF Phase
<1>2. closed' /\ firstClose' = "none" => Phase' = "closing"
  BY Zenon DEF Phase
<1>3. closed' /\ firstClose' = "nil" => Phase' = "gone"
  BY Zenon DEF Phase
<1>4. closed' /\ firstClose' = "err" => Phase' = "leaked"
  BY Zenon DEF Phase
<1> QED
  BY <1>1, <1>2, <1>3, <1>4

(* Without finished files no copy is intact.                               *)
LEMMA NothingIntact == StoreInv /\ full = {} => Intact = {}
BY DEF StoreInv, MainInv, Intact, Whole

LEMMA NoDirectories == StoreInv /\ dirs = {} => Intact = {}
<1>1. StoreInv /\ dirs = {} => full = {}
  BY DEF StoreInv, DistinctInv, Numbered
<1> QED
  BY <1>1, NothingIntact

(* A path the store has handed out is not one being copied to.             *)
LEMMA NotIssued ==
  ASSUME StoreInv, NEW c \in Callers, Copying(c)
  PROVE  dir[c] \notin Issued /\ dir[c] \in 1 .. MaxCalls
<1>1. \A i \in issued : i = <<i[1], i[2]>> /\ i[2] \in Requests
  BY DEF StoreInv, TypeInv, TypeOK
<1>2. \A r \in Requests : <<dir[c], r>> \notin issued
  BY DEF StoreInv, DistinctInv, PrivateScratch
<1>3. dir[c] \in Nat /\ seq \in Nat /\ calls \in Nat /\ MaxCalls \in Nat
  BY MaxCallsAssumption DEF StoreInv, TypeInv, TypeOK
<1>4. 1 <= dir[c] /\ dir[c] <= seq
  BY DEF StoreInv, CountInv, DistinctInv, Numbered
<1>5. seq <= calls /\ calls <= MaxCalls
  BY <1>3, FS_CardinalityType DEF StoreInv, CountInv
<1> QED
  BY <1>1, <1>2, <1>3, <1>4, <1>5 DEF Issued

(* One more copy adds one more path.                                       *)
LEMMA AddPath ==
  ASSUME NEW S, NEW d, NEW r
  PROVE  {i[1] : i \in S \cup {<<d, r>>}} = {i[1] : i \in S} \cup {d}
<1>1. <<d, r>>[1] = d
  OBVIOUS
<1>2. ASSUME NEW x
      PROVE  (\E i \in S \cup {<<d, r>>} : x = i[1]) <=> (\E i \in S : x = i[1]) \/ x = d
  <2>1. (\E i \in S \cup {<<d, r>>} : x = i[1])
           <=> (\E i \in S : x = i[1]) \/ (\E i \in {<<d, r>>} : x = i[1])
    BY Zenon
  <2>2. (\E i \in {<<d, r>>} : x = i[1]) <=> x = <<d, r>>[1]
    BY Zenon
  <2> QED
    BY <1>1, <2>1, <2>2, Zenon
<1> QED
  BY <1>2, Zenon

LEMMA ReturnIssues ==
  ASSUME StoreInv, ProgressInv, NEW c \in Callers, Return(c)
  PROVE  Store!Issue(dir[c])
<1>1. /\ Copying(c) /\ issued' = issued \cup {<<dir[c], req[c]>>}
      /\ UNCHANGED <<closed, firstClose, full>>
  BY DEF Return, Copying, fieldVars, diskVars
<1>2. dir[c] \notin Issued
  BY <1>1, NotIssued
<1>3. Issued' = Issued \cup {dir[c]}
  BY <1>1, AddPath, Zenon DEF Issued
<1>4. \A i : Whole(i)' <=> Whole(i)
  BY <1>1 DEF Whole
<1>5. IF Whole(<<dir[c], req[c]>>) THEN Intact' = Intact \cup {dir[c]} ELSE Intact' = Intact
  <2> DEFINE whole == {j \in issued : Whole(j)}
             last == <<dir[c], req[c]>>
  <2>1. Intact' = {i[1] : i \in {j \in issued' : Whole(j)}}
    BY <1>4 DEF Intact
  <2>2. CASE Whole(last)
    <3>1. {j \in issued' : Whole(j)} = whole \cup {last}
      BY <1>1, <2>2
    <3>2. {i[1] : i \in whole \cup {last}} = {i[1] : i \in whole} \cup {dir[c]}
      BY AddPath
    <3> QED
      BY <2>1, <2>2, <3>1, <3>2, Zenon DEF Intact
  <2>3. CASE ~Whole(last)
    <3>1. {j \in issued' : Whole(j)} = whole
      BY <1>1, <2>3
    <3> QED
      BY <2>1, <2>3, <3>1, Zenon DEF Intact
  <2> QED
    BY <2>2, <2>3
<1>6. UNCHANGED Phase
  BY <1>1 DEF Phase
<1>7. closed \in BOOLEAN /\ firstClose \in {"none", "nil", "err"}
  BY DEF StoreInv, TypeInv, TypeOK
<1>8. ASSUME Phase = "open" PROVE Whole(<<dir[c], req[c]>>)
  <2>1. ~closed
    BY <1>7, <1>8, PhaseIs
  <2>2. Progress(c) /\ ToCopy(c) = {}
    BY <1>1, <2>1 DEF ProgressInv, Return, ToCopy
  <2>3. Tree[req[c]] \subseteq Names
    BY SidecarsType DEF StoreInv, TypeInv, TypeOK
  <2> QED
    BY <2>2, <2>3 DEF Progress, Whole
<1>9. ASSUME Phase = "gone" PROVE ~Whole(<<dir[c], req[c]>>)
  <2>1. firstClose = "nil"
    BY <1>7, <1>9, PhaseIs
  <2>2. full = {}
    BY <2>1 DEF StoreInv, CloseInv, CleanClose
  <2>3. Main \in Tree[req[c]]
    BY <1>1 DEF StoreInv, MainInv
  <2> QED
    BY <2>2, <2>3 DEF Whole
<1>10. Intact \subseteq Issued
  BY DEF Intact, Issued
<1> QED
  BY <1>2, <1>3, <1>5, <1>6, <1>8, <1>9, <1>10 DEF Store!Issue

LEMMA StoreStep ==
  StoreInv /\ ProgressInv /\ [Next]_vars => [Store!Next]_(Store!vars)
<1> SUFFICES ASSUME StoreInv, ProgressInv, [Next]_vars
             PROVE  Store!Next \/ UNCHANGED Store!vars
  OBVIOUS
<1> USE DEF fieldVars, diskVars, callVars, rmVars, historyVars
<1>. closed \in BOOLEAN /\ firstClose \in {"none", "nil", "err"}
  BY DEF StoreInv, TypeInv, TypeOK
<1>1. ASSUME UNCHANGED <<closed, firstClose, issued, full>>
      PROVE  UNCHANGED Store!vars
  BY <1>1 DEF Store!vars, Phase, Issued, Intact, Whole
<1>2. ASSUME NEW c \in Callers,
             \/ Call(c) \/ ReserveClosed(c) \/ Reserve(c) \/ ReserveFails(c) \/ CreateCopy(c)
             \/ StatSidecar(c) \/ CopyFails(c) \/ RemoveList(c) \/ RemoveDir(c)
      PROVE UNCHANGED Store!vars
  BY <1>1, <1>2 DEF Call, BeginMaterialize, BeginClose, ReserveClosed, Reserve, ReserveFails,
                    CreateCopy, StatSidecar, CopyFails, RemoveList, RemoveDir
<1>3. ASSUME NEW c \in Callers, FillCopy(c)
      PROVE UNCHANGED Store!vars
  <2>1. Copying(c) /\ UNCHANGED <<closed, firstClose, issued>>
    BY <1>3 DEF FillCopy, Copying
  <2>2. \A i \in issued : i[1] # dir[c]
    BY <2>1, NotIssued DEF Issued
  <2>3. \A i \in issued : Whole(i)' <=> Whole(i)
    BY <1>3, <2>2 DEF FillCopy, Whole
  <2>4. Intact' = Intact
    BY <2>1, <2>3 DEF Intact
  <2>5. Phase' = Phase /\ Issued' = Issued
    BY <2>1 DEF Phase, Issued
  <2> QED
    BY <2>4, <2>5 DEF Store!vars
<1>4. ASSUME NEW c \in Callers, Return(c)
      PROVE Store!Next
  <2>1. Copying(c)
    BY <1>4 DEF Return, Copying
  <2> QED
    BY <1>4, <2>1, ReturnIssues, NotIssued DEF Store!Next
<1>5. ASSUME NEW c \in Callers, CloseNothing(c)
      PROVE Store!Next \/ UNCHANGED Store!vars
  <2>1. /\ closed' = TRUE /\ UNCHANGED <<issued, full>>
        /\ firstClose' = IF firstClose = "none" THEN "nil" ELSE firstClose
        /\ mu = Free /\ ~scratch
    BY <1>5 DEF CloseNothing, Closed
  <2>2. Issued' = Issued /\ Intact' = Intact
    BY <2>1 DEF Issued, Intact, Whole
  <2>3. CASE ~closed
    <3>1. firstClose = "none" /\ dirs = {}
      BY <2>1, <2>3 DEF StoreInv, CloseInv
    <3>2. Phase = "open" /\ Intact = {} /\ Phase' = "gone"
      BY <2>1, <2>3, <3>1, PhaseIs, PhaseIsNext, NoDirectories
    <3> QED
      BY <2>2, <3>2 DEF Store!Next, Store!EndClose
  <2>4. CASE closed
    <3>1. firstClose # "none"
      BY <2>1, <2>4 DEF StoreInv, CloseInv
    <3> QED
      BY <1>1, <2>1, <2>4, <3>1
  <2> QED
    BY <2>3, <2>4
<1>6. ASSUME NEW c \in Callers, CloseScratch(c)
      PROVE Store!Next
  <2>1. /\ closed' = TRUE /\ UNCHANGED <<issued, full, firstClose>> /\ scratch
    BY <1>6 DEF CloseScratch
  <2>2. ~closed /\ firstClose = "none"
    BY <2>1 DEF StoreInv, FirstInv, CloseInv
  <2>3. Phase = "open" /\ Phase' = "closing"
    BY <2>1, <2>2, PhaseIs, PhaseIsNext
  <2>4. Issued' = Issued /\ Intact' = Intact
    BY <2>1 DEF Issued, Intact, Whole
  <2> QED
    BY <2>3, <2>4 DEF Store!Next, Store!BeginClose
<1>7. ASSUME NEW c \in Callers, RemoveFile(c)
      PROVE Store!Next
  <2>1. full' \subseteq full /\ UNCHANGED <<closed, firstClose, issued>> /\ pc[c] = "remove"
    BY <1>7 DEF RemoveFile
  <2>2. Phase = "closing" /\ Phase' = Phase
    BY <2>1, PhaseIs, PhaseIsNext DEF StoreInv, FirstInv, CloseInv
  <2>3. Issued' = Issued
    BY <2>1 DEF Issued
  <2>4. \A i : Whole(i)' => Whole(i)
    BY <2>1 DEF Whole
  <2>5. Intact' \subseteq Intact
    BY <2>1, <2>4 DEF Intact
  <2> QED
    BY <2>2, <2>3, <2>5 DEF Store!Next, Store!Remove
<1>8. ASSUME NEW c \in Callers, RemoveRoot(c)
      PROVE Store!Next
  <2>1. UNCHANGED <<closed, issued, full>> /\ pc[c] = "remove"
    BY <1>8 DEF RemoveRoot
  <2>2. closed /\ firstClose = "none"
    BY <2>1 DEF StoreInv, FirstInv, CloseInv
  <2>3. Phase = "closing"
    BY <2>2, PhaseIs
  <2>4. Issued' = Issued /\ Intact' = Intact
    BY <2>1 DEF Issued, Intact, Whole
  <2>5. (dirs = {} /\ firstClose' = "nil") \/ firstClose' = "err"
    BY <1>8, <2>2 DEF RemoveRoot, Closed
  <2>6. (Intact = {} /\ Phase' = "gone") \/ Phase' = "leaked"
    BY <2>1, <2>2, <2>5, PhaseIsNext, NoDirectories
  <2> QED
    BY <2>3, <2>4, <2>6 DEF Store!Next, Store!EndClose
<1>9. CASE UNCHANGED vars
  BY <1>1, <1>9 DEF vars
<1> QED
  BY <1>2, <1>3, <1>4, <1>5, <1>6, <1>7, <1>8, <1>9 DEF Next, Step

LEMMA InitScratch == Init => Store!Init
<1> SUFFICES ASSUME Init PROVE Store!Init
  OBVIOUS
<1>1. ~closed /\ issued = {}
  BY DEF Init
<1>2. Phase = "open"
  BY <1>1, PhaseIs
<1>3. Issued = {} /\ Intact = {}
  BY <1>1 DEF Issued, Intact
<1> QED
  BY <1>2, <1>3 DEF Store!Init

(* However many callers share it and whenever one of them closes it, a     *)
(* DirFS is the store its documentation promises: each path is handed out   *)
(* once, names a whole copy as long as nobody has closed, and a first Close *)
(* that returns nil has removed every copy for good.                       *)
THEOREM StoreImplemented == Spec => ImplementsStore
<1>1. Init => ProgressInv
  BY DEF Init, ProgressInv, IssuedComplete, Copying
<1>2. StoreInv /\ ProgressInv /\ [Next]_vars => ProgressInv'
  BY ProgressStep DEF StoreInv
<1>3. Spec => []ProgressInv
  BY StoreInvariant, <1>1, <1>2, PTL DEF Spec
<1> QED
  BY StoreInvariant, <1>3, InitScratch, StoreStep, PTL DEF Spec, ImplementsStore, Store!Spec
=============================================================================
