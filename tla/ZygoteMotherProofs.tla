------------------------- MODULE ZygoteMotherProofs -------------------------
(***************************************************************************)
(* Proofs about ZygoteMother, for every set of requests, ids and pids and  *)
(* every setting of the flags.                                             *)
(***************************************************************************)
EXTENDS ZygoteMother, Integers, TLAPS

-----------------------------------------------------------------------------
(* Types.                                                                  *)

\* Every name a leaf can have is in Names.
LEMMA WidType == \A r \in Requests : Wid(r) \in Names
BY WorkerIdAssumption DEF Wid, Names

\* Removing a path keeps the directory well formed.
LEMMA RemovePathType ==
    ASSUME leaves \in [Names -> Requests \cup {None}], NEW n, RemovePath(n)
    PROVE  leaves' \in [Names -> Requests \cup {None}]
BY DEF RemovePath

\* Every variable keeps its type, for every value of the constants.
THEOREM TypeCorrect == Spec => []TypeOK
<1>1. Init => TypeOK
  BY DEF Init, TypeOK, HandlerPhases, ReaperPhases
<1>2. TypeOK /\ [Next]_vars => TypeOK'
  <2> SUFFICES ASSUME TypeOK, [Next]_vars PROVE TypeOK'
    OBVIOUS
  <2> USE DEF TypeOK, HandlerPhases, ReaperPhases, Goto, Born, Buried, motherVars,
              clientVars, procVars
  <2>1. ASSUME NEW r \in Requests, Dial(r) PROVE TypeOK'
    BY <2>1 DEF Dial
  <2>2. ASSUME NEW r \in Requests, Send(r) PROVE TypeOK'
    BY <2>2 DEF Send
  <2>3. ASSUME NEW r \in Requests, ReadReply(r) PROVE TypeOK'
    BY <2>3 DEF ReadReply
  <2>4. ASSUME NEW r \in Requests, ClientFails(r) PROVE TypeOK'
    BY <2>4 DEF ClientFails
  <2>5. ASSUME NEW r \in Requests, Accept(r) PROVE TypeOK'
    BY <2>5 DEF Accept
  <2>6. ASSUME NEW r \in Requests, ReadRequest(r) PROVE TypeOK'
    BY <2>6 DEF ReadRequest
  <2>7. ASSUME NEW r \in Requests, ReadError(r) PROVE TypeOK'
    BY <2>7 DEF ReadError
  <2>8. ASSUME NEW r \in Requests, MakeLeaf(r) PROVE TypeOK'
    BY <2>8, WidType DEF MakeLeaf
  <2>9. ASSUME NEW r \in Requests, WriteLimits(r) PROVE TypeOK'
    BY <2>9 DEF WriteLimits
  <2>10. ASSUME NEW r \in Requests, Rollback(r) PROVE TypeOK'
    BY <2>10, RemovePathType DEF Rollback
  <2>11. ASSUME NEW r \in Requests, RejectEmpty(r) PROVE TypeOK'
    BY <2>11 DEF RejectEmpty
  <2>12. ASSUME NEW r \in Requests, NEW p \in Pids, StartWorker(r, p) PROVE TypeOK'
    BY <2>12 DEF StartWorker
  <2>13. ASSUME NEW r \in Requests, StartFails(r) PROVE TypeOK'
    BY <2>13 DEF StartFails
  <2>14. ASSUME NEW r \in Requests, UndoLeaf(r) PROVE TypeOK'
    BY <2>14, RemovePathType DEF UndoLeaf, Destroy
  <2>15. ASSUME NEW r \in Requests, WriteReply(r) PROVE TypeOK'
    BY <2>15 DEF WriteReply
  <2>16. ASSUME NEW r \in Requests, ReaperWait(r) PROVE TypeOK'
    BY <2>16 DEF ReaperWait
  <2>17. ASSUME NEW r \in Requests, ReaperDestroy(r) PROVE TypeOK'
    BY <2>17, RemovePathType DEF ReaperDestroy, Destroy
  <2>18. ASSUME NEW p \in Pids, WorkerExits(p) PROVE TypeOK'
    BY <2>18 DEF WorkerExits
  <2>19. ASSUME NEW p \in Pids, InitReaps(p) PROVE TypeOK'
    BY <2>19 DEF InitReaps
  <2>20. ASSUME NEW n \in Names, Sweep(n) PROVE TypeOK'
    BY <2>20 DEF Sweep
  <2>21. ASSUME NEW k \in Mothers, StartMother(k) \/ RemoveStale(k) \/ Listen(k) \/ Signal(k)
         PROVE TypeOK'
    BY <2>21 DEF StartMother, RemoveStale, Listen, Signal, Alive
  <2>22. ASSUME NEW k \in Mothers, Shutdown(k) PROVE TypeOK'
    BY <2>22 DEF Shutdown
  <2>23. ASSUME NEW k \in Mothers, Exit(k) PROVE TypeOK'
    BY <2>23 DEF Exit
  <2>25. ASSUME RmSocket PROVE TypeOK'
    BY <2>25 DEF RmSocket
  <2>24. ASSUME UNCHANGED vars PROVE TypeOK'
    BY <2>24 DEF vars
  <2> QED
    BY <2>1, <2>2, <2>3, <2>4, <2>5, <2>6, <2>7, <2>8, <2>9, <2>10, <2>11,
       <2>12, <2>13, <2>14, <2>15, <2>16, <2>17, <2>18, <2>19, <2>20, <2>21,
       <2>22, <2>23, <2>24, <2>25
    DEF Next, HandlerStep, ReaperStep, ClientStep, MotherStep, Idle
<1> QED
  BY <1>1, <1>2, PTL DEF Spec

-----------------------------------------------------------------------------
(* What a mother's life leaves alone.                                       *)

\* A step of a mother's life changes no leaf, process or answer; of the
\* goroutines it can only kill some that are active.
LEMMA MotherFrame ==
    ASSUME TypeOK, (\E k \in Mothers : MotherStep(k)) \/ RmSocket
    PROVE  /\ UNCHANGED <<clientVars, reply, pid, leaves, procVars>>
           /\ \A r \in Requests :
                /\ hd'[r] = hd[r] \/ (hd[r] \in HandlerActive /\ hd'[r] = "killed")
                /\ reaper'[r] = reaper[r] \/ (reaper[r] \in ReaperActive /\ reaper'[r] = "killed")
<1> USE DEF TypeOK, motherVars, clientVars, procVars
<1>1. CASE RmSocket
  BY <1>1 DEF RmSocket
<1>2. ASSUME NEW k \in Mothers, StartMother(k) \/ RemoveStale(k) \/ Listen(k) \/ Signal(k)
      PROVE  UNCHANGED <<clientVars, hd, reaper, reply, pid, leaves, procVars>>
  BY <1>2 DEF StartMother, RemoveStale, Listen, Signal
<1>3. ASSUME NEW k \in Mothers, Shutdown(k)
      PROVE  /\ UNCHANGED <<clientVars, reaper, reply, pid, leaves, procVars>>
             /\ \A r \in Requests :
                  hd'[r] = hd[r] \/ (hd[r] \in HandlerActive /\ hd'[r] = "killed")
  BY <1>3 DEF Shutdown, HandlerActive
<1>4. ASSUME NEW k \in Mothers, Exit(k)
      PROVE  /\ UNCHANGED <<clientVars, reply, pid, leaves, procVars>>
             /\ \A r \in Requests :
                /\ hd'[r] = hd[r] \/ (hd[r] \in HandlerActive /\ hd'[r] = "killed")
                /\ reaper'[r] = reaper[r] \/ (reaper[r] \in ReaperActive /\ reaper'[r] = "killed")
  BY <1>4 DEF Exit
<1> QED
  BY <1>1, <1>2, <1>3, <1>4 DEF MotherStep

-----------------------------------------------------------------------------
(* Processes, goroutines and answers.  The invariant the later ones rest    *)
(* on: who owns a process, which goroutine still has to wait for it, and    *)
(* what an answer says about it.                                            *)

Early == {"none", "queued", "read", "mkdir", "limits", "rollback", "spawn",
          "undo", "replyErr"}

OwnerOK == \A p \in Pids : (pstate[p] = "free") <=> (powner[p] = None)

\* No reaper before the worker is started, and a pid for every reaper.
BirthOrder == \A r \in Requests :
    /\ hd[r] \in Early => reaper[r] = "none"
    /\ hd[r] = "replyPid" => reaper[r] # "none"
    /\ reaper[r] # "none" => pid[r] \in Pids

\* A request has a process only between its start and the end of the Wait.
ProcOrder == \A p \in Pids, r \in Requests :
    powner[p] = r => reaper[r] \in {"wait", "killed"} /\ pid[r] = p

\* A pid the reaper has not waited for is still its worker's.
PidHeld == \A r \in Requests :
    reaper[r] = "wait" => pstate[pid[r]] # "free" /\ powner[pid[r]] = r

AnswerOK == \A r \in Requests :
    /\ reply[r] # None => hd[r] = "done"
    /\ reply[r] = Err  => reaper[r] = "none"
    /\ reply[r] \in Pids => reaper[r] # "none" /\ reply[r] = pid[r]

ProcInv == TypeOK /\ OwnerOK /\ BirthOrder /\ ProcOrder /\ PidHeld /\ AnswerOK

LEMMA ProcInvInit == Init => ProcInv
<1> SUFFICES ASSUME Init PROVE OwnerOK /\ BirthOrder /\ ProcOrder /\ PidHeld /\ AnswerOK
  BY DEF ProcInv, Init, TypeOK, HandlerPhases, ReaperPhases
<1> QED
  BY NoneAssumption DEF Init, OwnerOK, BirthOrder, ProcOrder, PidHeld, AnswerOK, Early

LEMMA ProcInvNext == ProcInv /\ TypeOK' /\ [Next]_vars => ProcInv'
<1> SUFFICES ASSUME ProcInv, TypeOK', [Next]_vars
             PROVE  (OwnerOK /\ BirthOrder /\ ProcOrder /\ PidHeld /\ AnswerOK)'
  BY DEF ProcInv
<1> DEFINE Goal == (OwnerOK /\ BirthOrder /\ ProcOrder /\ PidHeld /\ AnswerOK)'
<1> USE NoneAssumption, ErrAssumption
    DEF ProcInv, TypeOK, OwnerOK, BirthOrder, ProcOrder, PidHeld, AnswerOK,
        Early, HandlerPhases, ReaperPhases, Goto, Born, Buried, motherVars, clientVars, procVars
<1>1. ASSUME NEW r \in Requests, Dial(r) PROVE Goal
  BY <1>1 DEF Dial
<1>2. ASSUME NEW r \in Requests, Send(r) \/ ReadReply(r) \/ ClientFails(r) PROVE Goal
  BY <1>2 DEF Send, ReadReply, ClientFails
<1>3. ASSUME NEW r \in Requests,
             Accept(r) \/ ReadRequest(r) \/ ReadError(r) \/ MakeLeaf(r)
             \/ WriteLimits(r) \/ Rollback(r) \/ RejectEmpty(r) \/ StartFails(r)
             \/ UndoLeaf(r)
      PROVE  Goal
  BY <1>3 DEF Accept, ReadRequest, ReadError, MakeLeaf, WriteLimits, Rollback,
              RejectEmpty, StartFails, UndoLeaf
<1>4. ASSUME NEW r \in Requests, NEW p \in Pids, StartWorker(r, p) PROVE Goal
  BY <1>4 DEF StartWorker
<1>5. ASSUME NEW r \in Requests, WriteReply(r) PROVE Goal
  BY <1>5 DEF WriteReply
<1>6. ASSUME NEW r \in Requests, ReaperWait(r) PROVE Goal
  BY <1>6 DEF ReaperWait
<1>7. ASSUME NEW r \in Requests, ReaperDestroy(r) PROVE Goal
  BY <1>7 DEF ReaperDestroy
<1>8. ASSUME NEW p \in Pids, WorkerExits(p) PROVE Goal
  BY <1>8 DEF WorkerExits
<1>9. ASSUME NEW p \in Pids, InitReaps(p) PROVE Goal
  BY <1>9 DEF InitReaps
<1>10. ASSUME (\E k \in Mothers : MotherStep(k)) \/ RmSocket PROVE Goal
  <2>1. /\ UNCHANGED <<clientVars, reply, pid, leaves, procVars>>
        /\ \A r \in Requests :
             /\ hd'[r] = hd[r] \/ (hd[r] \in HandlerActive /\ hd'[r] = "killed")
             /\ reaper'[r] = reaper[r] \/ (reaper[r] \in ReaperActive /\ reaper'[r] = "killed")
    BY <1>10, MotherFrame
  <2> QED
    BY <2>1 DEF HandlerActive, ReaperActive
<1>12. ASSUME NEW n \in Names, Sweep(n) PROVE Goal
  BY <1>12 DEF Sweep
<1>13. ASSUME UNCHANGED vars PROVE Goal
  BY <1>13 DEF vars
<1> QED
  BY <1>1, <1>2, <1>3, <1>4, <1>5, <1>6, <1>7, <1>8, <1>9, <1>10, <1>12, <1>13
  DEF Next, HandlerStep, ReaperStep, ClientStep, Idle

LEMMA ProcInvCorrect == Spec => []ProcInv
<1>1. Spec => []TypeOK
  BY TypeCorrect
<1> QED
  BY <1>1, ProcInvInit, ProcInvNext, PTL DEF Spec

\* A request answered with an error has no worker and never had one.
THEOREM ErrorsAreTrue == Spec => []ErrorMeansNoWorker
<1>1. ProcInv => ErrorMeansNoWorker
  BY ErrAssumption
  DEF ProcInv, TypeOK, AnswerOK, ProcOrder, ErrorMeansNoWorker, ReaperPhases
<1> QED
  BY <1>1, ProcInvCorrect, PTL

\* The pid in a response stays its worker's until the reaper has waited.
THEOREM RepliesName == Spec => []ReplyNamesWorker
<1>1. ProcInv => ReplyNamesWorker
  BY DEF ProcInv, AnswerOK, PidHeld, ReplyNamesWorker
<1> QED
  BY <1>1, ProcInvCorrect, PTL

-----------------------------------------------------------------------------
(* The fence.  WorkerFenced is inductive over ProcInv: a leaf with a live   *)
(* worker is populated, a populated leaf is not removable, and a leaf that  *)
(* exists is not made again.                                                *)

LEMMA RemoveKeepsFence ==
    ASSUME ProcInv, WorkerFenced, CgEnable, NEW n \in Names, RemovePath(n),
           NEW p \in Pids, pstate[p] = "live"
    PROVE  leaves'[Wid(powner[p])] = leaves[Wid(powner[p])]
<1>1. leaves[Wid(powner[p])] = powner[p]
  BY DEF WorkerFenced
<1>2. Wid(powner[p]) = n => ~Removable(n)
  BY <1>1 DEF Removable, Populated
<1>3. Wid(powner[p]) \in Names
  BY WidType DEF ProcInv, TypeOK, OwnerOK
<1> QED
  BY <1>2, <1>3 DEF ProcInv, TypeOK, RemovePath

LEMMA FenceNext == ProcInv /\ TypeOK' /\ WorkerFenced /\ [Next]_vars => WorkerFenced'
<1> SUFFICES ASSUME ProcInv, TypeOK', WorkerFenced, [Next]_vars, CgEnable,
                    NEW p \in Pids, pstate'[p] = "live"
             PROVE  leaves'[Wid(powner'[p])] = powner'[p]
  BY DEF WorkerFenced, Wid
<1> DEFINE Goal == leaves'[Wid(powner'[p])] = powner'[p]
<1>0. pstate[p] = "live" => powner[p] \in Requests /\ leaves[Wid(powner[p])] = powner[p]
  BY DEF ProcInv, TypeOK, OwnerOK, WorkerFenced
<1> USE DEF Goto, Born, Buried, motherVars, clientVars, procVars
<1>1. ASSUME UNCHANGED <<leaves, pstate, powner>> PROVE Goal
  BY <1>0, <1>1
<1>2. ASSUME NEW r \in Requests, MakeLeaf(r) PROVE Goal
  BY <1>0, <1>2, WidType, NoneAssumption DEF MakeLeaf, ProcInv, TypeOK
<1>3. ASSUME NEW n \in Names, RemovePath(n), UNCHANGED procVars PROVE Goal
  BY <1>0, <1>3, RemoveKeepsFence DEF ProcInv
<1>4. ASSUME NEW r \in Requests, NEW q \in Pids, StartWorker(r, q) PROVE Goal
  BY <1>0, <1>4 DEF StartWorker, ProcInv, TypeOK
<1>5. ASSUME NEW r \in Requests, ReaperWait(r) PROVE Goal
  BY <1>0, <1>5 DEF ReaperWait, ProcInv, TypeOK, PidHeld
<1>6. ASSUME NEW q \in Pids, WorkerExits(q) \/ InitReaps(q) PROVE Goal
  BY <1>0, <1>6 DEF WorkerExits, InitReaps, ProcInv, TypeOK
<1>7. ASSUME NEW n \in Names, Sweep(n) PROVE Goal
  BY <1>3, <1>7 DEF Sweep, RemovePath
<1>8. ASSUME NEW r \in Requests, Rollback(r) \/ UndoLeaf(r) \/ ReaperDestroy(r)
      PROVE  Goal
  BY <1>3, <1>8, WidType DEF Rollback, UndoLeaf, ReaperDestroy, Destroy
<1>9. ASSUME NEW r \in Requests, ClientStep(r) PROVE Goal
  BY <1>1, <1>9 DEF ClientStep, Dial, Send, ReadReply, ClientFails
<1>10. ASSUME NEW r \in Requests,
              Accept(r) \/ ReadRequest(r) \/ ReadError(r) \/ WriteLimits(r)
              \/ RejectEmpty(r) \/ StartFails(r) \/ WriteReply(r)
       PROVE  Goal
  BY <1>1, <1>10 DEF Accept, ReadRequest, ReadError, WriteLimits, RejectEmpty,
                     StartFails, WriteReply
<1>11. ASSUME (\E k \in Mothers : MotherStep(k)) \/ RmSocket \/ UNCHANGED vars PROVE Goal
  BY <1>1, <1>11, MotherFrame DEF vars, ProcInv
<1> QED
  BY <1>2, <1>4, <1>5, <1>6, <1>7, <1>8, <1>9, <1>10, <1>11
  DEF Next, HandlerStep, ReaperStep, Idle

\* No worker is ever outside its own limits while it lives.
THEOREM FenceHolds == Spec => []WorkerFenced
<1>1. Init => WorkerFenced
  BY DEF Init, WorkerFenced
<1>2. ProcInv /\ ProcInv' /\ WorkerFenced /\ [Next]_vars => WorkerFenced'
  BY FenceNext DEF ProcInv
<1> QED
  BY <1>1, <1>2, ProcInvCorrect, PTL DEF Spec

\* An id never has two live workers, however often it is asked for.
THEOREM IdsAreExclusive == Spec => []OneWorkerPerId
<1>1. ProcInv /\ WorkerFenced => OneWorkerPerId
  <2> SUFFICES ASSUME ProcInv, WorkerFenced, CgEnable, NEW p \in Pids, NEW q \in Pids,
                      pstate[p] = "live", pstate[q] = "live",
                      Wid(powner[p]) = Wid(powner[q])
               PROVE  p = q
    BY DEF OneWorkerPerId
  <2>1. powner[p] = powner[q]
    BY DEF WorkerFenced
  <2>2. powner[p] \in Requests
    BY DEF ProcInv, TypeOK, OwnerOK
  <2> QED
    BY <2>1, <2>2 DEF ProcInv, ProcOrder
<1> QED
  BY <1>1, ProcInvCorrect, FenceHolds, PTL

-----------------------------------------------------------------------------
(* Removal by path hits only one's own leaf, when leaves are swept only     *)
(* after the mother's death.  The strengthening: a goroutine belongs to a   *)
(* living mother, so nobody is about to remove anything when the sweep runs.*)

Home == \A r \in Requests :
    hd[r] \in HandlerActive \/ reaper[r] \in ReaperActive =>
        by[r] \in Mothers /\ mother[by[r]] \in {"serving", "closing"}

LEMMA HomeNext == ProcInv /\ Home /\ [Next]_vars => Home'
<1> SUFFICES ASSUME ProcInv, Home, [Next]_vars, NEW q \in Requests,
                    hd'[q] \in HandlerActive \/ reaper'[q] \in ReaperActive
             PROVE  by'[q] \in Mothers /\ mother'[by'[q]] \in {"serving", "closing"}
  BY DEF Home
<1> DEFINE Goal == by'[q] \in Mothers /\ mother'[by'[q]] \in {"serving", "closing"}
<1>0. hd[q] \in HandlerActive \/ reaper[q] \in ReaperActive =>
        by[q] \in Mothers /\ mother[by[q]] \in {"serving", "closing"}
  BY DEF Home
<1> USE DEF ProcInv, TypeOK, HandlerActive, ReaperActive, HandlerPhases,
            ReaperPhases, Goto, Born, Buried, motherVars, clientVars, procVars
<1>1. ASSUME NEW r \in Requests, HandlerStep(r) PROVE Goal
  BY <1>0, <1>1 DEF HandlerStep, Accept, ReadRequest, ReadError, MakeLeaf, WriteLimits,
              Rollback, RejectEmpty, StartWorker, StartFails, UndoLeaf, WriteReply
<1>2. ASSUME NEW r \in Requests, ReaperStep(r) PROVE Goal
  BY <1>0, <1>2 DEF ReaperStep, ReaperWait, ReaperDestroy
<1>3. ASSUME NEW r \in Requests, ClientStep(r) PROVE Goal
  BY <1>0, <1>3 DEF ClientStep, Dial, Listening, Send, ReadReply, ClientFails
<1>4. ASSUME NEW p \in Pids, WorkerExits(p) \/ InitReaps(p) PROVE Goal
  BY <1>0, <1>4 DEF WorkerExits, InitReaps
<1>5. ASSUME NEW k \in Mothers, StartMother(k) \/ RemoveStale(k) \/ Listen(k) \/ Signal(k)
      PROVE  Goal
  BY <1>0, <1>5 DEF StartMother, RemoveStale, Listen, Signal
<1>6. ASSUME NEW k \in Mothers, Shutdown(k) PROVE Goal
  BY <1>0, <1>6 DEF Shutdown
<1>7. ASSUME NEW k \in Mothers, Exit(k) PROVE Goal
  BY <1>0, <1>7 DEF Exit
<1>8. ASSUME (\E n \in Names : Sweep(n)) \/ RmSocket \/ UNCHANGED vars PROVE Goal
  BY <1>0, <1>8 DEF Sweep, RmSocket, vars
<1> QED
  BY <1>1, <1>2, <1>3, <1>4, <1>5, <1>6, <1>7, <1>8 DEF Next, MotherStep, Idle

LEMMA HeldNext ==
    ProcInv /\ ProcInv' /\ Home /\ LeafHeld /\ [Next]_vars => LeafHeld'
<1> SUFFICES ASSUME ProcInv, ProcInv', Home, LeafHeld, [Next]_vars,
                    ~SweepUnderMother, NEW q \in Requests, MayRemove(q)'
             PROVE  leaves'[Wid(q)] = q
  BY DEF LeafHeld, Wid
<1> DEFINE Goal == leaves'[Wid(q)] = q
<1>0. MayRemove(q) => leaves[Wid(q)] = q
  BY DEF LeafHeld
<1> USE DEF Goto, Born, Buried, motherVars, clientVars, procVars, MayRemove, ReaperActive, ProcInv, TypeOK
<1>1. ASSUME NEW r \in Requests, MakeLeaf(r) PROVE Goal
  BY <1>0, <1>1, NoneAssumption, WidType DEF MakeLeaf
<1>2. ASSUME NEW r \in Requests, RemovePath(Wid(r)), MayRemove(r), ~MayRemove(r)',
             \A x \in Requests \ {r} : MayRemove(x)' => MayRemove(x)
      PROVE  Goal
  <2>1. q # r /\ MayRemove(q)
    BY <1>2
  <2>2. leaves[Wid(r)] = r /\ leaves[Wid(q)] = q
    BY <1>0, <1>2, <2>1 DEF LeafHeld
  <2>3. Wid(q) # Wid(r)
    BY <2>1, <2>2
  <2> QED
    BY <1>2, <2>2, <2>3, WidType DEF RemovePath
<1>3. ASSUME NEW r \in Requests, Rollback(r) PROVE Goal
  <2>1. MayRemove(r) /\ ~MayRemove(r)'
    BY <1>3 DEF Rollback, BirthOrder, Early
  <2> QED
    BY <1>2, <1>3, <2>1 DEF Rollback
<1>4. ASSUME NEW r \in Requests, UndoLeaf(r) PROVE Goal
  <2>1. CASE CgEnable
    <3>1. MayRemove(r) /\ ~MayRemove(r)'
      BY <1>4, <2>1 DEF UndoLeaf, BirthOrder, Early
    <3> QED
      BY <1>2, <1>4, <2>1, <3>1 DEF UndoLeaf, Destroy
  <2>2. CASE ~CgEnable
    BY <1>0, <1>4, <2>2 DEF UndoLeaf, Destroy
  <2> QED
    BY <2>1, <2>2
<1>5. ASSUME NEW r \in Requests, ReaperDestroy(r) PROVE Goal
  <2>1. CASE CgEnable
    <3>1. MayRemove(r) /\ ~MayRemove(r)'
      BY <1>5, <2>1 DEF ReaperDestroy, BirthOrder, Early
    <3> QED
      BY <1>2, <1>5, <2>1, <3>1 DEF ReaperDestroy, Destroy
  <2>2. CASE ~CgEnable
    BY <1>0, <1>5, <2>2 DEF ReaperDestroy, Destroy
  <2> QED
    BY <2>1, <2>2
<1>6. ASSUME NEW r \in Requests,
             Accept(r) \/ ReadRequest(r) \/ ReadError(r) \/ WriteLimits(r)
             \/ RejectEmpty(r) \/ StartFails(r) \/ WriteReply(r) \/ ReaperWait(r)
      PROVE  Goal
  BY <1>0, <1>6 DEF Accept, ReadRequest, ReadError, WriteLimits, RejectEmpty,
                    StartFails, WriteReply, ReaperWait
<1>7. ASSUME NEW r \in Requests, NEW p \in Pids, StartWorker(r, p) PROVE Goal
  BY <1>0, <1>7 DEF StartWorker
<1>8. ASSUME NEW r \in Requests, ClientStep(r) PROVE Goal
  BY <1>0, <1>8 DEF ClientStep, Dial, Send, ReadReply, ClientFails
<1>9. ASSUME NEW n \in Names, Sweep(n) PROVE Goal
  <2>1. mother[by[q]] \notin {"serving", "closing"} \/ by[q] \notin Mothers
    BY <1>9 DEF Sweep, Alive
  <2>2. ~MayRemove(q)
    BY <2>1 DEF Home, HandlerActive
  <2> QED
    BY <1>9, <2>2 DEF Sweep
<1>10. ASSUME NEW p \in Pids, WorkerExits(p) \/ InitReaps(p) PROVE Goal
  BY <1>0, <1>10 DEF WorkerExits, InitReaps
<1>11. ASSUME (\E k \in Mothers : MotherStep(k)) \/ RmSocket PROVE Goal
  BY <1>0, <1>11, MotherFrame
<1>12. ASSUME UNCHANGED vars PROVE Goal
  BY <1>0, <1>12 DEF vars
<1> QED
  BY <1>1, <1>3, <1>4, <1>5, <1>6, <1>7, <1>8, <1>9, <1>10, <1>11, <1>12
  DEF Next, HandlerStep, ReaperStep, Idle

\* Rollback and Destroy never remove a leaf another request is using.
THEOREM RemovalIsOwn == Spec => []LeafHeld
<1>1. Init => Home /\ LeafHeld
  BY DEF Init, Home, LeafHeld, MayRemove, HandlerActive, ReaperActive
<1>2. ProcInv /\ ProcInv' /\ Home /\ LeafHeld /\ [Next]_vars
        => (Home /\ LeafHeld)'
  BY HomeNext, HeldNext
<1> QED
  BY <1>1, <1>2, ProcInvCorrect, PTL DEF Spec

-----------------------------------------------------------------------------
(* No leaf is forgotten.  A leaf bears the name of the request that made    *)
(* it, and whoever destroys its own leaf has no live process left in it.    *)

LeafName == \A n \in Names, r \in Requests : leaves[n] = r => n = Wid(r)

LEMMA LeafNameNext == ProcInv /\ LeafName /\ [Next]_vars => LeafName'
<1> SUFFICES ASSUME ProcInv, LeafName, [Next]_vars, NEW m \in Names,
                    NEW q \in Requests, leaves'[m] = q
             PROVE  m = Wid(q)
  BY DEF LeafName, Wid
<1> USE DEF Goto, Born, Buried, motherVars, clientVars, procVars, ProcInv, TypeOK
<1>1. ASSUME UNCHANGED leaves PROVE m = Wid(q)
  BY <1>1 DEF LeafName
<1>2. ASSUME NEW n \in Names, leaves' = [leaves EXCEPT ![n] = None] PROVE m = Wid(q)
  BY <1>2, NoneAssumption DEF LeafName
<1>3. ASSUME NEW r \in Requests, MakeLeaf(r) PROVE m = Wid(q)
  BY <1>3, WidType DEF MakeLeaf, LeafName
<1>4. ASSUME NEW r \in Requests, Rollback(r) \/ UndoLeaf(r) \/ ReaperDestroy(r)
      PROVE  m = Wid(q)
  BY <1>1, <1>2, <1>4, WidType
  DEF Rollback, UndoLeaf, ReaperDestroy, Destroy, RemovePath
<1>5. ASSUME NEW r \in Requests, ClientStep(r) PROVE m = Wid(q)
  BY <1>1, <1>5 DEF ClientStep, Dial, Send, ReadReply, ClientFails
<1>6. ASSUME NEW r \in Requests,
             Accept(r) \/ ReadRequest(r) \/ ReadError(r) \/ WriteLimits(r)
             \/ RejectEmpty(r) \/ StartFails(r) \/ WriteReply(r) \/ ReaperWait(r)
             \/ \E p \in Pids : StartWorker(r, p)
      PROVE  m = Wid(q)
  BY <1>1, <1>6 DEF Accept, ReadRequest, ReadError, WriteLimits, RejectEmpty,
                    StartFails, WriteReply, ReaperWait, StartWorker
<1>7. ASSUME NEW p \in Pids, WorkerExits(p) \/ InitReaps(p) PROVE m = Wid(q)
  BY <1>1, <1>7 DEF WorkerExits, InitReaps
<1>8. ASSUME NEW n \in Names, Sweep(n) PROVE m = Wid(q)
  BY <1>2, <1>8 DEF Sweep
<1>9. ASSUME (\E k \in Mothers : MotherStep(k)) \/ RmSocket \/ UNCHANGED vars
      PROVE  m = Wid(q)
  BY <1>1, <1>9, MotherFrame DEF vars
<1> QED
  BY <1>3, <1>4, <1>5, <1>6, <1>7, <1>8, <1>9
  DEF Next, HandlerStep, ReaperStep, Idle

\* Without --cgroup no leaf is ever made.
PlainNoLeaf == ~CgEnable =>
    /\ \A r \in Requests : hd[r] \notin {"mkdir", "limits", "rollback"}
    /\ \A n \in Names : leaves[n] = None

LEMMA PlainNext == ProcInv /\ PlainNoLeaf /\ [Next]_vars => PlainNoLeaf'
<1> SUFFICES ASSUME ProcInv, PlainNoLeaf, [Next]_vars, ~CgEnable
             PROVE  /\ \A r \in Requests : hd'[r] \notin {"mkdir", "limits", "rollback"}
                    /\ UNCHANGED leaves
  BY DEF PlainNoLeaf
<1> DEFINE Goal == /\ \A r \in Requests : hd'[r] \notin {"mkdir", "limits", "rollback"}
                   /\ UNCHANGED leaves
<1> USE DEF Goto, Born, Buried, motherVars, clientVars, procVars, ProcInv, TypeOK, PlainNoLeaf
<1>1. ASSUME NEW r \in Requests, HandlerStep(r) PROVE Goal
  BY <1>1 DEF HandlerStep, Accept, ReadRequest, ReadError, MakeLeaf, WriteLimits,
              Rollback, RejectEmpty, StartWorker, StartFails, UndoLeaf, Destroy,
              WriteReply
<1>2. ASSUME NEW r \in Requests, ReaperStep(r) \/ ClientStep(r) PROVE Goal
  BY <1>2 DEF ReaperStep, ReaperWait, ReaperDestroy, Destroy, ClientStep, Dial,
              Send, ReadReply, ClientFails
<1>3. ASSUME NEW p \in Pids, WorkerExits(p) \/ InitReaps(p) PROVE Goal
  BY <1>3 DEF WorkerExits, InitReaps
<1>4. ASSUME (\E n \in Names : Sweep(n)) \/ UNCHANGED vars PROVE Goal
  BY <1>4 DEF Sweep, Removable, vars
<1>5. ASSUME (\E k \in Mothers : MotherStep(k)) \/ RmSocket PROVE Goal
  BY <1>5, MotherFrame
<1> QED
  BY <1>1, <1>2, <1>3, <1>4, <1>5 DEF Next, Idle

\* One request's leaves at one name are accounted for.
Accounted(r) ==
    \/ hd[r] \in {"limits", "rollback", "spawn", "undo"}
    \/ hd[r] = "killed" /\ reaper[r] = "none"
    \/ reaper[r] \in {"wait", "destroy", "killed"}

\* An empty binary stays empty.
LEMMA EmptyStays ==
    ASSUME TypeOK, [Next]_vars
    PROVE  empty \subseteq empty'
<1> USE DEF clientVars
<1>1. ASSUME NEW r \in Requests, ClientStep(r) PROVE empty \subseteq empty'
  BY <1>1 DEF ClientStep, Dial, Send, ReadReply, ClientFails
<1>2. ASSUME NEW r \in Requests, HandlerStep(r) PROVE empty' = empty
  BY <1>2 DEF HandlerStep, Accept, ReadRequest, ReadError, MakeLeaf, WriteLimits,
     Rollback, RejectEmpty, StartWorker, StartFails, UndoLeaf, WriteReply
<1>3. ASSUME NEW r \in Requests, ReaperStep(r) PROVE empty' = empty
  BY <1>3 DEF ReaperStep, ReaperWait, ReaperDestroy
<1>4. ASSUME (\E k \in Mothers : MotherStep(k)) \/ RmSocket PROVE empty' = empty
  BY <1>4, MotherFrame
<1>5. ASSUME \/ \E p \in Pids : WorkerExits(p) \/ InitReaps(p)
             \/ \E n \in Names : Sweep(n)
             \/ UNCHANGED vars
      PROVE  empty' = empty
  BY <1>5 DEF WorkerExits, InitReaps, Sweep, vars
<1> QED
  BY <1>1, <1>2, <1>3, <1>4, <1>5 DEF Next, Idle

LEMMA AccountedNext ==
    ProcInv /\ ProcInv' /\ LeafName /\ PlainNoLeaf' /\ LeavesAccounted /\ [Next]_vars
        => LeavesAccounted'
<1> SUFFICES ASSUME ProcInv, ProcInv', LeafName, PlainNoLeaf', LeavesAccounted, [Next]_vars,
                    ~SpuriousBusy, NEW m \in Names,
                    NEW q \in Requests \ empty', leaves'[m] = q
             PROVE  Accounted(q)'
  BY DEF LeavesAccounted, Accounted
<1>0. CgEnable /\ (leaves[m] = q => Accounted(q))
  BY NoneAssumption, EmptyStays DEF LeavesAccounted, Accounted, PlainNoLeaf, ProcInv
<1> USE DEF Goto, Born, Buried, motherVars, clientVars, procVars, ProcInv, TypeOK
<1>1. ASSUME NEW r \in Requests, MakeLeaf(r) PROVE Accounted(q)'
  BY <1>0, <1>1, WidType DEF MakeLeaf, Accounted
<1>2. ASSUME NEW r \in Requests, RemovePath(Wid(r)), \A p \in Pids : powner[p] # r
      PROVE  q # r /\ leaves[m] = q
  <2>1. leaves[Wid(r)] = r => leaves' = [leaves EXCEPT ![Wid(r)] = None]
    BY <1>2, NoneAssumption DEF RemovePath, Removable, Populated
  <2>2. leaves[m] = q
    BY <1>2, WidType, NoneAssumption DEF RemovePath
  <2>3. q = r => m = Wid(r)
    BY <2>2 DEF LeafName
  <2> QED
    BY <2>1, <2>2, <2>3, WidType, NoneAssumption
<1>3. ASSUME NEW r \in Requests, Rollback(r) \/ UndoLeaf(r), CgEnable
      PROVE  Accounted(q)'
  <2>1. \A p \in Pids : powner[p] # r
    BY <1>3 DEF Rollback, UndoLeaf, BirthOrder, ProcOrder, Early
  <2> QED
    BY <1>0, <1>2, <1>3, <2>1 DEF Rollback, UndoLeaf, Destroy, Accounted
<1>4. ASSUME NEW r \in Requests, ReaperDestroy(r), CgEnable PROVE Accounted(q)'
  <2>1. \A p \in Pids : powner[p] # r
    BY <1>4 DEF ReaperDestroy, ProcOrder
  <2> QED
    BY <1>0, <1>2, <1>4, <2>1 DEF ReaperDestroy, Destroy, Accounted
<1>5. ASSUME NEW r \in Requests,
             Accept(r) \/ ReadRequest(r) \/ ReadError(r) \/ WriteLimits(r)
             \/ RejectEmpty(r) \/ StartFails(r) \/ WriteReply(r) \/ ReaperWait(r)
             \/ \E p \in Pids : StartWorker(r, p)
      PROVE  Accounted(q)'
  BY <1>0, <1>5 DEF Accept, ReadRequest, ReadError, WriteLimits, RejectEmpty,
                    StartFails, WriteReply, ReaperWait, StartWorker, Accounted,
                    BirthOrder
<1>6. ASSUME NEW r \in Requests, ClientStep(r) PROVE Accounted(q)'
  BY <1>0, <1>6 DEF ClientStep, Dial, Send, ReadReply, ClientFails, Accounted
<1>7. ASSUME NEW n \in Names, Sweep(n) PROVE Accounted(q)'
  BY <1>0, <1>7, NoneAssumption DEF Sweep, Accounted
<1>8. ASSUME NEW p \in Pids, WorkerExits(p) \/ InitReaps(p) PROVE Accounted(q)'
  BY <1>0, <1>8 DEF WorkerExits, InitReaps, Accounted
<1>9. ASSUME (\E k \in Mothers : MotherStep(k)) \/ RmSocket PROVE Accounted(q)'
  <2>1. /\ UNCHANGED leaves
        /\ hd'[q] = hd[q] \/ (hd[q] \in HandlerActive /\ hd'[q] = "killed")
        /\ reaper'[q] = reaper[q] \/ (reaper[q] \in ReaperActive /\ reaper'[q] = "killed")
    BY <1>9, MotherFrame
  <2> QED
    BY <1>0, <2>1 DEF Accounted, HandlerActive, ReaperActive, BirthOrder, Early
<1>10. ASSUME UNCHANGED vars PROVE Accounted(q)'
  BY <1>0, <1>10 DEF vars, Accounted
<1> QED
  BY <1>0, <1>1, <1>3, <1>4, <1>5, <1>6, <1>7, <1>8, <1>9, <1>10
  DEF Next, HandlerStep, ReaperStep, Idle

\* With rmdir reliable, each leaf that stands has a goroutine that will remove
\* it, was left by a mother that died, or was made for an empty binary.
THEOREM NoLeafForgotten == Spec => []LeavesAccounted
<1>1. Init => LeafName /\ PlainNoLeaf /\ LeavesAccounted
  BY NoneAssumption DEF Init, LeafName, PlainNoLeaf, LeavesAccounted
<1>2. ProcInv /\ ProcInv' /\ LeafName /\ PlainNoLeaf /\ LeavesAccounted /\ [Next]_vars
        => (LeafName /\ PlainNoLeaf /\ LeavesAccounted)'
  BY LeafNameNext, PlainNext, AccountedNext
<1> QED
  BY <1>1, <1>2, ProcInvCorrect, PTL DEF Spec

-----------------------------------------------------------------------------
(* The path of the socket.  A mother that has met no other is alone, so     *)
(* nobody else removes or takes the path while she lives.                   *)

Alone(m) ==
    /\ m \in Alive => Alive = {m}
    /\ mother[m] = "serving" /\ m \notin told => path = m
    /\ mother[m] = "bind" => path = None

AloneInv == \A m \in Mothers \ crowded : Alone(m)

LEMMA AloneNext == TypeOK /\ AloneInv /\ [Next]_vars => AloneInv'
<1> SUFFICES ASSUME TypeOK, AloneInv, [Next]_vars, NEW m \in Mothers, m \notin crowded'
             PROVE  Alone(m)'
  BY DEF AloneInv
<1>0. m \notin crowded => Alone(m)
  BY DEF AloneInv
<1> USE DEF TypeOK, Alone, Alive
<1>1. ASSUME UNCHANGED motherVars PROVE Alone(m)'
  BY <1>0, <1>1 DEF motherVars
<1>2. ASSUME NEW k \in Mothers, StartMother(k) PROVE Alone(m)'
  BY <1>0, <1>2 DEF StartMother
<1>3. ASSUME NEW k \in Mothers, RemoveStale(k) PROVE Alone(m)'
  BY <1>0, <1>3 DEF RemoveStale
<1>4. ASSUME NEW k \in Mothers, Listen(k) PROVE Alone(m)'
  BY <1>0, <1>4 DEF Listen
<1>5. ASSUME NEW k \in Mothers, Signal(k) \/ Shutdown(k) PROVE Alone(m)'
  BY <1>0, <1>5 DEF Signal, Shutdown
<1>6. ASSUME NEW k \in Mothers, Exit(k) PROVE Alone(m)'
  BY <1>0, <1>6 DEF Exit
<1>7. ASSUME RmSocket PROVE Alone(m)'
  BY <1>0, <1>7 DEF RmSocket, AllTold
<1>8. ASSUME NEW r \in Requests, ClientStep(r) PROVE Alone(m)'
  BY <1>0, <1>8 DEF ClientStep, Dial, Send, ReadReply, ClientFails, motherVars
<1>9. ASSUME NEW r \in Requests, HandlerStep(r) \/ ReaperStep(r) PROVE Alone(m)'
  <2>1. UNCHANGED motherVars
    BY <1>9 DEF HandlerStep, ReaperStep, Accept, ReadRequest, ReadError, MakeLeaf,
       WriteLimits, Rollback, RejectEmpty, StartWorker, StartFails, UndoLeaf,
       WriteReply, ReaperWait, ReaperDestroy
  <2> QED
    BY <1>1, <2>1
<1>10. ASSUME \/ \E p \in Pids : WorkerExits(p) \/ InitReaps(p)
              \/ \E n \in Names : Sweep(n)
              \/ UNCHANGED vars
       PROVE  Alone(m)'
  BY <1>1, <1>10 DEF WorkerExits, InitReaps, Sweep, vars, motherVars
<1> QED
  BY <1>2, <1>3, <1>4, <1>5, <1>6, <1>7, <1>8, <1>9, <1>10 DEF Next, MotherStep, Idle

\* A mother that is not told to stop and has met no other can be reached,
\* whatever her predecessors left behind, for any number of mothers.
THEOREM SocketIsOwn == Spec => []Reachable
<1>1. Init => AloneInv
  BY DEF Init, AloneInv, Alone, Alive
<1>2. AloneInv => Reachable
  BY DEF AloneInv, Alone, Reachable
<1> QED
  BY <1>1, <1>2, AloneNext, TypeCorrect, PTL DEF Spec

-----------------------------------------------------------------------------
(* The mother implements SpawnService.                                      *)

\* Only births, deaths and answers are steps of the service.
LEMMA ServiceStutter ==
    ASSUME \A r \in Requests : Worker(r)' = Worker(r) /\ Answer(r)' = Answer(r)
    PROVE  UNCHANGED Service!vars
BY DEF Service!vars

LEMMA ServiceNext ==
    ProcInv /\ ProcInv' /\ WorkerFenced /\ [Next]_vars
        => [Service!Next]_(Service!vars)
<1> SUFFICES ASSUME ProcInv, ProcInv', WorkerFenced, [Next]_vars
             PROVE  Service!Next \/ UNCHANGED Service!vars
  OBVIOUS
<1> USE DEF Goto, Born, Buried, motherVars, clientVars, procVars
<1>1. ASSUME UNCHANGED <<reply, reaper, pstate, powner>> PROVE UNCHANGED Service!vars
  BY <1>1, ServiceStutter DEF Worker, Answer
<1>2. ASSUME NEW r \in Requests, NEW p \in Pids, StartWorker(r, p)
      PROVE  Service!Spawn(r)
  <2>1. powner[p] = None /\ reaper[r] = "none" /\ reply[r] = None
    BY <1>2 DEF StartWorker, ProcInv, TypeOK, OwnerOK, BirthOrder, AnswerOK, Early
  <2>2. Worker(r) = "none" /\ Answer(r) = "none"
    BY <2>1 DEF Worker, Answer
  <2>3. Worker(r)' = "running"
    BY <1>2 DEF StartWorker, Worker, ProcInv, TypeOK
  <2>4. \A q \in Requests \ {r} : Worker(q)' = Worker(q)
    BY <1>2, <2>1, NoneAssumption DEF StartWorker, Worker, ProcInv, TypeOK
  <2>5. \A q \in Requests : Answer(q)' = Answer(q)
    BY <1>2 DEF StartWorker, Answer
  <2>6. CgEnable => \A q \in Requests : Wid(q) = Wid(r) => Worker(q) # "running"
    <3> SUFFICES ASSUME CgEnable, NEW q \in Requests, Wid(q) = Wid(r),
                        NEW x \in Pids, powner[x] = q, pstate[x] = "live",
                        reaper[q] # "none"
                 PROVE  FALSE
      BY DEF Worker
    <3>1. leaves[Wid(q)] = q
      BY DEF WorkerFenced
    <3>2. leaves[Wid(r)] = r
      BY <1>2 DEF StartWorker
    <3> QED
      BY <2>1, <3>1, <3>2
  <2> QED
    BY <2>2, <2>3, <2>4, <2>5, <2>6 DEF Service!Spawn
<1>3. ASSUME NEW p \in Pids, WorkerExits(p) PROVE Service!Next
  <2> PICK r \in Requests : powner[p] = r
    BY <1>3 DEF WorkerExits, ProcInv, TypeOK, OwnerOK
  <2>1. Worker(r) = "running"
    BY <1>3 DEF WorkerExits, ProcInv, TypeOK, OwnerOK, ProcOrder, Worker
  <2>2. Worker(r)' = "ended"
    BY <1>3, <2>1 DEF WorkerExits, ProcInv, TypeOK, ProcOrder, Worker
  <2>3. \A q \in Requests \ {r} : Worker(q)' = Worker(q)
    BY <1>3 DEF WorkerExits, Worker, ProcInv, TypeOK
  <2>4. \A q \in Requests : Answer(q)' = Answer(q)
    BY <1>3 DEF WorkerExits, Answer
  <2> QED
    BY <2>1, <2>2, <2>3, <2>4 DEF Service!End, Service!Next
<1>4. ASSUME NEW r \in Requests, WriteReply(r) PROVE Service!Reply(r)
  <2>1. Answer(r) = "none"
    BY <1>4 DEF WriteReply, Answer, ProcInv, AnswerOK
  <2>2. \A q \in Requests : Worker(q)' = Worker(q)
    BY <1>4 DEF WriteReply, Worker
  <2>3. Answer(r)' = IF Worker(r) = "none" THEN "error" ELSE "pid"
    <3>1. CASE hd[r] = "replyErr"
      BY <1>4, <3>1, NoneAssumption
      DEF WriteReply, Worker, Answer, ProcInv, TypeOK, BirthOrder, Early
    <3>2. CASE hd[r] = "replyPid"
      BY <1>4, <3>2, NoneAssumption, ErrAssumption
      DEF WriteReply, Worker, Answer, ProcInv, TypeOK, BirthOrder
    <3> QED
      BY <1>4, <3>1, <3>2 DEF WriteReply
  <2>4. \A q \in Requests \ {r} : Answer(q)' = Answer(q)
    BY <1>4 DEF WriteReply, Answer, ProcInv, TypeOK
  <2> QED
    BY <2>1, <2>2, <2>3, <2>4 DEF Service!Reply
<1>5. ASSUME NEW r \in Requests, ReaperWait(r) PROVE UNCHANGED Service!vars
  BY <1>5, ServiceStutter, NoneAssumption
  DEF ReaperWait, Worker, Answer, ProcInv, TypeOK, PidHeld
<1>6. ASSUME NEW p \in Pids, InitReaps(p) PROVE UNCHANGED Service!vars
  BY <1>6, ServiceStutter, NoneAssumption DEF InitReaps, Worker, Answer, ProcInv, TypeOK
<1>7. ASSUME NEW r \in Requests, ReaperDestroy(r) PROVE UNCHANGED Service!vars
  BY <1>7, ServiceStutter DEF ReaperDestroy, Worker, Answer, ProcInv, TypeOK
<1>10. ASSUME (\E k \in Mothers : MotherStep(k)) \/ RmSocket PROVE UNCHANGED Service!vars
  <2>1. /\ UNCHANGED <<reply, pstate, powner>>
        /\ \A r \in Requests : reaper'[r] = "none" <=> reaper[r] = "none"
    BY <1>10, MotherFrame DEF ProcInv, ReaperActive
  <2> QED
    BY <2>1, ServiceStutter DEF Worker, Answer
<1>8. ASSUME NEW r \in Requests,
             ClientStep(r) \/ Accept(r) \/ ReadRequest(r) \/ ReadError(r)
             \/ MakeLeaf(r) \/ WriteLimits(r) \/ Rollback(r) \/ RejectEmpty(r)
             \/ StartFails(r) \/ UndoLeaf(r)
      PROVE  UNCHANGED Service!vars
  BY <1>1, <1>8 DEF ClientStep, Dial, Send, ReadReply, ClientFails, Accept,
     ReadRequest, ReadError, MakeLeaf, WriteLimits, Rollback, RejectEmpty,
     StartFails, UndoLeaf
<1>9. ASSUME (\E n \in Names : Sweep(n)) \/ UNCHANGED vars PROVE UNCHANGED Service!vars
  BY <1>1, <1>9 DEF Sweep, vars
<1> QED
  BY <1>2, <1>3, <1>4, <1>5, <1>6, <1>7, <1>8, <1>9, <1>10
  DEF Next, HandlerStep, ReaperStep, Idle, Service!Next

\* The mother implements the abstract service: at most one worker and one
\* truthful answer per request, one running worker per name under --cgroup.
THEOREM MotherRefinesService == Spec => ImplementsService
<1>1. Init => Service!Init
  BY DEF Init, Service!Init, Worker, Answer
<1> QED
  BY <1>1, ServiceNext, ProcInvCorrect, FenceHolds, PTL
  DEF Spec, ImplementsService, Service!Spec

-----------------------------------------------------------------------------
(* Handlers finish, zombies are reaped and leaves go: all of the liveness  *)
(* properties but the fairness.                                            *)

\* Where the client, its handler and its worker are, and what has been sent.
Conn == \A r \in Requests :
    /\ hd[r] = "queued" => mother[by[r]] = "serving"
    /\ client[r] = "idle" <=> hd[r] = "none" /\ client[r] # "failed"
    /\ client[r] \in {"idle", "dialed"} => r \notin sent
    /\ client[r] \in {"sent", "ok", "error"} => r \in sent
    /\ r \in empty => r \in sent
    /\ hd[r] \in {"mkdir", "limits", "rollback", "spawn", "undo", "replyPid"} => r \in sent
    /\ reaper[r] # "none" => r \in sent \ empty

\* The guards of HandlerStep.
HandlerCanMove(r) ==
    \/ hd[r] = "queued" /\ mother[by[r]] = "serving"
    \/ hd[r] = "read" /\ (r \in sent \/ client[r] = "failed")
    \/ hd[r] \in HandlerActive \ {"queued", "read"}

\* A handler can go on, or it waits for a client that has yet to write its
\* request, and which has a deadline.
HandlersNeverStuck == \A r \in Requests :
    hd[r] \in HandlerActive => HandlerCanMove(r) \/ client[r] = "dialed"

\* Every dead worker has one goroutine that waits for it, the reaper of its
\* own request, or the host's init once its mother is gone.
ZombiesAwaited == \A p \in Pids : pstate[p] = "zombie" =>
    /\ powner[p] \in Requests /\ reaper[powner[p]] \in {"wait", "killed"}
    /\ \A q \in Requests : reaper[q] = "wait" /\ pid[q] = p => q = powner[p]
    /\ pid[powner[p]] = p

\* A reaper that has done its work has left no leaf, if rmdir is reliable.
ReapedLeafGone == ~SpuriousBusy => \A r \in Requests, n \in Names :
    reaper[r] = "done" => leaves[n] # r

\* The steps a request's client, handler and reaper have left, at most.
HandlerLeft == [h \in HandlerPhases |->
    CASE h = "none" -> 8 [] h = "queued" -> 7 [] h = "read" -> 6 [] h = "mkdir" -> 5
      [] h = "limits" -> 4 [] h = "spawn" -> 3 [] h \in {"rollback", "undo"} -> 2
      [] h \in {"replyErr", "replyPid"} -> 1 [] OTHER -> 0]
ReaperLeft == [g \in ReaperPhases |->
    CASE g = "none" -> 3 [] g = "wait" -> 2 [] g = "destroy" -> 1 [] OTHER -> 0]
ClientLeft == [k \in {"idle", "dialed", "sent", "ok", "error", "failed"} |->
    CASE k = "idle" -> 3 [] k = "dialed" -> 2 [] k = "sent" -> 1 [] OTHER -> 0]
StepsLeft(r) == HandlerLeft[hd[r]] + ReaperLeft[reaper[r]] + ClientLeft[client[r]]

\* Each of their steps brings them nearer to their end, and nothing takes it
\* away again: no other request, no signal, no mother's end or new beginning.
RequestsGoOn == [][\A r \in Requests :
    /\ StepsLeft(r)' <= StepsLeft(r)
    /\ HandlerStep(r) \/ ReaperStep(r) \/ ClientStep(r) => StepsLeft(r)' < StepsLeft(r)]_vars

-----------------------------------------------------------------------------
\* Every step keeps Conn.
LEMMA ConnNext == ProcInv /\ Home /\ Conn /\ [Next]_vars => Conn'
<1> SUFFICES ASSUME ProcInv, Home, Conn, [Next]_vars PROVE Conn'
  OBVIOUS
<1> USE DEF ProcInv, TypeOK, HandlerPhases, ReaperPhases, Goto, motherVars, clientVars, procVars
<1>1. ASSUME NEW r \in Requests, Dial(r) PROVE Conn'
  BY <1>1 DEF Dial, Listening, Conn
<1>2. ASSUME NEW r \in Requests, Send(r) PROVE Conn'
  BY <1>2 DEF Send, Conn, BirthOrder, Early
<1>3. ASSUME NEW r \in Requests, ReadReply(r) \/ ClientFails(r) PROVE Conn'
  <2>1. hd[r] = "none" <=> client[r] = "idle"
    BY <1>3 DEF ReadReply, ClientFails, Conn
  <2> QED
    BY <1>3, <2>1 DEF ReadReply, ClientFails, Conn
<1>4. ASSUME NEW r \in Requests,
             Accept(r) \/ ReadRequest(r) \/ ReadError(r) \/ MakeLeaf(r)
             \/ WriteLimits(r) \/ Rollback(r) \/ RejectEmpty(r) \/ StartFails(r)
             \/ UndoLeaf(r)
      PROVE  Conn'
  BY <1>4 DEF Accept, ReadRequest, ReadError, MakeLeaf, WriteLimits, Rollback,
              RejectEmpty, StartFails, UndoLeaf, Conn
<1>5. ASSUME NEW r \in Requests, NEW p \in Pids, StartWorker(r, p) PROVE Conn'
  BY <1>5 DEF StartWorker, Born, Conn
<1>6. ASSUME NEW r \in Requests, WriteReply(r) PROVE Conn'
  BY <1>6 DEF WriteReply, Conn
<1>7. ASSUME NEW r \in Requests, ReaperStep(r) PROVE Conn'
  BY <1>7 DEF ReaperStep, ReaperWait, ReaperDestroy, Conn
<1>8. ASSUME NEW k \in Mothers, StartMother(k) \/ RemoveStale(k) \/ Listen(k) \/ Signal(k)
      PROVE  Conn'
  <2>1. UNCHANGED <<client, sent, empty, hd, reaper, by>>
    BY <1>8 DEF StartMother, RemoveStale, Listen, Signal
  <2>2. \A j \in Mothers : mother[j] = "serving" => mother'[j] = "serving"
    BY <1>8 DEF StartMother, RemoveStale, Listen, Signal
  <2>3. \A r \in Requests : hd[r] = "queued" => by[r] \in Mothers
    BY DEF Home, HandlerActive
  <2> QED
    BY <2>1, <2>2, <2>3 DEF Conn
<1>9. ASSUME NEW k \in Mothers, Shutdown(k) PROVE Conn'
  BY <1>9 DEF Shutdown, Conn
<1>10. ASSUME NEW k \in Mothers, Exit(k) PROVE Conn'
  BY <1>10 DEF Exit, Conn, HandlerActive, ReaperActive
<1>11. ASSUME \/ RmSocket \/ \E n \in Names : Sweep(n)
              \/ \E p \in Pids : WorkerExits(p) \/ InitReaps(p)
              \/ UNCHANGED vars
       PROVE  Conn'
  <2>1. UNCHANGED <<client, sent, empty, hd, reaper, by, mother>>
    BY <1>11 DEF RmSocket, Sweep, WorkerExits, InitReaps, vars
  <2> QED
    BY <2>1 DEF Conn
<1> QED
  BY <1>1, <1>2, <1>3, <1>4, <1>5, <1>6, <1>7, <1>8, <1>9, <1>10, <1>11
  DEF Next, HandlerStep, ClientStep, MotherStep, Idle

\* Handlers and reapers have a living mother, and a queue a serving one.
LEMMA HomeConn == Spec => [](Home /\ Conn)
<1>1. Init => Home /\ Conn
  BY DEF Init, Home, Conn, HandlerActive, ReaperActive
<1>2. ProcInv /\ (Home /\ Conn) /\ [Next]_vars => (Home /\ Conn)'
  BY HomeNext, ConnNext
<1> QED
  BY <1>1, <1>2, ProcInvCorrect, PTL DEF Spec

\* No handler is stuck: the one thing it may wait for is a client that is
\* there and has not written yet.
THEOREM HandlersGoOn == Spec => []HandlersNeverStuck
<1>1. ProcInv /\ Conn => HandlersNeverStuck
  <2> SUFFICES ASSUME ProcInv, Conn, NEW r \in Requests, hd[r] \in HandlerActive,
                      client[r] # "dialed"
               PROVE  HandlerCanMove(r)
    BY DEF HandlersNeverStuck
  <2>1. CASE hd[r] = "read"
    <3>1. client[r] \in {"sent", "ok", "error", "failed"}
      BY <2>1 DEF ProcInv, TypeOK, Conn
    <3> QED
      BY <2>1, <3>1 DEF Conn, HandlerCanMove
  <2>2. CASE hd[r] # "read"
    BY <2>2 DEF Conn, HandlerCanMove
  <2> QED
    BY <2>1, <2>2
<1> QED
  BY <1>1, ProcInvCorrect, HomeConn, PTL

\* A worker that has ended is a zombie of exactly one reaper, or of init.
THEOREM ZombiesHaveReapers == Spec => []ZombiesAwaited
<1>1. ProcInv => ZombiesAwaited
  BY NoneAssumption DEF ProcInv, TypeOK, OwnerOK, ProcOrder, PidHeld, ZombiesAwaited
<1> QED
  BY <1>1, ProcInvCorrect, PTL

\* A leaf is gone when its reaper is done.
THEOREM ReapersLeaveNoLeaf == Spec => []ReapedLeafGone
<1>1. ProcInv /\ Conn /\ LeavesAccounted => ReapedLeafGone
  BY DEF ProcInv, BirthOrder, Early, Conn, LeavesAccounted, ReapedLeafGone
<1> QED
  BY <1>1, ProcInvCorrect, HomeConn, NoLeafForgotten, PTL

-----------------------------------------------------------------------------
\* How far each place is from the end.
LEMMA LeftValues ==
    /\ HandlerLeft["none"] = 8 /\ HandlerLeft["queued"] = 7 /\ HandlerLeft["read"] = 6
    /\ HandlerLeft["mkdir"] = 5 /\ HandlerLeft["limits"] = 4 /\ HandlerLeft["spawn"] = 3
    /\ HandlerLeft["rollback"] = 2 /\ HandlerLeft["undo"] = 2
    /\ HandlerLeft["replyErr"] = 1 /\ HandlerLeft["replyPid"] = 1
    /\ HandlerLeft["done"] = 0 /\ HandlerLeft["killed"] = 0
    /\ ReaperLeft["none"] = 3 /\ ReaperLeft["wait"] = 2 /\ ReaperLeft["destroy"] = 1
    /\ ReaperLeft["done"] = 0 /\ ReaperLeft["killed"] = 0
    /\ ClientLeft["idle"] = 3 /\ ClientLeft["dialed"] = 2 /\ ClientLeft["sent"] = 1
    /\ ClientLeft["ok"] = 0 /\ ClientLeft["error"] = 0 /\ ClientLeft["failed"] = 0
BY DEF HandlerLeft, ReaperLeft, ClientLeft, HandlerPhases, ReaperPhases

\* The same, as bounds.
LEMMA LeftTypes ==
    /\ \A h \in HandlerPhases : HandlerLeft[h] \in 0 .. 8
    /\ \A g \in ReaperPhases : ReaperLeft[g] \in 0 .. 3
    /\ \A k \in {"idle", "dialed", "sent", "ok", "error", "failed"} : ClientLeft[k] \in 0 .. 3
BY LeftValues DEF HandlerPhases, ReaperPhases

\* Three that go down, or stay, make a sum that goes down, or stays.
LEMMA SumGoesDown ==
    ASSUME TypeOK, TypeOK', NEW q \in Requests,
           HandlerLeft[hd'[q]] <= HandlerLeft[hd[q]],
           ReaperLeft[reaper'[q]] <= ReaperLeft[reaper[q]],
           ClientLeft[client'[q]] <= ClientLeft[client[q]]
    PROVE  /\ StepsLeft(q) \in Nat
           /\ StepsLeft(q)' <= StepsLeft(q)
           /\ \/ HandlerLeft[hd'[q]] < HandlerLeft[hd[q]]
              \/ ReaperLeft[reaper'[q]] < ReaperLeft[reaper[q]]
              \/ ClientLeft[client'[q]] < ClientLeft[client[q]]
              => StepsLeft(q)' < StepsLeft(q)
<1>1. /\ HandlerLeft[hd[q]] \in 0 .. 8 /\ HandlerLeft[hd'[q]] \in 0 .. 8
      /\ ReaperLeft[reaper[q]] \in 0 .. 3 /\ ReaperLeft[reaper'[q]] \in 0 .. 3
      /\ ClientLeft[client[q]] \in 0 .. 3 /\ ClientLeft[client'[q]] \in 0 .. 3
  BY LeftTypes DEF TypeOK
<1> QED
  BY <1>1 DEF StepsLeft

\* What a step may do to a request's three: each stays or goes on.
Keeps(q) == UNCHANGED <<hd[q], reaper[q], client[q]>>
GoesOn(q) ==
    /\ HandlerLeft[hd'[q]] <= HandlerLeft[hd[q]]
    /\ ReaperLeft[reaper'[q]] <= ReaperLeft[reaper[q]]
    /\ ClientLeft[client'[q]] <= ClientLeft[client[q]]
    /\ \/ HandlerLeft[hd'[q]] < HandlerLeft[hd[q]]
       \/ ReaperLeft[reaper'[q]] < ReaperLeft[reaper[q]]
       \/ ClientLeft[client'[q]] < ClientLeft[client[q]]

\* A handler's step takes the handler on, and perhaps starts a reaper.
LEMMA HandlerDown ==
    ASSUME ProcInv, NEW r \in Requests, HandlerStep(r)
    PROVE  GoesOn(r) /\ \A q \in Requests \ {r} : Keeps(q)
<1> USE DEF ProcInv, TypeOK, Goto, motherVars, clientVars, procVars
<1>1. client' = client /\ ClientLeft[client'[r]] <= ClientLeft[client[r]]
  <2>1. client' = client
    BY DEF HandlerStep, Accept, ReadRequest, ReadError, MakeLeaf, WriteLimits, Rollback,
           RejectEmpty, StartWorker, StartFails, UndoLeaf, WriteReply
  <2> QED
    BY <2>1, LeftTypes
<1>2. /\ hd' = [hd EXCEPT ![r] = hd'[r]] /\ HandlerLeft[hd'[r]] < HandlerLeft[hd[r]]
      /\ HandlerLeft[hd'[r]] <= HandlerLeft[hd[r]]
  BY LeftValues DEF HandlerStep, Accept, ReadRequest, ReadError, MakeLeaf, WriteLimits,
     Rollback, RejectEmpty, StartWorker, StartFails, UndoLeaf, WriteReply
<1>3. reaper' = [reaper EXCEPT ![r] = reaper'[r]] /\ ReaperLeft[reaper'[r]] <= ReaperLeft[reaper[r]]
  <2>1. ASSUME NEW p \in Pids, StartWorker(r, p)
        PROVE  reaper[r] = "none" /\ reaper' = [reaper EXCEPT ![r] = "wait"]
    BY <2>1 DEF StartWorker, Born, BirthOrder, Early
  <2>2. CASE reaper' = reaper
    BY <2>2, LeftTypes
  <2>3. CASE \E p \in Pids : StartWorker(r, p)
    BY <2>1, <2>3, LeftValues
  <2> QED
    BY <2>2, <2>3 DEF HandlerStep, Accept, ReadRequest, ReadError, MakeLeaf, WriteLimits,
       Rollback, RejectEmpty, StartFails, UndoLeaf, WriteReply
<1> QED
  BY <1>1, <1>2, <1>3 DEF GoesOn, Keeps

\* A reaper's step takes the reaper on.
LEMMA ReaperDown ==
    ASSUME ProcInv, NEW r \in Requests, ReaperStep(r)
    PROVE  GoesOn(r) /\ \A q \in Requests \ {r} : Keeps(q)
<1> USE DEF ProcInv, TypeOK, motherVars, clientVars, procVars
<1>1. UNCHANGED <<hd, client>>
  BY DEF ReaperStep, ReaperWait, ReaperDestroy
<1>2. /\ HandlerLeft[hd'[r]] <= HandlerLeft[hd[r]]
      /\ ClientLeft[client'[r]] <= ClientLeft[client[r]]
  BY <1>1, LeftTypes
<1>3. /\ reaper' = [reaper EXCEPT ![r] = reaper'[r]]
      /\ ReaperLeft[reaper'[r]] < ReaperLeft[reaper[r]]
      /\ ReaperLeft[reaper'[r]] <= ReaperLeft[reaper[r]]
  BY LeftValues DEF ReaperStep, ReaperWait, ReaperDestroy
<1> QED
  BY <1>1, <1>2, <1>3 DEF GoesOn, Keeps

\* A client's step takes it on; dialling makes its handler.
LEMMA ClientDown ==
    ASSUME ProcInv, NEW r \in Requests, ClientStep(r)
    PROVE  GoesOn(r) /\ \A q \in Requests \ {r} : Keeps(q)
<1> USE DEF ProcInv, TypeOK, Goto, motherVars, clientVars, procVars
<1>1. reaper' = reaper /\ ReaperLeft[reaper'[r]] <= ReaperLeft[reaper[r]]
  <2>1. reaper' = reaper
    BY DEF ClientStep, Dial, Send, ReadReply, ClientFails
  <2> QED
    BY <2>1, LeftTypes
<1>2. hd' = [hd EXCEPT ![r] = hd'[r]] /\ HandlerLeft[hd'[r]] <= HandlerLeft[hd[r]]
  <2>1. CASE Dial(r)
    BY <2>1, LeftValues DEF Dial
  <2>2. CASE hd' = hd
    BY <2>2, LeftTypes
  <2> QED
    BY <2>1, <2>2 DEF ClientStep, Send, ReadReply, ClientFails
<1>3. /\ client' = [client EXCEPT ![r] = client'[r]]
      /\ ClientLeft[client'[r]] < ClientLeft[client[r]]
      /\ ClientLeft[client'[r]] <= ClientLeft[client[r]]
  BY LeftValues DEF ClientStep, Dial, Send, ReadReply, ClientFails
<1> QED
  BY <1>1, <1>2, <1>3 DEF GoesOn, Keeps

\* Everything else leaves them, or ends them.
LEMMA WorldDown ==
    ASSUME ProcInv, NEW q \in Requests,
           \/ \E p \in Pids : WorkerExits(p) \/ InitReaps(p)
           \/ \E n \in Names : Sweep(n)
           \/ \E k \in Mothers : MotherStep(k)
           \/ RmSocket \/ Idle
    PROVE  /\ HandlerLeft[hd'[q]] <= HandlerLeft[hd[q]]
           /\ ReaperLeft[reaper'[q]] <= ReaperLeft[reaper[q]]
           /\ ClientLeft[client'[q]] <= ClientLeft[client[q]]
<1>1. /\ client' = client
      /\ hd'[q] \in {hd[q], "killed"} /\ reaper'[q] \in {reaper[q], "killed"}
  <2>1. CASE (\E k \in Mothers : MotherStep(k)) \/ RmSocket
    BY <2>1, MotherFrame DEF ProcInv, clientVars
  <2>2. CASE UNCHANGED <<client, hd, reaper>>
    BY <2>2
  <2> QED
    BY <2>1, <2>2 DEF WorkerExits, InitReaps, Sweep, Idle, vars, clientVars
<1>2. /\ HandlerLeft[hd[q]] \in 0 .. 8 /\ ReaperLeft[reaper[q]] \in 0 .. 3
      /\ ClientLeft[client[q]] \in 0 .. 3
  BY LeftTypes DEF ProcInv, TypeOK
<1> QED
  BY <1>1, <1>2, LeftValues

\* A request takes at most 14 steps of its client, handler and reaper: with
\* HandlersGoOn and ZombiesHaveReapers, the three come to their end if they
\* are let go on.
THEOREM RequestsComeToEnd == Spec => RequestsGoOn
<1> DEFINE Down == \A r \in Requests :
    /\ StepsLeft(r)' <= StepsLeft(r)
    /\ HandlerStep(r) \/ ReaperStep(r) \/ ClientStep(r) => StepsLeft(r)' < StepsLeft(r)
<1>1. ASSUME ProcInv, ProcInv', [Next]_vars PROVE [Down]_vars
  <2>0. TypeOK /\ TypeOK'
    BY <1>1 DEF ProcInv
  <2>1. ASSUME NEW r \in Requests, HandlerStep(r) \/ ReaperStep(r) \/ ClientStep(r)
        PROVE  StepsLeft(r)' < StepsLeft(r) /\ \A q \in Requests \ {r} : Keeps(q)
    BY <1>1, <2>0, <2>1, HandlerDown, ReaperDown, ClientDown, SumGoesDown DEF GoesOn
  <2>2. ASSUME NEW q \in Requests, Next PROVE StepsLeft(q)' <= StepsLeft(q)
    <3>1. CASE \E r \in Requests : HandlerStep(r) \/ ReaperStep(r) \/ ClientStep(r)
      <4> PICK r \in Requests : HandlerStep(r) \/ ReaperStep(r) \/ ClientStep(r)
        BY <3>1
      <4>1. CASE q = r
        BY <1>1, <2>0, <4>1, HandlerDown, ReaperDown, ClientDown, SumGoesDown DEF GoesOn
      <4>2. CASE q # r
        <5>1. Keeps(q)
          BY <2>1, <4>2
        <5>2. StepsLeft(q)' = StepsLeft(q)
          BY <5>1 DEF Keeps, StepsLeft
        <5>3. StepsLeft(q) \in Nat
          BY <2>0, LeftTypes DEF TypeOK, StepsLeft
        <5> QED
          BY <5>2, <5>3
      <4> QED
        BY <4>1, <4>2
    <3>2. CASE ~\E r \in Requests : HandlerStep(r) \/ ReaperStep(r) \/ ClientStep(r)
      BY <1>1, <2>0, <2>2, <3>2, WorldDown, SumGoesDown DEF Next
    <3> QED
      BY <3>1, <3>2
  <2>3. CASE Next
    BY <2>1, <2>2, <2>3
  <2> QED
    BY <1>1, <2>3
<1> QED
  BY <1>1, ProcInvCorrect, PTL DEF Spec, RequestsGoOn
=============================================================================
