-------------------------- MODULE LauncherRunProofs --------------------------
(***************************************************************************)
(* Proofs about LauncherRun, for any number of runs, any ids, shared or    *)
(* not, and any bundles.                                                   *)
(***************************************************************************)
EXTENDS LauncherRun, TLAPS

\* Where Run is, and what that says of its runtime and its watch goroutine.
InStep(l) ==
    /\ pc[l] \in {"prepare", "config", "state", "start", "unprepared"} => rt[l] = "none"
    /\ pc[l] = "wait" => rt[l] \notin {"none", "reaped"}
    /\ pc[l] \in {"waitWatch", "check"} => rt[l] = "reaped"
    /\ rt[l] \in {"starting", "running", "zombie"} => pc[l] \in {"wait", "crashed"}
    /\ rt[l] \in {"zombie", "reaped"} <=> status[l] # None
    /\ watch[l] # "off" => pc[l] \in {"wait", "waitWatch"}
    /\ pc[l] = "wait" => watch[l] # "off"
    /\ watch[l] = "late" => rt[l] \notin {"starting", "running"}

\* A runtime is only ever told to stop because the context has expired.
Ordered(l) ==
    /\ l \in told => l \in expired
    /\ watch[l] \in {"delay", "late"} => l \in expired

\* The bundle, by the place Run has reached.
Bundle(l) ==
    /\ bundle[l] \in Dirs \cup {l, None}
    /\ pc[l] = "prepare" => bundle[l] = None /\ l \notin tmp
    /\ pc[l] \notin {"prepare", "unprepared", "crashed"} \/ rt[l] # "none" =>
         bundle[l] # None
    /\ bundle[l] = l /\ pc[l] \notin {"prepare", "unprepared", "done", "crashed"} => l \in tmp
    /\ bundle[l] = l /\ pc[l] = "done" /\ l \notin KeepBundle => l \notin tmp

\* What it has in its config.json, and what its container was made from.
Config(l) ==
    /\ config[l] \in {None, Part, l}
    /\ bundle[l] = l /\ pc[l] = "config" => config[l] = Part
    /\ bundle[l] = l /\ (pc[l] \in {"state", "start"} \/ rt[l] = "starting") => config[l] = l
    /\ bundle[l] \in Dirs /\ pc[l] \notin {"prepare", "unprepared"} => config[bundle[l]] # Stale
    /\ rt[l] = "none" => ran[l] = None
    /\ ran[l] # None => \/ ran[l] = l
                        \/ ran[l] \in Runs /\ bundle[l] \in Dirs /\ bundle[ran[l]] = bundle[l]

\* A directory given with --bundle holds the spec of a run that was given it.
DirOf(d) == config[d] \in Runs => bundle[config[d]] = d

\* The exit code and the error, from the moment Wait has returned.
Result(l) ==
    /\ pc[l] \in {"prepare", "config", "state", "start", "wait", "waitWatch", "check"} =>
         ~err[l]
    /\ pc[l] = "check" =>
         code[l] = IF status[l] = 0 /\ l \in told THEN -1 ELSE WaitCode(status[l])
    /\ pc[l] \in {"delete", "cleanup", "done"} /\ rt[l] = "reaped" =>
         \/ code[l] = WaitCode(status[l])
         \/ status[l] = 0 /\ l \in told /\ code[l] = Killed
    /\ pc[l] = "delete" => err[l] /\ (l \in expired \/ rt[l] = "none")
    /\ pc[l] \in {"prepare", "config", "state", "start", "wait", "waitWatch", "unprepared"} =>
         code[l] = -1
    /\ pc[l] = "unprepared" => err[l]
    /\ pc[l] \in {"delete", "cleanup", "done"} /\ rt[l] = "none" => err[l] /\ code[l] = -1
    /\ err[l] /\ rt[l] = "reaped" => l \in expired
    /\ l \in undeleted /\ pc[l] # "crashed" => err[l]
    /\ pc[l] \in {"cleanup", "done"} /\ l \in told => err[l]

\* A container in the table has its runtime, or a cancelled Run that has yet
\* to delete it by force; or that has failed, or nobody has noticed.
Tabled(l) == ctr[Id[l]] = l =>
    \/ rt[l] = "running"
    \/ l \in undeleted
    \/ l \in expired /\ pc[l] \in {"wait", "waitWatch", "check", "delete", "crashed"}
    \/ /\ status[l] = SigKill
       /\ \/ pc[l] \in {"wait", "waitWatch", "check", "delete", "crashed"}
          \/ pc[l] \in {"cleanup", "done"} /\ code[l] = Killed /\ ~err[l]

RunInv(l) == InStep(l) /\ Ordered(l) /\ Bundle(l) /\ Config(l) /\ Result(l) /\ Tabled(l)

IInv == TypeOK /\ (\A l \in Runs : RunInv(l)) /\ (\A d \in Dirs : DirOf(d))

-----------------------------------------------------------------------------
\* waitExitCode yields a code a shell can show, for every wait status.
LEMMA WaitCodeRange ==
    ASSUME NEW s \in Status
    PROVE  WaitCode(s) \in 0 .. 255
BY DEF WaitCode, Status, SigTerm, SigKill

LEMMA PartNotStale == Part # Stale
BY DEF Part, Stale

LEMMA InitIInv == Init => IInv
<1> SUFFICES ASSUME Init PROVE IInv
  OBVIOUS
<1>1. TypeOK
  BY DirAssumption DEF Init, TypeOK, Phases
<1>2. ASSUME NEW d \in Dirs PROVE DirOf(d)
  BY DirAssumption DEF Init, DirOf
<1>3. ASSUME NEW l \in Runs PROVE RunInv(l)
  BY DirAssumption, RunAssumption, IdAssumption, CodeAssumption
  DEF Init, RunInv, InStep, Ordered, Bundle, Config, Result, Tabled
<1> QED
  BY <1>1, <1>2, <1>3 DEF IInv

-----------------------------------------------------------------------------
\* Types are kept by every step.
LEMMA StepType ==
    ASSUME IInv, NEW l \in Runs,
           \/ RunStep(l) \/ WatchStep(l) \/ RuntimeStep(l)
           \/ \E c \in ExitCodes : FirstExits(l, c)
           \/ RtKilled(l) \/ Expire(l) \/ Crash(l)
    PROVE  TypeOK'
<1> USE CodeAssumption, IdAssumption, RunAssumption, DirAssumption
<1> USE DEF IInv, TypeOK, Phases, Goto, Fail, bundleVars, resultVars, runtimeVars, RtExit
<1>1. ASSUME PrepareFails(l) PROVE TypeOK'
  BY <1>1 DEF PrepareFails, MakeDir
<1>2. ASSUME Prepare(l) PROVE TypeOK'
  BY <1>2 DEF Prepare, MakeDir, OpenConfig
<1>20. ASSUME WriteConfig(l) PROVE TypeOK'
  BY <1>20 DEF WriteConfig, OpenConfig
<1>3. ASSUME StateDir(l) PROVE TypeOK'
  <2>1. CASE Goto(l, "state", "start") /\ UNCHANGED resultVars
    BY <1>3, <2>1 DEF StateDir
  <2>2. CASE Goto(l, "state", "cleanup") /\ Fail(l)
    BY <1>3, <2>2 DEF StateDir
  <2> QED
    BY <1>3, <2>1, <2>2 DEF StateDir
<1>4. ASSUME StartFails(l) PROVE TypeOK'
  BY <1>4 DEF StartFails
<1>5. ASSUME Start(l) PROVE TypeOK'
  BY <1>5 DEF Start
<1>6. ASSUME WaitProcess(l) PROVE TypeOK'
  BY <1>6 DEF WaitProcess
<1>7. ASSUME WaitWatch(l) PROVE TypeOK'
  <2>1. status[l] \in Status
    BY <1>7 DEF WaitWatch, RunInv, InStep
  <2>2. WaitCode(status[l]) \in -1 .. 255
    BY <2>1, WaitCodeRange
  <2> QED
    BY <1>7, <2>2 DEF WaitWatch
<1>8. ASSUME Check(l) PROVE TypeOK'
  <2>1. CASE l \in expired \/ code[l] < 0
    <3>1. (IF l \in expired /\ code[l] < 0 THEN Killed ELSE code[l]) \in -1 .. 255
      BY DEF Killed
    <3>2. code' \in [Runs -> -1 .. 255]
      BY <1>8, <2>1, <3>1 DEF Check
    <3>3. pc' = [pc EXCEPT ![l] = "delete"] /\ err' = [err EXCEPT ![l] = TRUE]
      BY <1>8, <2>1 DEF Check
    <3> QED
      BY <1>8, <3>2, <3>3 DEF Check
  <2>2. CASE ~(l \in expired \/ code[l] < 0)
    BY <1>8, <2>2 DEF Check
  <2> QED
    BY <2>1, <2>2
<1>9. ASSUME ForceDelete(l) PROVE TypeOK'
  BY <1>9 DEF ForceDelete, Killed
<1>10. ASSUME Cleanup(l) PROVE TypeOK'
  BY <1>10 DEF Cleanup, RemoveBundle
<1>11. ASSUME WatchCancel(l) PROVE TypeOK'
  BY <1>11 DEF WatchCancel
<1>12. ASSUME WatchKill(l) PROVE TypeOK'
  BY <1>12 DEF WatchKill, Status
<1>13. ASSUME RtCreate(l) PROVE TypeOK'
  <2>1. bundle[l] \in Runs \cup Dirs
    BY <1>13 DEF RtCreate, RunInv, Bundle
  <2>2. config[bundle[l]] \in Runs \cup {Stale}
    BY <1>13, <2>1 DEF RtCreate
  <2> QED
    BY <1>13, <2>2 DEF RtCreate
<1>14. ASSUME RtRefuses(l) PROVE TypeOK'
  BY <1>14 DEF RtRefuses, Status
<1>15. ASSUME RtEnds(l) PROVE TypeOK'
  BY <1>15 DEF RtEnds, Status
<1>16. ASSUME NEW c \in ExitCodes, FirstExits(l, c) PROVE TypeOK'
  BY <1>16 DEF FirstExits
<1>17. ASSUME RtKilled(l) PROVE TypeOK'
  BY <1>17 DEF RtKilled, Status
<1>18. ASSUME Expire(l) PROVE TypeOK'
  BY <1>18 DEF Expire
<1>19. ASSUME Crash(l) PROVE TypeOK'
  BY <1>19 DEF Crash
<1> QED
  BY <1>1, <1>2, <1>3, <1>4, <1>5, <1>6, <1>7, <1>8, <1>9, <1>10, <1>11,
     <1>12, <1>13, <1>14, <1>15, <1>16, <1>17, <1>18, <1>19,
     <1>20
  DEF RunStep, WatchStep, RuntimeStep

-----------------------------------------------------------------------------
\* Run q's part of the invariant is kept by every step of every run l.
LEMMA StepRun ==
    ASSUME IInv, NEW l \in Runs, NEW q \in Runs,
           \/ RunStep(l) \/ WatchStep(l) \/ RuntimeStep(l)
           \/ \E c \in ExitCodes : FirstExits(l, c)
           \/ RtKilled(l) \/ Expire(l) \/ Crash(l)
    PROVE  RunInv(q)'
<1> USE CodeAssumption, IdAssumption, RunAssumption, DirAssumption
<1> USE DEF IInv, TypeOK, Phases, Goto, Fail, bundleVars, resultVars, runtimeVars, RtExit,
            RunInv, InStep, Ordered, Bundle, Config, Result, Tabled, Ended, Status
<1>1. ASSUME PrepareFails(l) PROVE RunInv(q)'
  BY <1>1 DEF PrepareFails, MakeDir
<1>2. ASSUME Prepare(l) PROVE RunInv(q)'
  <2>1. InStep(q)'
    BY <1>2, PartNotStale DEF Prepare, MakeDir, OpenConfig
  <2>2. Ordered(q)'
    BY <1>2, PartNotStale DEF Prepare, MakeDir, OpenConfig
  <2>3. Bundle(q)'
    BY <1>2, PartNotStale DEF Prepare, MakeDir, OpenConfig
  <2>4. Config(q)'
    BY <1>2, PartNotStale DEF Prepare, MakeDir, OpenConfig
  <2>5. Result(q)'
    BY <1>2, PartNotStale DEF Prepare, MakeDir, OpenConfig
  <2>6. Tabled(q)'
    BY <1>2, PartNotStale DEF Prepare, MakeDir, OpenConfig
  <2> QED
    BY <2>1, <2>2, <2>3, <2>4, <2>5, <2>6
<1>20. ASSUME WriteConfig(l) PROVE RunInv(q)'
  <2>1. InStep(q)'
    BY <1>20, PartNotStale DEF WriteConfig, OpenConfig
  <2>2. Ordered(q)'
    BY <1>20, PartNotStale DEF WriteConfig, OpenConfig
  <2>3. Bundle(q)'
    BY <1>20, PartNotStale DEF WriteConfig, OpenConfig
  <2>4. Config(q)'
    BY <1>20, PartNotStale DEF WriteConfig, OpenConfig
  <2>5. Result(q)'
    BY <1>20, PartNotStale DEF WriteConfig, OpenConfig
  <2>6. Tabled(q)'
    BY <1>20, PartNotStale DEF WriteConfig, OpenConfig
  <2> QED
    BY <2>1, <2>2, <2>3, <2>4, <2>5, <2>6
<1>3. ASSUME StateDir(l) PROVE RunInv(q)'
  BY <1>3 DEF StateDir
<1>4. ASSUME StartFails(l) PROVE RunInv(q)'
  BY <1>4 DEF StartFails
<1>5. ASSUME Start(l) PROVE RunInv(q)'
  BY <1>5 DEF Start
<1>6. ASSUME WaitProcess(l) PROVE RunInv(q)'
  BY <1>6 DEF WaitProcess
<1>7. ASSUME WaitWatch(l) PROVE RunInv(q)'
  BY <1>7 DEF WaitWatch
<1>8. ASSUME Check(l) PROVE RunInv(q)'
  <2>1. WaitCode(status[l]) \in 0 .. 255
    <3>1. status[l] \in Status
      BY <1>8 DEF Check
    <3> QED
      BY <3>1, WaitCodeRange
  <2>2. code[l] < 0 => status[l] = 0 /\ l \in told
    BY <1>8, <2>1 DEF Check
  <2> QED
    BY <1>8, <2>1, <2>2 DEF Check, Killed, WaitCode, SigKill
<1>9. ASSUME ForceDelete(l) PROVE RunInv(q)'
  BY <1>9 DEF ForceDelete
<1>10. ASSUME Cleanup(l) PROVE RunInv(q)'
  BY <1>10 DEF Cleanup, RemoveBundle
<1>11. ASSUME WatchCancel(l) PROVE RunInv(q)'
  BY <1>11 DEF WatchCancel
<1>12. ASSUME WatchKill(l) PROVE RunInv(q)'
  BY <1>12 DEF WatchKill, SigKill
<1>13. ASSUME RtCreate(l) PROVE RunInv(q)'
  <2>1. InStep(q)'
    BY <1>13 DEF RtCreate
  <2>2. Ordered(q)'
    BY <1>13 DEF RtCreate
  <2>3. Bundle(q)'
    BY <1>13 DEF RtCreate
  <2>4. Config(q)'
    <3>1. CASE q = l /\ bundle[l] = l
      BY <1>13, <3>1 DEF RtCreate
    <3>2. CASE q = l /\ bundle[l] \in Dirs
      <4>1. config[bundle[l]] \in Runs /\ bundle[config[bundle[l]]] = bundle[l]
        BY <1>13, <3>2 DEF RtCreate, DirOf
      <4> QED
        BY <1>13, <3>2, <4>1 DEF RtCreate
    <3>3. CASE q # l
      BY <1>13, <3>3 DEF RtCreate
    <3>4. bundle[l] \in Dirs \cup {l}
      BY <1>13 DEF RtCreate
    <3> QED
      BY <3>1, <3>2, <3>3, <3>4
  <2>5. Result(q)'
    BY <1>13 DEF RtCreate
  <2>6. Tabled(q)'
    BY <1>13 DEF RtCreate
  <2> QED
    BY <2>1, <2>2, <2>3, <2>4, <2>5, <2>6
<1>14. ASSUME RtRefuses(l) PROVE RunInv(q)'
  <2>1. InStep(q)'
    BY <1>14 DEF RtRefuses, SigTerm
  <2>2. Ordered(q)'
    BY <1>14 DEF RtRefuses, SigTerm
  <2>3. Bundle(q)'
    BY <1>14 DEF RtRefuses, SigTerm
  <2>4. Config(q)'
    BY <1>14 DEF RtRefuses, SigTerm
  <2>5. Result(q)'
    BY <1>14 DEF RtRefuses, SigTerm
  <2>6. Tabled(q)'
    BY <1>14 DEF RtRefuses, SigTerm, SigKill
  <2> QED
    BY <2>1, <2>2, <2>3, <2>4, <2>5, <2>6
<1>15. ASSUME RtEnds(l) PROVE RunInv(q)'
  BY <1>15 DEF RtEnds
<1>16. ASSUME NEW c \in ExitCodes, FirstExits(l, c) PROVE RunInv(q)'
  BY <1>16 DEF FirstExits
<1>17. ASSUME RtKilled(l) PROVE RunInv(q)'
  BY <1>17 DEF RtKilled, SigKill
<1>18. ASSUME Expire(l) PROVE RunInv(q)'
  BY <1>18 DEF Expire
<1>19. ASSUME Crash(l) PROVE RunInv(q)'
  BY <1>19 DEF Crash
<1> QED
  BY <1>1, <1>2, <1>3, <1>4, <1>5, <1>6, <1>7, <1>8, <1>9, <1>10, <1>11,
     <1>12, <1>13, <1>14, <1>15, <1>16, <1>17, <1>18, <1>19,
     <1>20
  DEF RunStep, WatchStep, RuntimeStep

\* A shared config.json is only ever written by a run that was given it.
LEMMA StepDir ==
    ASSUME IInv, Next, NEW d \in Dirs
    PROVE  DirOf(d)'
<1> USE CodeAssumption, DirAssumption
<1> USE DEF IInv, TypeOK, DirOf
<1>1. ASSUME NEW l \in Runs, Prepare(l) PROVE DirOf(d)'
  BY <1>1 DEF Prepare, MakeDir, OpenConfig, Goto, RunInv, Bundle
<1>2. ASSUME NEW l \in Runs, WriteConfig(l) PROVE DirOf(d)'
  BY <1>2 DEF WriteConfig, OpenConfig, Goto, RunInv, Bundle
<1>3. ASSUME NEW l \in Runs, PrepareFails(l) PROVE DirOf(d)'
  BY <1>3 DEF PrepareFails, MakeDir, bundleVars, Goto, RunInv, Bundle
<1>4. ASSUME NEW l \in Runs, Cleanup(l) PROVE DirOf(d)'
  BY <1>4 DEF Cleanup, RemoveBundle
<1>5. ASSUME NEW l \in Runs,
             \/ StateDir(l) \/ StartFails(l) \/ Start(l) \/ WaitProcess(l) \/ WaitWatch(l)
             \/ Check(l) \/ ForceDelete(l) \/ WatchStep(l) \/ RuntimeStep(l)
             \/ \E c \in ExitCodes : FirstExits(l, c)
             \/ RtKilled(l) \/ Expire(l) \/ Crash(l)
      PROVE  UNCHANGED bundleVars
  BY <1>5 DEF StateDir, StartFails, Start, WaitProcess, WaitWatch, Check, ForceDelete,
              WatchStep, WatchCancel, WatchKill, RuntimeStep, RtCreate, RtRefuses, RtEnds,
              FirstExits, RtKilled, Expire, Crash
<1> QED
  BY <1>1, <1>2, <1>3, <1>4, <1>5 DEF Next, RunStep, bundleVars

LEMMA StepIInv == IInv /\ [Next]_vars => IInv'
<1> SUFFICES ASSUME IInv, [Next]_vars PROVE IInv'
  OBVIOUS
<1>1. CASE Next
  BY <1>1, StepType, StepRun, StepDir DEF Next, IInv
<1>2. CASE UNCHANGED vars
  BY <1>2 DEF vars, IInv, TypeOK, DirOf, RunInv, InStep, Ordered, Bundle, Config, Result, Tabled
<1> QED
  BY <1>1, <1>2

LEMMA Inductive == Spec => []IInv
BY InitIInv, StepIInv, PTL DEF Spec

-----------------------------------------------------------------------------
\* Every variable keeps its type; the exit code stays in -1 .. 255.
THEOREM RunTypeCorrect == Spec => []TypeOK
<1>1. IInv => TypeOK
  BY DEF IInv
<1> QED
  BY Inductive, <1>1, PTL

\* The temporary bundle outlives the runtime that reads it, and not the Run
\* that made it.
THEOREM BundleKept == Spec => []BundleLifetime
<1>1. IInv => BundleLifetime
  BY DEF IInv, TypeOK, Phases, RunInv, InStep, Bundle, BundleLifetime
<1> QED
  BY Inductive, <1>1, PTL

\* A container is made from its own run's spec; a stale one is never used.
THEOREM ConfigIsOwn == Spec => []OwnConfig
<1>1. IInv => OwnConfig
  BY DEF IInv, RunInv, Config, OwnConfig
<1> QED
  BY Inductive, <1>1, PTL

\* The exit status is the runtime's, but for a clean exit after SIGTERM.
THEOREM CodeIsRelayed == Spec => []CodeRelayed
<1>1. ASSUME IInv PROVE CodeRelayed
  <2> SUFFICES ASSUME NEW l \in Runs, pc[l] = "done", rt[l] = "reaped"
               PROVE  \/ ExitStatus(l) = WaitCode(status[l])
                      \/ status[l] = 0 /\ l \in told /\ ExitStatus(l) = Killed
    BY DEF CodeRelayed
  <2>1. WaitCode(status[l]) \in 0 .. 255
    <3>1. status[l] \in Status
      BY <1>1 DEF IInv, TypeOK, RunInv, InStep
    <3> QED
      BY <3>1, WaitCodeRange
  <2> QED
    BY <1>1, <2>1 DEF IInv, TypeOK, RunInv, Result, ExitStatus, Killed
<1> QED
  BY Inductive, <1>1, PTL

\* A cancellation that reached the runtime is always reported as an error.
THEOREM CancelIsReported == Spec => []CancelReported
<1>1. IInv => CancelReported
  BY DEF IInv, RunInv, Result, CancelReported
<1> QED
  BY Inductive, <1>1, PTL

\* No container outlives the Run it was made for, but after a failed forced
\* delete or a runtime killed by somebody else.
THEOREM NothingOutlivesRun == Spec => []NoContainerLeft
<1>1. IInv => NoContainerLeft
  BY DEF IInv, TypeOK, Phases, RunInv, InStep, Result, Tabled, NoContainerLeft
<1> QED
  BY Inductive, <1>1, PTL

\* Only a cancelled or unstarted run deletes a container it does not run.
THEOREM OthersAreSpared == Spec => ContainerSpared
<1> DEFINE Spared == \A i \in Ids : ctr[i] # None /\ ctr'[i] # ctr[i] =>
        \/ rt[ctr[i]] = "running" /\ rt'[ctr[i]] = "zombie"
        \/ \E l \in Runs : /\ Id[l] = i /\ pc[l] = "delete"
                           /\ (l \in expired \/ rt[l] = "none")
<1>1. ASSUME IInv, [Next]_vars PROVE [Spared]_vars
  <2> USE CodeAssumption, IdAssumption
  <2>1. ASSUME NEW l \in Runs, ForceDelete(l) PROVE Spared
    BY <1>1, <2>1 DEF ForceDelete, Goto, IInv, TypeOK, RunInv, Result
  <2>2. ASSUME NEW l \in Runs, RtEnds(l) PROVE Spared
    BY <1>1, <2>2 DEF RtEnds, RtExit, IInv, TypeOK
  <2>3. ASSUME NEW l \in Runs, RtCreate(l) PROVE Spared
    BY <1>1, <2>3 DEF RtCreate, IInv, TypeOK
  <2>4. ASSUME NEW l \in Runs,
               \/ Prepare(l) \/ WriteConfig(l) \/ PrepareFails(l) \/ StateDir(l) \/ StartFails(l)
               \/ Start(l) \/ WaitProcess(l) \/ WaitWatch(l) \/ Check(l)
               \/ Cleanup(l) \/ WatchStep(l) \/ RtRefuses(l)
               \/ \E c \in ExitCodes : FirstExits(l, c)
               \/ RtKilled(l) \/ Expire(l) \/ Crash(l)
        PROVE  ctr' = ctr
    BY <2>4 DEF PrepareFails, Prepare, WriteConfig, StateDir, StartFails, Start, WaitProcess,
                WaitWatch, Check, Cleanup, WatchStep, WatchCancel, WatchKill,
                RtRefuses, FirstExits, RtKilled, Expire, Crash, runtimeVars
  <2>5. CASE Next
    BY <2>1, <2>2, <2>3, <2>4, <2>5 DEF Next, RunStep, RuntimeStep
  <2> QED
    BY <1>1, <2>5
<1> QED
  BY Inductive, <1>1, PTL DEF Spec, ContainerSpared

-----------------------------------------------------------------------------
(* Run implements RunService.                                              *)

\* A step that leaves Run of l where it has not ended, and the other runs as
\* they are, shows nobody an answer.
LEMMA StillPending ==
    ASSUME NEW l \in Runs, pc[l] \notin Ended, pc'[l] \notin Ended,
           \A q \in Runs \ {l} :
               pc'[q] = pc[q] /\ code'[q] = code[q] /\ err'[q] = err[q]
    PROVE  UNCHANGED [q \in Runs |-> Outcome(q)]
<1>1. ASSUME NEW q \in Runs PROVE Outcome(q)' = Outcome(q)
  <2>1. CASE q = l
    BY <2>1 DEF Outcome, Ended
  <2>2. CASE q # l
    BY <2>2 DEF Outcome, ExitStatus
  <2> QED
    BY <2>1, <2>2
<1> QED
  BY <1>1

LEMMA AnswerKept ==
    ASSUME UNCHANGED <<pc, code, err>>
    PROVE  UNCHANGED [q \in Runs |-> Outcome(q)]
BY DEF Outcome, ExitStatus

\* What Run does before it returns, and what nobody else sees.
LEMMA RunStutters ==
    ASSUME IInv, NEW l \in Runs,
           \/ Prepare(l) \/ WriteConfig(l) \/ StateDir(l) \/ StartFails(l)
           \/ WaitProcess(l) \/ WaitWatch(l) \/ Check(l)
    PROVE  UNCHANGED Service!vars
<1>1. /\ pc[l] \notin Ended /\ pc'[l] \notin Ended
      /\ \A q \in Runs \ {l} : pc'[q] = pc[q] /\ code'[q] = code[q] /\ err'[q] = err[q]
  BY DEF Prepare, WriteConfig, StateDir, StartFails, WaitProcess, WaitWatch, Check,
         Goto, Fail, resultVars, Ended, IInv, TypeOK
<1>2. UNCHANGED [q \in Runs |-> Outcome(q)]
  BY <1>1, StillPending
<1>3. UNCHANGED <<status, ctr, expired, told>>
  BY DEF Prepare, WriteConfig, StateDir, StartFails, WaitProcess, WaitWatch, Check, runtimeVars
<1>4. UNCHANGED [q \in Runs |-> Proc(q)]
  <2>1. CASE WaitProcess(l)
    BY <2>1 DEF WaitProcess, Proc, IInv, TypeOK
  <2>2. CASE rt' = rt
    BY <2>2 DEF Proc
  <2> QED
    BY <2>1, <2>2 DEF Prepare, WriteConfig, StateDir, StartFails, WaitWatch, Check, runtimeVars
<1> QED
  BY <1>2, <1>3, <1>4 DEF Service!vars

\* The moment a run returns: from prepareBundle, or after the cleanup.
LEMMA RunReturns ==
    ASSUME IInv, NEW l \in Runs, PrepareFails(l) \/ Cleanup(l)
    PROVE  Service!Return(l)
<1> DEFINE ans == [q \in Runs |-> Outcome(q)]
<1>1. /\ pc[l] \in {"prepare", "config", "cleanup"} /\ pc' = [pc EXCEPT ![l] = pc'[l]]
      /\ pc'[l] \in {"unprepared", "done"}
      /\ code' = code /\ err' = [err EXCEPT ![l] = err'[l]]
      /\ UNCHANGED <<rt, status, ctr, expired, told>>
  BY DEF PrepareFails, Cleanup, Goto, Fail, resultVars, runtimeVars, IInv, TypeOK
<1>2. ans[l] = Service!Pending
  BY <1>1 DEF Outcome, Service!Pending, Service!Answer
<1>3. ans' = [ans EXCEPT ![l] = Outcome(l)']
  <2>1. ASSUME NEW q \in Runs, q # l PROVE Outcome(q)' = Outcome(q)
    BY <1>1, <2>1 DEF Outcome, ExitStatus, IInv, TypeOK
  <2> QED
    BY <2>1
<1>4. UNCHANGED <<[q \in Runs |-> Proc(q)], status, ctr, expired, told>>
  BY <1>1 DEF Proc
<1>5. CASE PrepareFails(l)
  <2>1. Proc(l) = "none" /\ err'[l] = TRUE /\ code'[l] = -1 /\ pc'[l] = "unprepared"
    BY <1>1, <1>5 DEF PrepareFails, Fail, Goto, Proc, IInv, RunInv, InStep, Result, TypeOK
  <2>3. ExitStatus(l)' = 1
    BY <2>1 DEF ExitStatus
  <2>2. Outcome(l)' = Service!Answer("returned", 1, TRUE)
    BY <2>1, <2>3 DEF Outcome, Service!Answer
  <2> QED
    BY <1>2, <1>3, <1>4, <2>1, <2>2 DEF Service!Return
<1>6. CASE Cleanup(l)
  <2>1. /\ pc[l] = "cleanup" /\ pc'[l] = "done" /\ err'[l] = err[l] /\ code'[l] = code[l]
        /\ rt[l] \in {"none", "reaped"}
    BY <1>6 DEF Cleanup, Goto, resultVars, IInv, RunInv, InStep, TypeOK
  <2>2. CASE rt[l] = "none"
    <3>1. Proc(l) = "none" /\ err[l] = TRUE /\ code[l] = -1
      BY <2>1, <2>2 DEF Proc, IInv, RunInv, Result, TypeOK
    <3>3. ExitStatus(l)' = 1
      BY <2>1, <3>1 DEF ExitStatus
    <3>2. Outcome(l)' = Service!Answer("returned", 1, TRUE)
      BY <2>1, <3>1, <3>3 DEF Outcome, Service!Answer
    <3> QED
      BY <1>2, <1>3, <1>4, <3>1, <3>2 DEF Service!Return
  <2>3. CASE rt[l] = "reaped"
    <3>1. /\ Proc(l) = "over"
          /\ status[l] \in Status
      BY <2>3 DEF Proc, IInv, RunInv, InStep, TypeOK
    <3>2. WaitCode(status[l]) \in 0 .. 255 /\ Service!Shown(status[l]) = WaitCode(status[l])
      BY <3>1, WaitCodeRange DEF WaitCode, Service!Shown
    <3>3. /\ \/ code[l] = Service!Shown(status[l])
             \/ code[l] = Service!Killed /\ status[l] = 0 /\ l \in told
          /\ code[l] \in 0 .. 255
      BY <2>1, <2>3, <3>2 DEF IInv, RunInv, Result, Killed, Service!Killed, Service!Shown, SigKill
    <3>4. /\ l \in told => err[l]
          /\ err[l] => l \in expired
          /\ ~err[l] => ctr[Id[l]] # l \/ status[l] = SigKill
          /\ err[l] \in BOOLEAN
      BY <2>1, <2>3 DEF IInv, RunInv, Result, Tabled, TypeOK
    <3>5. Outcome(l)' = Service!Answer("returned", code[l], err[l])
      BY <2>1, <3>3 DEF Outcome, ExitStatus, Service!Answer
    <3> QED
      BY <1>2, <1>3, <1>4, <3>1, <3>3, <3>4, <3>5 DEF Service!Return
  <2> QED
    BY <2>1, <2>2, <2>3
<1> QED
  BY <1>5, <1>6

\* The steps of a run, its watch goroutine, its runtime and the world around.
LEMMA ServiceNext ==
    ASSUME IInv, [Next]_vars
    PROVE  [Service!Next]_(Service!vars)
<1> USE CodeAssumption, IdAssumption
<1>1. ASSUME NEW l \in Runs, Start(l) PROVE Service!Start(l)
  <2>1. pc[l] = "start" /\ pc' = [pc EXCEPT ![l] = "wait"] /\ rt[l] = "none"
    BY <1>1 DEF Start, Goto, IInv, RunInv, InStep
  <2>2. UNCHANGED [q \in Runs |-> Outcome(q)]
    BY <1>1, <2>1, StillPending DEF Start, resultVars, Ended, IInv, TypeOK
  <2>3. Outcome(l) = Service!Pending
    BY <2>1 DEF Outcome, Service!Pending, Service!Answer
  <2>4. [q \in Runs |-> Proc(q)]' = [[q \in Runs |-> Proc(q)] EXCEPT ![l] = "starting"]
    BY <1>1 DEF Start, Proc, IInv, TypeOK
  <2> QED
    BY <1>1, <2>1, <2>2, <2>3, <2>4 DEF Start, Service!Start, Proc
<1>2. ASSUME NEW l \in Runs, RtCreate(l) PROVE Service!Create(l)
  <2>1. UNCHANGED [q \in Runs |-> Outcome(q)]
    BY <1>2, AnswerKept DEF RtCreate, resultVars
  <2>2. [q \in Runs |-> Proc(q)]' = [[q \in Runs |-> Proc(q)] EXCEPT ![l] = "running"]
    BY <1>2 DEF RtCreate, Proc, IInv, TypeOK
  <2> QED
    BY <1>2, <2>1, <2>2 DEF RtCreate, Service!Create, Proc
<1>3. ASSUME NEW l \in Runs, RtRefuses(l) \/ RtKilled(l) \/ RtEnds(l) \/ (WatchKill(l) /\ rt' # rt)
      PROVE  Service!Exit(l)
  <2>1. UNCHANGED [q \in Runs |-> Outcome(q)]
    BY <1>3, AnswerKept DEF RtRefuses, RtKilled, RtEnds, WatchKill, resultVars
  <2>2. /\ rt[l] \in {"starting", "running"} /\ rt' = [rt EXCEPT ![l] = "zombie"]
        /\ status' = [status EXCEPT ![l] = status'[l]]
        /\ UNCHANGED <<expired, told>>
    BY <1>3 DEF RtRefuses, RtKilled, RtEnds, WatchKill, RtExit, IInv, TypeOK
  <2>3. /\ status'[l] \in 0 .. 255 \cup {SigTerm, SigKill}
        /\ status'[l] = SigTerm => l \in told /\ rt[l] = "starting"
        /\ ctr' = IF rt[l] = "running" /\ status'[l] >= 0 /\ ctr[Id[l]] = l
                  THEN [ctr EXCEPT ![Id[l]] = None] ELSE ctr
    <3>1. CASE RtRefuses(l)
      BY <2>2, <3>1 DEF RtRefuses, RtExit, IInv, TypeOK, SigTerm
    <3>2. CASE RtKilled(l) \/ (WatchKill(l) /\ rt' # rt)
      BY <2>2, <3>2 DEF RtKilled, WatchKill, RtExit, IInv, TypeOK, SigKill, SigTerm
    <3>3. CASE RtEnds(l)
      BY <2>2, <3>3 DEF RtEnds, RtExit, IInv, TypeOK, SigTerm
    <3> QED
      BY <1>3, <3>1, <3>2, <3>3
  <2>4. [q \in Runs |-> Proc(q)]' = [[q \in Runs |-> Proc(q)] EXCEPT ![l] = "over"]
    BY <2>2 DEF Proc, IInv, TypeOK
  <2> QED
    BY <2>1, <2>2, <2>3, <2>4 DEF Service!Exit, Proc
<1>4. ASSUME NEW l \in Runs, WatchCancel(l) \/ (WatchKill(l) /\ rt' = rt)
      PROVE  Service!Tell(l) \/ UNCHANGED Service!vars
  <2>1. UNCHANGED [q \in Runs |-> Outcome(q)]
    BY <1>4, AnswerKept DEF WatchCancel, WatchKill, resultVars
  <2>2. UNCHANGED <<[q \in Runs |-> Proc(q)], status, ctr, expired>>
    BY <1>4 DEF WatchCancel, WatchKill, RtExit, runtimeVars, Proc, IInv, TypeOK
  <2>3. CASE told' = told
    BY <2>1, <2>2, <2>3 DEF Service!vars
  <2>4. CASE told' = told \cup {l} /\ WatchCancel(l)
    <3>1. l \in expired /\ pc[l] \in {"wait", "waitWatch"} /\ Proc(l) # "none"
      BY <2>4 DEF WatchCancel, IInv, RunInv, InStep, Proc
    <3>2. Outcome(l) = Service!Pending
      BY <3>1 DEF Outcome, Service!Pending, Service!Answer
    <3> QED
      BY <2>1, <2>2, <2>4, <3>1, <3>2 DEF Service!Tell
  <2> QED
    BY <1>4, <2>3, <2>4 DEF WatchCancel, WatchKill
<1>5. ASSUME NEW l \in Runs, ForceDelete(l) PROVE Service!Free(l) \/ UNCHANGED Service!vars
  <2>1. pc[l] = "delete" /\ pc' = [pc EXCEPT ![l] = "cleanup"]
    BY <1>5 DEF ForceDelete, Goto
  <2>2. UNCHANGED [q \in Runs |-> Outcome(q)]
    BY <1>5, <2>1, StillPending DEF ForceDelete, resultVars, Ended, IInv, TypeOK
  <2>3. UNCHANGED <<[q \in Runs |-> Proc(q)], status, expired, told>>
    BY <1>5 DEF ForceDelete, Proc
  <2>4. CASE ctr' = ctr
    BY <2>2, <2>3, <2>4 DEF Service!vars
  <2>5. CASE ctr' = [ctr EXCEPT ![Id[l]] = None]
    <3>1. Outcome(l) = Service!Pending
      BY <2>1 DEF Outcome, Service!Pending, Service!Answer
    <3>2. Proc(l) = "none" \/ (Proc(l) = "over" /\ l \in expired)
      BY <2>1 DEF Proc, IInv, TypeOK, RunInv, InStep, Result
    <3> QED
      BY <2>2, <2>3, <2>5, <3>1, <3>2 DEF Service!Free
  <2> QED
    BY <1>5, <2>4, <2>5 DEF ForceDelete
<1>6. ASSUME NEW l \in Runs, Expire(l) PROVE Service!Cancel(l)
  <2>1. UNCHANGED <<[q \in Runs |-> Outcome(q)], [q \in Runs |-> Proc(q)], status, ctr, told>>
    BY <1>6, AnswerKept DEF Expire, resultVars, runtimeVars, Proc
  <2>2. Outcome(l) = Service!Pending
    BY <1>6 DEF Expire, Outcome, Service!Pending, Service!Answer, Ended
  <2> QED
    BY <1>6, <2>1, <2>2 DEF Expire, Service!Cancel
<1>7. ASSUME NEW l \in Runs, Crash(l) PROVE Service!Lose(l)
  <2>1. UNCHANGED <<[q \in Runs |-> Proc(q)], status, ctr, expired, told>>
    BY <1>7 DEF Crash, runtimeVars, Proc
  <2>2. pc[l] \notin Ended /\ pc'[l] = "crashed"
    BY <1>7 DEF Crash, IInv, TypeOK
  <2>3. Outcome(l) = Service!Pending /\ Outcome(l)' = Service!Lost
    BY <2>2 DEF Outcome, Service!Pending, Service!Lost, Service!Answer, Ended
  <2>4. \A q \in Runs : q # l => Outcome(q)' = Outcome(q)
    BY <1>7 DEF Crash, Outcome, ExitStatus, IInv, TypeOK
  <2>5. [q \in Runs |-> Outcome(q)]' = [[q \in Runs |-> Outcome(q)] EXCEPT ![l] = Service!Lost]
    BY <2>3, <2>4
  <2> QED
    BY <2>1, <2>3, <2>5 DEF Service!Lose
<1>8. ASSUME NEW l \in Runs, NEW c \in ExitCodes, FirstExits(l, c) PROVE UNCHANGED Service!vars
  BY <1>8, AnswerKept DEF FirstExits, resultVars, Proc, Service!vars
<1>9. CASE UNCHANGED vars
  BY <1>9, AnswerKept DEF vars, Proc, Service!vars
<1>10. CASE Next
  <2> PICK l \in Runs :
        \/ RunStep(l) \/ WatchStep(l) \/ RuntimeStep(l)
        \/ \E c \in ExitCodes : FirstExits(l, c)
        \/ RtKilled(l) \/ Expire(l) \/ Crash(l)
    BY <1>10 DEF Next
  <2> QED
    BY <1>1, <1>2, <1>3, <1>4, <1>5, <1>6, <1>7, <1>8, RunStutters, RunReturns
    DEF RunStep, WatchStep, RuntimeStep, Service!Next
<1> QED
  BY <1>9, <1>10

\* Whatever the interleaving of cancellations, signals, exits and crashes,
\* what the commands do is what RunService allows.
THEOREM RunRefinesService == Spec => ImplementsRunService
<1>1. Init => Service!Init
  BY DEF Init, Service!Init, Proc, Outcome, Service!Pending, Service!Answer
<1> QED
  BY <1>1, Inductive, ServiceNext, PTL DEF Spec, ImplementsRunService, Service!Spec

-----------------------------------------------------------------------------
(* A cancelled Run returns: all of CancelTerminates but the fairness.      *)

\* Run, or its watch goroutine, has a step to take.
CanMove(l) ==
    \/ pc[l] \notin Ended \cup {"wait"}
    \/ pc[l] = "wait" /\ rt[l] = "zombie"
    \/ watch[l] = "armed" /\ l \in expired
    \/ watch[l] = "delay"

\* A cancelled Run that has not ended is never left waiting.
NeverStuck == \A l \in Runs : l \in expired /\ pc[l] \notin Ended => CanMove(l)

\* How many steps Run and its watch goroutine have left, at most.
PcRank == [p \in Phases |->
    CASE p = "prepare" -> 9 [] p = "config" -> 8 [] p = "state" -> 7
      [] p = "start" -> 6 [] p = "wait" -> 5 [] p = "waitWatch" -> 4
      [] p = "check" -> 3 [] p = "delete" -> 2 [] p = "cleanup" -> 1
      [] OTHER -> 0]
WatchRank == [w \in {"off", "armed", "delay", "late"} |->
    CASE w = "armed" -> 2 [] w = "delay" -> 1 [] OTHER -> 0]
Rank(l) == 3 * PcRank[pc[l]] + WatchRank[watch[l]]

\* Each of those steps brings the end nearer, and nothing takes it away again:
\* not the runtime, the container, other runs, or a late cancellation.
Downhill == [][\A l \in Runs :
    /\ Rank(l)' <= Rank(l)
    /\ RunStep(l) \/ WatchStep(l) => Rank(l)' < Rank(l)]_vars

\* Whatever else happens, a cancelled Run has a step to take: in Wait it has
\* its watch goroutine, and one with nothing left to do has killed the runtime.
THEOREM CancelNeverStuck == Spec => []NeverStuck
<1>1. IInv => NeverStuck
  BY DEF IInv, TypeOK, Phases, RunInv, InStep, Ended, CanMove, NeverStuck
<1> QED
  BY Inductive, <1>1, PTL

\* A rank is a natural number, whatever Run and its watch goroutine do.
LEMMA RankInNat ==
    ASSUME NEW p \in Phases, NEW w \in {"off", "armed", "delay", "late"}
    PROVE  3 * PcRank[p] + WatchRank[w] \in Nat
<1>1. PcRank[p] \in 0 .. 9
  BY DEF PcRank, Phases
<1>2. WatchRank[w] \in 0 .. 2
  BY DEF WatchRank
<1> QED
  BY <1>1, <1>2

LEMMA RankType ==
    ASSUME TypeOK, NEW l \in Runs
    PROVE  Rank(l) \in Nat
BY RankInNat DEF TypeOK, Rank

\* The rank of each place, for the provers.
LEMMA RankValues ==
    /\ PcRank["prepare"] = 9 /\ PcRank["config"] = 8 /\ PcRank["state"] = 7
    /\ PcRank["start"] = 6 /\ PcRank["wait"] = 5 /\ PcRank["waitWatch"] = 4
    /\ PcRank["check"] = 3 /\ PcRank["delete"] = 2 /\ PcRank["cleanup"] = 1
    /\ PcRank["done"] = 0 /\ PcRank["unprepared"] = 0 /\ PcRank["crashed"] = 0
    /\ WatchRank["off"] = 0 /\ WatchRank["armed"] = 2
    /\ WatchRank["delay"] = 1 /\ WatchRank["late"] = 0
BY DEF PcRank, WatchRank, Phases

\* A step of run l leaves the rank of every other run alone.
LEMMA OthersRank ==
    ASSUME IInv, NEW l \in Runs, NEW q \in Runs, q # l,
           \/ RunStep(l) \/ WatchStep(l) \/ RuntimeStep(l)
           \/ \E c \in ExitCodes : FirstExits(l, c)
           \/ RtKilled(l) \/ Expire(l) \/ Crash(l)
    PROVE  Rank(q)' = Rank(q)
<1>1. pc'[q] = pc[q] /\ watch'[q] = watch[q]
  BY DEF IInv, TypeOK, Goto, RunStep, Prepare, WriteConfig, PrepareFails, StateDir, StartFails,
         Start, WaitProcess, WaitWatch, Check, ForceDelete, Cleanup, WatchStep, WatchCancel,
         WatchKill, RuntimeStep, RtCreate, RtRefuses, RtEnds, FirstExits, RtKilled, Expire, Crash
<1> QED
  BY <1>1 DEF Rank

\* Every step of Run and of its watch goroutine takes it down.
LEMMA OwnSteps ==
    ASSUME IInv, NEW l \in Runs, RunStep(l) \/ WatchStep(l)
    PROVE  Rank(l)' < Rank(l)
<1> USE RankValues DEF IInv, TypeOK, Goto, Rank
<1>1. CASE \/ Prepare(l) \/ WriteConfig(l) \/ PrepareFails(l) \/ StateDir(l)
           \/ StartFails(l) \/ WaitProcess(l) \/ Check(l) \/ ForceDelete(l) \/ Cleanup(l)
  <2>1. watch'[l] = watch[l]
    BY <1>1 DEF Prepare, WriteConfig, PrepareFails, StateDir, StartFails, WaitProcess, Check,
                ForceDelete, Cleanup
  <2>2. PcRank[pc'[l]] \in 0 .. 9 /\ PcRank[pc[l]] \in 0 .. 9 /\ PcRank[pc'[l]] < PcRank[pc[l]]
    BY <1>1 DEF Prepare, WriteConfig, PrepareFails, StateDir, StartFails, WaitProcess, Check,
                ForceDelete, Cleanup
  <2>3. WatchRank[watch[l]] \in 0 .. 2
    OBVIOUS
  <2> QED
    BY <2>1, <2>2, <2>3
<1>2. CASE Start(l)
  <2>1. watch[l] = "off"
    BY <1>2 DEF Start, RunInv, InStep
  <2> QED
    BY <1>2, <2>1 DEF Start
<1>3. CASE WaitWatch(l)
  BY <1>3 DEF WaitWatch
<1>4. CASE WatchStep(l)
  <2>1. pc[l] \in {"wait", "waitWatch"} /\ pc'[l] = pc[l]
    BY <1>4 DEF WatchStep, WatchCancel, WatchKill, RunInv, InStep
  <2>2. \/ watch[l] = "armed" /\ watch'[l] = "delay"
        \/ watch[l] = "delay" /\ watch'[l] = "late"
    BY <1>4 DEF WatchStep, WatchCancel, WatchKill
  <2> QED
    BY <2>1, <2>2
<1> QED
  BY <1>1, <1>2, <1>3, <1>4 DEF RunStep

\* Nothing its runtime, its container or the world does takes it up again.
LEMMA WorldSteps ==
    ASSUME IInv, NEW l \in Runs,
           \/ RuntimeStep(l) \/ \E c \in ExitCodes : FirstExits(l, c)
           \/ RtKilled(l) \/ Expire(l) \/ Crash(l)
    PROVE  Rank(l)' <= Rank(l)
<1>1. CASE Crash(l)
  <2>1. pc'[l] = "crashed" /\ watch'[l] = "off"
    BY <1>1 DEF Crash, IInv, TypeOK
  <2>2. Rank(l)' = 0
    BY <2>1, RankValues DEF Rank
  <2> QED
    BY <2>2, RankType DEF IInv
<1>2. CASE pc' = pc /\ watch' = watch
  <2>1. Rank(l)' = Rank(l)
    BY <1>2 DEF Rank
  <2> QED
    BY <2>1, RankType DEF IInv
<1> QED
  BY <1>1, <1>2
  DEF RuntimeStep, RtCreate, RtRefuses, RtEnds, FirstExits, RtKilled, Expire

\* Run and its watch goroutine take at most 27 steps, whatever else happens:
\* together with CancelNeverStuck, a cancelled run returns if those two are
\* let go on.
THEOREM RunsGoDown == Spec => Downhill
<1> DEFINE Down == \A l \in Runs :
    /\ Rank(l)' <= Rank(l)
    /\ RunStep(l) \/ WatchStep(l) => Rank(l)' < Rank(l)
<1>1. ASSUME IInv, [Next]_vars PROVE [Down]_vars
  <2>1. ASSUME NEW l \in Runs PROVE Rank(l) \in Nat /\ Rank(l)' \in Nat
    <3>1. TypeOK /\ TypeOK'
      BY <1>1, StepIInv DEF IInv
    <3>2. pc'[l] \in Phases /\ watch'[l] \in {"off", "armed", "delay", "late"}
      BY <3>1 DEF TypeOK
    <3> QED
      BY <3>1, <3>2, RankType, RankInNat DEF Rank
  <2>2. ASSUME NEW l \in Runs, Next PROVE Rank(l)' <= Rank(l)
    <3> PICK k \in Runs :
          \/ RunStep(k) \/ WatchStep(k) \/ RuntimeStep(k)
          \/ \E c \in ExitCodes : FirstExits(k, c)
          \/ RtKilled(k) \/ Expire(k) \/ Crash(k)
      BY <2>2 DEF Next
    <3>1. CASE k # l
      BY <1>1, <2>1, <3>1, OthersRank
    <3>2. CASE k = l /\ (RunStep(l) \/ WatchStep(l))
      <4>1. Rank(l)' < Rank(l)
        BY <1>1, <3>2, OwnSteps
      <4> QED
        BY <2>1, <4>1
    <3>3. CASE k = l /\ ~(RunStep(l) \/ WatchStep(l))
      BY <1>1, <3>3, WorldSteps
    <3> QED
      BY <3>1, <3>2, <3>3
  <2>3. ASSUME NEW l \in Runs, RunStep(l) \/ WatchStep(l) PROVE Rank(l)' < Rank(l)
    BY <1>1, <2>3, OwnSteps
  <2>4. CASE Next
    BY <2>2, <2>3, <2>4
  <2> QED
    BY <1>1, <2>4
<1> QED
  BY Inductive, <1>1, PTL DEF Spec, Downhill
=============================================================================
