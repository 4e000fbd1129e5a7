----------------------------- MODULE LauncherRun -----------------------------
(***************************************************************************)
(* Launcher.Run (launcher/launcher.go) and the last steps of cmd/anolix:   *)
(* one command prepares a bundle, starts an OCI runtime on it, waits for   *)
(* it, and tidies up, while its context may be cancelled at any moment.    *)
(*                                                                         *)
(* Several commands run at once.  They share the runtime's table of        *)
(* containers, where an id has one entry, and may be given one --bundle,   *)
(* whose config.json each of them writes.  Outside src/ are os/exec (the   *)
(* watch goroutine that cancels, and the way Wait merges its result) and   *)
(* the runtime (runc or crun), which are modelled from how Run uses them.  *)
(***************************************************************************)
EXTENDS Integers

CONSTANTS
    Runs,           \* runs of cmd/anolix
    Ids,            \* container ids
    Id,             \* the id of each run; the same for two only with --id
    Dirs,           \* directories a run may be given with --bundle
    KeepBundle,     \* the runs given --keep-bundle
    ExitCodes,      \* what a container's first process exits with
    None

Killed  == 128 + 9     \* 128 + SIGKILL
SigKill == -9
SigTerm == -15

\* What a config.json may hold besides the spec of one of Runs.
Part  == "part"   \* opened and truncated, or two texts mixed
Stale == "stale"  \* the spec of an earlier command

ASSUME CodeAssumption == ExitCodes \subseteq 0 .. 255 /\ None \notin Runs \cup (-15 .. 255)
ASSUME IdAssumption   == Id \in [Runs -> Ids]
ASSUME RunAssumption  == KeepBundle \subseteq Runs
ASSUME DirAssumption  ==
    /\ Runs \cap Dirs = {} /\ None \notin Dirs
    /\ {Part, Stale} \cap (Runs \cup {None}) = {}

VARIABLES
    pc,      \* where Run is
    expired, \* the runs whose context is cancelled or timed out
    bundle,  \* the bundle directory: one of Dirs, or its own temporary one
    tmp,     \* the runs whose temporary bundle directory exists
    config,  \* whose spec a directory's config.json holds
    code,    \* Run's exit code so far
    err,     \* Run's error is not nil
    watch,   \* the watch goroutine of exec.CommandContext
    told,    \* the runs whose runtime was sent SIGTERM, Cancel returning nil
    rt,      \* the runtime process
    status,  \* its wait status: an exit code, or minus a signal
    first,   \* the exit code of the container's first process
    ctr,     \* the runtime's table: the run a container was made for, by id
    (* only for the properties *)
    ran,     \* whose spec the runtime has made a run's container from
    undeleted \* the runs whose forced delete has failed

vars == <<pc, expired, bundle, tmp, config, code, err, watch, told,
          rt, status, first, ctr, ran, undeleted>>
bundleVars  == <<bundle, tmp, config>>
resultVars  == <<code, err>>
runtimeVars == <<rt, status, first, ctr, ran>>

-----------------------------------------------------------------------------
Phases == {"prepare", "config", "state", "start", "wait", "waitWatch", "check",
           "delete", "cleanup", "done", "unprepared", "crashed"}
Ended  == {"done", "unprepared", "crashed"}
Status == {SigTerm, SigKill} \cup 0 .. 255

TypeOK ==
    /\ pc      \in [Runs -> Phases]
    /\ expired \subseteq Runs
    /\ bundle  \in [Runs -> Runs \cup Dirs \cup {None}]
    /\ tmp     \subseteq Runs
    /\ config  \in [Runs \cup Dirs -> Runs \cup {None, Part, Stale}]
    /\ code    \in [Runs -> -1 .. 255]
    /\ err     \in [Runs -> BOOLEAN]
    /\ watch   \in [Runs -> {"off", "armed", "delay", "late"}]
    /\ told    \subseteq Runs
    /\ rt      \in [Runs -> {"none", "starting", "running", "zombie", "reaped"}]
    /\ status  \in [Runs -> Status \cup {None}]
    /\ first   \in [Runs -> 0 .. 255 \cup {None}]
    /\ ctr     \in [Ids -> Runs \cup {None}]
    /\ ran     \in [Runs -> Runs \cup {None, Stale}]
    /\ undeleted \subseteq Runs

\* The directories given with --bundle have been used before.
Init ==
    /\ pc      = [l \in Runs |-> "prepare"]
    /\ expired = {}
    /\ bundle  = [l \in Runs |-> None]
    /\ tmp     = {}
    /\ config  = [d \in Runs \cup Dirs |-> IF d \in Dirs THEN Stale ELSE None]
    /\ code    = [l \in Runs |-> -1]
    /\ err     = [l \in Runs |-> FALSE]
    /\ watch   = [l \in Runs |-> "off"]
    /\ told    = {}
    /\ rt      = [l \in Runs |-> "none"]
    /\ status  = [l \in Runs |-> None]
    /\ first   = [l \in Runs |-> None]
    /\ ctr     = [i \in Ids |-> None]
    /\ ran     = [l \in Runs |-> None]
    /\ undeleted = {}

Goto(l, from, to) == pc[l] = from /\ pc' = [pc EXCEPT ![l] = to]
Fail(l) == err' = [err EXCEPT ![l] = TRUE] /\ UNCHANGED code

\* waitExitCode on an ExitError: the exit code, or 128 plus the signal.
WaitCode(s) == IF s < 0 THEN 128 - s ELSE s

\* The runtime process ends with wait status s.
RtExit(l, s) ==
    /\ rt'     = [rt EXCEPT ![l] = "zombie"]
    /\ status' = [status EXCEPT ![l] = s]

\* MkdirTemp, or the directory of --bundle; config.json, if it can be
\* opened, is truncated.
MakeDir(l, d) ==
    /\ d \in Dirs \cup {l}
    /\ bundle' = [bundle EXCEPT ![l] = d]
    /\ tmp'    = IF d = l THEN tmp \cup {l} ELSE tmp
OpenConfig(d) == config' = [config EXCEPT ![d] = Part]

\* A run gives its temporary bundle up: os.RemoveAll, unless --keep-bundle.
RemoveBundle(l) ==
    /\ UNCHANGED bundle
    /\ IF bundle[l] = l /\ l \notin KeepBundle
       THEN tmp' = tmp \ {l} /\ config' = [config EXCEPT ![l] = None]
       ELSE UNCHANGED <<tmp, config>>

-----------------------------------------------------------------------------
(* Faulty variants of the actions below: slips this code could make, each  *)
(* of which breaks a property.  None of them is part of Next.              *)

\* FAULT: a config.json found in the directory is taken as it is.
PrepareReuses(l) ==
    /\ \E d \in Dirs \cup {l} :
         /\ MakeDir(l, d)
         /\ IF config[d] = None
            THEN Goto(l, "prepare", "config") /\ OpenConfig(d)
            ELSE Goto(l, "prepare", "state") /\ UNCHANGED config
    /\ UNCHANGED <<expired, resultVars, watch, told, runtimeVars, undeleted>>

\* FAULT: the cleanup is deferred only after the state directory is made.
StateDirNoDefer(l) ==
    /\ \/ Goto(l, "state", "start") /\ UNCHANGED resultVars
       \/ Goto(l, "state", "done") /\ Fail(l)
    /\ UNCHANGED <<expired, bundleVars, watch, told, runtimeVars, undeleted>>

\* FAULT: Wait's result is the raw wait status, exit code in the high byte.
WaitWatchRaw(l) ==
    /\ Goto(l, "waitWatch", "check")
    /\ watch' = [watch EXCEPT ![l] = "off"]
    /\ code' = [code EXCEPT ![l] = IF status[l] >= 0 THEN 256 * status[l] ELSE 0]
    /\ UNCHANGED <<expired, bundleVars, err, told, runtimeVars, undeleted>>

\* FAULT: a cancelled run always reports 137, its container's code or not.
CheckAlwaysKilled(l) ==
    /\ IF l \in expired
       THEN /\ Goto(l, "check", "delete")
            /\ err'  = [err EXCEPT ![l] = TRUE]
            /\ code' = [code EXCEPT ![l] = Killed]
       ELSE Goto(l, "check", "cleanup") /\ UNCHANGED resultVars
    /\ UNCHANGED <<expired, bundleVars, watch, told, runtimeVars, undeleted>>

\* FAULT: cancellation is noticed only when Wait itself failed.
CheckWaitErrOnly(l) ==
    /\ IF code[l] < 0
       THEN /\ Goto(l, "check", "delete")
            /\ err'  = [err EXCEPT ![l] = TRUE]
            /\ code' = [code EXCEPT ![l] = Killed]
       ELSE Goto(l, "check", "cleanup") /\ UNCHANGED resultVars
    /\ UNCHANGED <<expired, bundleVars, watch, told, runtimeVars, undeleted>>

\* FAULT: any non-zero exit is followed by a forced delete.
CheckDeletesOnError(l) ==
    /\ IF l \in expired \/ code[l] # 0
       THEN /\ Goto(l, "check", "delete")
            /\ err'  = [err EXCEPT ![l] = TRUE]
            /\ code' = [code EXCEPT ![l] = IF code[l] < 0 THEN Killed ELSE code[l]]
       ELSE Goto(l, "check", "cleanup") /\ UNCHANGED resultVars
    /\ UNCHANGED <<expired, bundleVars, watch, told, runtimeVars, undeleted>>

\* FAULT: no WaitDelay, so a runtime that ignores SIGTERM is waited for.
WatchKillNot(l) ==
    /\ watch[l] = "delay"
    /\ watch' = [watch EXCEPT ![l] = "late"]
    /\ UNCHANGED <<pc, expired, bundleVars, resultVars, told, runtimeVars, undeleted>>

-----------------------------------------------------------------------------
(* Launcher.Run.                                                           *)

\* prepareBundle: the directory, the rootfs, and config.json opened.
Prepare(l) ==
    /\ Goto(l, "prepare", "config")
    /\ \E d \in Dirs \cup {l} : MakeDir(l, d) /\ OpenConfig(d)
    /\ UNCHANGED <<expired, resultVars, watch, told, runtimeVars, undeleted>>

\* os.WriteFile's text, over what another run may have written since.
WriteConfig(l) ==
    /\ Goto(l, "config", "state")
    /\ LET d == bundle[l]
       IN  \/ config' = [config EXCEPT ![d] = l]
           \/ config[d] # Part /\ OpenConfig(d)
    /\ UNCHANGED <<expired, bundle, tmp, resultVars, watch, told, runtimeVars, undeleted>>

\* prepareBundle fails.  Its error is returned before the cleanup is
\* deferred: a temporary directory that was made stays.
PrepareFails(l) ==
    /\ \/ /\ Goto(l, "prepare", "unprepared")
          /\ \/ UNCHANGED bundleVars
             \/ \E d \in Dirs \cup {l} : MakeDir(l, d) /\ UNCHANGED config
       \/ Goto(l, "config", "unprepared") /\ UNCHANGED bundleVars
    /\ Fail(l)
    /\ UNCHANGED <<expired, watch, told, runtimeVars, undeleted>>

\* The state directory of a rootless run; making it may fail.
StateDir(l) ==
    /\ \/ Goto(l, "state", "start") /\ UNCHANGED resultVars
       \/ Goto(l, "state", "cleanup") /\ Fail(l)
    /\ UNCHANGED <<expired, bundleVars, watch, told, runtimeVars, undeleted>>

\* cmd.Start refuses a context already done, and may fail by itself.
StartFails(l) ==
    /\ Goto(l, "start", "delete")
    /\ Fail(l)
    /\ UNCHANGED <<expired, bundleVars, watch, told, runtimeVars, undeleted>>

Start(l) ==
    /\ l \notin expired
    /\ Goto(l, "start", "wait")
    /\ watch' = [watch EXCEPT ![l] = "armed"]
    /\ rt' = [rt EXCEPT ![l] = "starting"]
    /\ UNCHANGED <<expired, bundleVars, resultVars, told, status, first, ctr, ran, undeleted>>

\* The first half of cmd.Wait: wait4.
WaitProcess(l) ==
    /\ Goto(l, "wait", "waitWatch")
    /\ rt[l] = "zombie"
    /\ rt' = [rt EXCEPT ![l] = "reaped"]
    /\ UNCHANGED <<expired, bundleVars, resultVars, watch, told, status, first, ctr, ran, undeleted>>

\* The second half: the watch goroutine, wherever it is, hands its result
\* over.  An ExitError wins; a clean exit after a delivered SIGTERM becomes
\* the context's error, for which waitExitCode returns -1.
WaitWatch(l) ==
    /\ Goto(l, "waitWatch", "check")
    /\ watch' = [watch EXCEPT ![l] = "off"]
    /\ code' = [code EXCEPT ![l] =
                  IF status[l] = 0 /\ l \in told THEN -1 ELSE WaitCode(status[l])]
    /\ UNCHANGED <<expired, bundleVars, err, told, runtimeVars, undeleted>>

\* Run looks at the context again, after Wait.
Check(l) ==
    /\ IF l \in expired \/ code[l] < 0
       THEN /\ Goto(l, "check", "delete")
            /\ err'  = [err EXCEPT ![l] = TRUE]
            /\ code' = [code EXCEPT ![l] =
                          IF l \in expired /\ code[l] < 0 THEN Killed ELSE code[l]]
       ELSE Goto(l, "check", "cleanup") /\ UNCHANGED resultVars
    /\ UNCHANGED <<expired, bundleVars, watch, told, runtimeVars, undeleted>>

\* forceDeleteContainer goes by id, whoever made the container, and its
\* first process dies of SIGKILL.  Failure and timeout are ignored.
ForceDelete(l) ==
    /\ Goto(l, "delete", "cleanup")
    /\ \/ LET q == ctr[Id[l]]
          IN  /\ ctr' = [ctr EXCEPT ![Id[l]] = None]
              /\ first' = IF q # None /\ first[q] = None
                          THEN [first EXCEPT ![q] = Killed] ELSE first
              /\ UNCHANGED undeleted
       \/ undeleted' = undeleted \cup {l} /\ UNCHANGED <<ctr, first>>
    /\ UNCHANGED <<expired, bundleVars, resultVars, watch, told, rt, status, ran>>

\* The deferred cleanupBundle, and Run returns.
Cleanup(l) ==
    /\ Goto(l, "cleanup", "done")
    /\ RemoveBundle(l)
    /\ UNCHANGED <<expired, resultVars, watch, told, runtimeVars, undeleted>>

-----------------------------------------------------------------------------
(* os/exec's watch goroutine.                                              *)

\* cmd.Cancel: SIGTERM.  It fails only once Wait has reaped the runtime; a
\* zombie takes the signal.
WatchCancel(l) ==
    /\ watch[l] = "armed" /\ l \in expired
    /\ watch' = [watch EXCEPT ![l] = "delay"]
    /\ told' = IF rt[l] = "reaped" THEN told ELSE told \cup {l}
    /\ UNCHANGED <<pc, expired, bundleVars, resultVars, runtimeVars, undeleted>>

\* WaitDelay has passed: SIGKILL to the runtime, which cannot pass it on.
WatchKill(l) ==
    /\ watch[l] = "delay"
    /\ watch' = [watch EXCEPT ![l] = "late"]
    /\ IF rt[l] \in {"starting", "running"} THEN RtExit(l, SigKill)
                                            ELSE UNCHANGED <<rt, status>>
    /\ UNCHANGED <<pc, expired, bundleVars, resultVars, told, first, ctr, ran, undeleted>>

-----------------------------------------------------------------------------
(* The runtime, the container and the rest of the world.                   *)

\* It reads the bundle's config.json and makes the container.
RtCreate(l) ==
    /\ rt[l] = "starting"
    /\ ctr[Id[l]] = None
    /\ config[bundle[l]] \notin {None, Part}
    /\ ran' = [ran EXCEPT ![l] = config[bundle[l]]]
    /\ rt' = [rt EXCEPT ![l] = "running"]
    /\ ctr' = [ctr EXCEPT ![Id[l]] = l]
    /\ UNCHANGED <<pc, expired, bundleVars, resultVars, watch, told, status, first, undeleted>>

\* The runtime gives up: the id is in use, no spec or a broken one, ...; or SIGTERM
\* comes before it has its handler.
RtRefuses(l) ==
    /\ rt[l] = "starting"
    /\ \/ RtExit(l, 1)
       \/ l \in told /\ RtExit(l, SigTerm)
    /\ UNCHANGED <<pc, expired, bundleVars, resultVars, watch, told, first, ctr, ran, undeleted>>

\* The container's first process ends, by itself or of the SIGTERM passed on.
FirstExits(l, c) ==
    /\ ctr[Id[l]] = l /\ first[l] = None
    /\ first' = [first EXCEPT ![l] = c]
    /\ UNCHANGED <<pc, expired, bundleVars, resultVars, watch, told, rt, status, ctr, ran, undeleted>>

\* The runtime sees it, deletes the container and exits with its code.
RtEnds(l) ==
    /\ rt[l] = "running" /\ first[l] # None
    /\ RtExit(l, first[l])
    /\ ctr' = IF ctr[Id[l]] = l THEN [ctr EXCEPT ![Id[l]] = None] ELSE ctr
    /\ UNCHANGED <<pc, expired, bundleVars, resultVars, watch, told, first, ran, undeleted>>

\* Somebody else, the OOM killer say, kills the runtime.
RtKilled(l) ==
    /\ rt[l] \in {"starting", "running"}
    /\ RtExit(l, SigKill)
    /\ UNCHANGED <<pc, expired, bundleVars, resultVars, watch, told, first, ctr, ran, undeleted>>

\* Ctrl-C, SIGTERM or the timeout.
Expire(l) ==
    /\ l \notin expired /\ pc[l] \notin Ended
    /\ expired' = expired \cup {l}
    /\ UNCHANGED <<pc, bundleVars, resultVars, watch, told, runtimeVars, undeleted>>

\* anolix itself is killed: its runtime is not, and runs on.  Its own
\* variables are gone.
Crash(l) ==
    /\ pc[l] \notin Ended
    /\ pc' = [pc EXCEPT ![l] = "crashed"]
    /\ watch' = [watch EXCEPT ![l] = "off"]
    /\ code' = [code EXCEPT ![l] = -1] /\ err' = [err EXCEPT ![l] = FALSE]
    /\ UNCHANGED <<expired, bundleVars, told, runtimeVars, undeleted>>

-----------------------------------------------------------------------------
RunStep(l) ==
    \/ Prepare(l) \/ WriteConfig(l) \/ PrepareFails(l) \/ StateDir(l)
    \/ StartFails(l) \/ Start(l)
    \/ WaitProcess(l) \/ WaitWatch(l)
    \/ Check(l) \/ ForceDelete(l) \/ Cleanup(l)
WatchStep(l)   == WatchCancel(l) \/ WatchKill(l)
RuntimeStep(l) == RtCreate(l) \/ RtRefuses(l) \/ RtEnds(l)

Next == \E l \in Runs :
    \/ RunStep(l) \/ WatchStep(l) \/ RuntimeStep(l)
    \/ \E c \in ExitCodes : FirstExits(l, c)
    \/ RtKilled(l) \/ Expire(l) \/ Crash(l)

Spec == Init /\ [][Next]_vars

\* The Go scheduler and the kernel let each process and goroutine go on, and
\* timers fire.  Containers need not end, nobody has to cancel.
Fairness == \A l \in Runs :
    WF_vars(RunStep(l)) /\ WF_vars(WatchStep(l)) /\ WF_vars(RuntimeStep(l))

FairSpec == Spec /\ Fairness

-----------------------------------------------------------------------------
(* cmd/anolix ends with Run's code, or with 1 if Run has none to give.     *)
ExitStatus(l) == IF err[l] /\ code[l] < 0 THEN 1 ELSE code[l]

(* Safety.                                                                 *)

\* A temporary bundle is there as long as a runtime whose command has not
\* crashed may read it, and gone when Run returns, on every path after the
\* bundle has been prepared.
BundleLifetime == \A l \in Runs : bundle[l] = l =>
    /\ rt[l] \in {"starting", "running"} /\ pc[l] # "crashed" => l \in tmp
    /\ pc[l] = "done" /\ l \notin KeepBundle => l \notin tmp

\* README.md's promise, which a failing prepareBundle breaks.
BundleRemoved == \A l \in Runs \ KeepBundle :
    pc[l] \in Ended \ {"crashed"} => l \notin tmp

\* A container is made from the spec its own run has written, whatever other
\* runs do, if its bundle is temporary; and never from what an earlier
\* command left in a directory.  Runs that share --bundle at the same moment
\* may be given each other's spec, and no other.
OwnConfig == \A l \in Runs :
    /\ bundle[l] = l /\ rt[l] = "starting" => config[l] = l
    /\ ran[l] # None =>
         \/ ran[l] = l
         \/ ran[l] \in Runs /\ bundle[l] \in Dirs /\ bundle[ran[l]] = bundle[l]

\* The exit status of the command is the runtime's, cancelled or not, with
\* one exception: a clean exit after a delivered SIGTERM is told as 137.
CodeRelayed == \A l \in Runs :
    pc[l] = "done" /\ rt[l] = "reaped" =>
        \/ ExitStatus(l) = WaitCode(status[l])
        \/ status[l] = 0 /\ l \in told /\ ExitStatus(l) = Killed

\* What README.md and the comment on Run say of the exit code; the exception
\* above breaks it.
ExitCodeFaithful == \A l \in Runs :
    pc[l] = "done" /\ rt[l] = "reaped" /\ first[l] # None /\ status[l] = first[l] =>
        ExitStatus(l) = first[l]

\* A runtime that was told to stop is never reported as a normal end.
CancelReported == \A l \in Runs : pc[l] = "done" /\ l \in told => err[l]

\* A container outlives the Run it was made for in two cases only: its
\* forced delete has failed; or somebody other than Run killed the runtime,
\* which Run takes for the container's end (137, no error).
NoContainerLeft == \A l \in Runs : pc[l] = "done" /\ ctr[Id[l]] = l =>
    \/ l \in undeleted
    \/ status[l] = SigKill /\ l \notin told /\ code[l] = Killed /\ ~err[l]

\* A container is deleted by its own runtime, or by the forced delete of a
\* run that was cancelled or did not start: a run that merely finds its id in
\* use leaves the other's container alone.
ContainerSpared == [][
    \A i \in Ids : ctr[i] # None /\ ctr'[i] # ctr[i] =>
        \/ rt[ctr[i]] = "running" /\ rt'[ctr[i]] = "zombie"
        \/ \E l \in Runs : /\ Id[l] = i /\ pc[l] = "delete"
                           /\ (l \in expired \/ rt[l] = "none")]_vars

\* What whoever starts the command sees of it: the runtime, dead whether it
\* has been waited for or not; and the command's answer, once it has ended.
Proc(l) == IF rt[l] \in {"zombie", "reaped"} THEN "over" ELSE rt[l]
Outcome(l) ==
    IF pc[l] \in {"done", "unprepared"}
    THEN [end |-> "returned", code |-> ExitStatus(l), failed |-> err[l]]
    ELSE [end |-> IF pc[l] = "crashed" THEN "lost" ELSE "pending",
          code |-> 0, failed |-> FALSE]

Service == INSTANCE RunService WITH
    Codes     <- 0 .. 255,
    proc      <- [l \in Runs |-> Proc(l)],
    last      <- status,
    owner     <- ctr,
    cancelled <- expired,
    answer    <- [l \in Runs |-> Outcome(l)]

\* Run keeps the promises of RunService: a cancellation is reported if the
\* runtime was told of it, an error is never reported without one, the code
\* is the runtime's, a runtime is started once and never after a
\* cancellation, and a run that ends well leaves no container.
ImplementsRunService == Service!Spec

(* Liveness, of FairSpec.                                                  *)

\* A cancelled Run returns, even when the container ignores SIGTERM: the
\* delayed SIGKILL, the watch goroutine and Wait cannot block one another.
CancelTerminates == \A l \in Runs : l \in expired ~> pc[l] \in Ended
=============================================================================
