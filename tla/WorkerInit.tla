----------------------------- MODULE WorkerInit -----------------------------
(***************************************************************************)
(* The life of a worker process: the thin init (cmd/worker-init/main.go)   *)
(* with DropCapabilities (zygote/caps.go) and InstallSeccomp               *)
(* (zygote/seccomp.go), the capabilities the mother's bundle grants        *)
(* (zygote/spec.go), and the payload the repository ships (cmd/worker),    *)
(* which an init executes or the mother spawns by itself.                  *)
(*                                                                         *)
(* Capabilities, no_new_privs and the seccomp filter belong to a thread,   *)
(* while the Go scheduler may move a goroutine to another thread between   *)
(* any two of its steps unless it is locked.  The mount namespace is the   *)
(* worker's own; the rootfs directory, with .oldroot in it, is one         *)
(* directory that all workers use, and the mother's warm memory one memfd, *)
(* open for writing in every worker that has not closed it.                *)
(***************************************************************************)
EXTENDS WarmMemory

CONSTANTS
    Workers,        \* the processes
    Kinds,          \* how they are started, a subset of AllKinds
    Hardened,       \* the inits started with --harden
    MaskedFiles,    \* the paths to mask that exist: files
    MaskedDirs,     \* and directories
    WarmSize,       \* the bytes of the mother's --warm, when she has it
    Touched,        \* the cells of it that payloads write to
    Threads,        \* the threads of a Go process
    Leader,         \* the thread /proc/self/status speaks of
    Fallible,       \* the steps whose system call may fail
    MigrateEarly,   \* main may have left the leader before LockOSThread
    MayKill         \* a worker may be killed at any moment

\* "init": a worker-init the mother has spawned; "stray": one started by hand
\* on the host, not as pid 1; "direct": cmd/worker spawned without an init;
\* "bare": the same with noseccomp.
AllKinds == {"init", "stray", "direct", "bare"}

ASSUME LeaderAssumption == Leader \in Threads
ASSUME KindsAssumption == Kinds \subseteq AllKinds
ASSUME WarmAssumption == WarmSize \in Nat \ {0}

VARIABLES
    kind,      \* how each worker was started
    pc,        \* its next step
    thread,    \* the thread its main goroutine runs on
    locked,    \* LockOSThread has been called
    private,   \* its mount namespace is MS_PRIVATE
    root,      \* its root directory: "host" or "rootfs"
    oldSeen,   \* the former root is reachable at /.oldroot
    masks,     \* the paths that are covered
    told,      \* the errors of the hardening it has told of: "EPERM", for want
               \* of a capability, or "other"
    bound,     \* the bounding set of each thread
    caps,      \* the other capability sets of each thread
    nnp,       \* the threads with no_new_privs
    filter,    \* the threads with the seccomp filter
    warmFd,    \* file descriptor 3 is the mother's memfd
    changed,   \* the cells of the memfd that hold something else than she wrote
    look,      \* what a worker that verifies may see: the cells that have been
               \* changed all the while (steady), or at some time (ever); and
               \* the offset it has reported (found)
    putOld,    \* the directory .oldroot exists in the shared rootfs
    host       \* the host's mounts: "intact" or "changed"

vars == <<kind, pc, thread, locked, private, root, oldSeen, masks, told, bound,
          caps, nnp, filter, warmFd, changed, look, putOld, host>>
mountVars  == <<private, root, oldSeen, masks, told, putOld, host>>
threadVars == <<thread, locked>>
credVars   == <<bound, caps, nnp, filter>>
warmVars   == <<warmFd, changed, look>>
startVars  == <<kind, warmVars>>

-----------------------------------------------------------------------------
\* The steps of worker-init's main, in order; "private" to "harden" are setupRootfs.
RootfsSteps == {"private", "bind", "mkold", "pivot", "chdir", "detach", "mounts", "harden"}
CapSteps    == {"bounding", "capset", "verify"}
\* The steps of a program that runs in the rootfs: of cmd/worker, or another's.
PayloadSteps == {"payload", "args", "close", "compare", "work", "other"}
Steps == {"lock", "pid"} \cup RootfsSteps \cup CapSteps
         \cup {"nnp", "seccomp", "exec", "dead"} \cup PayloadSteps

\* FAULT: the former version, which had no CAP_MKNOD for /dev/null.
MotherCapabilitiesNoMknod == {"SYS_ADMIN", "SYS_CHROOT", "NET_ADMIN", "SETPCAP"}

\* What the mother's bundle grants her, and every worker inherits.
MotherCapabilities == {"SYS_ADMIN", "SYS_CHROOT", "NET_ADMIN", "MKNOD", "SETPCAP"}

MaskedPaths == MaskedFiles \cup MaskedDirs

\* The capability a step's system call asks for.
Needs == [s \in {"private", "bind", "pivot", "mounts", "bounding"} |->
             IF s = "bounding" THEN "SETPCAP" ELSE "SYS_ADMIN"]

TypeOK ==
    /\ kind    \in [Workers -> AllKinds]
    /\ pc      \in [Workers -> Steps]
    /\ thread  \in [Workers -> Threads]
    /\ locked  \in [Workers -> BOOLEAN]
    /\ private \in [Workers -> BOOLEAN]
    /\ root    \in [Workers -> {"host", "rootfs"}]
    /\ oldSeen \in [Workers -> BOOLEAN]
    /\ masks   \in [Workers -> SUBSET MaskedPaths]
    /\ told    \in [Workers -> SUBSET {"EPERM", "other"}]
    /\ bound   \in [Workers -> [Threads -> SUBSET MotherCapabilities]]
    /\ caps    \in [Workers -> [Threads -> SUBSET MotherCapabilities]]
    /\ nnp     \in [Workers -> SUBSET Threads]
    /\ filter  \in [Workers -> SUBSET Threads]
    /\ warmFd  \in [Workers -> BOOLEAN]
    /\ changed \in SUBSET Touched
    /\ look    \in [Workers -> [steady : SUBSET Touched, ever : SUBSET Touched, found : Int]]
    /\ putOld  \in BOOLEAN
    /\ host    \in {"intact", "changed"}

\* Every worker of a mother is handed her memfd, if she has one; she has filled it
\* before she serves.
Init ==
    /\ kind    \in [Workers -> Kinds]
    /\ pc      = [w \in Workers |->
                    IF kind[w] \in {"init", "stray"} THEN "lock" ELSE "payload"]
    /\ thread  = [w \in Workers |-> Leader]
    /\ locked  = [w \in Workers |-> FALSE]
    /\ private = [w \in Workers |-> FALSE]
    /\ root    = [w \in Workers |-> "host"]
    /\ oldSeen = [w \in Workers |-> FALSE]
    /\ masks   = [w \in Workers |-> {}]
    /\ told    = [w \in Workers |-> {}]
    /\ bound   = [w \in Workers |-> [t \in Threads |-> MotherCapabilities]]
    /\ caps    = [w \in Workers |-> [t \in Threads |-> MotherCapabilities]]
    /\ nnp     = [w \in Workers |-> {}]
    /\ filter  = [w \in Workers |-> {}]
    /\ \E warm \in BOOLEAN : warmFd = [w \in Workers |-> warm /\ kind[w] # "stray"]
    /\ changed = {}
    /\ look    = [w \in Workers |-> [steady |-> {}, ever |-> {}, found |-> -1]]
    /\ putOld  \in BOOLEAN
    /\ host    = "intact"

Goto(w, from, to) == pc[w] = from /\ pc' = [pc EXCEPT ![w] = to]

\* A privileged call needs its capability on the calling thread, and the filter
\* stops it there; but prctl, which drops the bounding set, is on the payload's
\* allowlist.
Able(w, cap) ==
    /\ cap \in caps[w][thread[w]]
    /\ cap # "SETPCAP" => thread[w] \notin filter[w]

\* A mount call reaches the host when the caller still lives in the host's
\* namespace, or in one whose mounts propagate.
MountReaches(w) ==
    host' = IF kind[w] = "stray" \/ ~private[w] THEN "changed" ELSE host

-----------------------------------------------------------------------------
(* Faulty variants; none is part of Next.                                  *)

\* FAULT: the goroutine is not locked to its thread.
LockThreadNot(w) ==
    /\ Goto(w, "lock", "pid")
    /\ UNCHANGED <<threadVars, mountVars, credVars, startVars>>

\* FAULT: no check for pid 1.
CheckPidNot(w) ==
    /\ Goto(w, "pid", "private")
    /\ UNCHANGED <<threadVars, mountVars, credVars, startVars>>

\* FAULT: the former version, which removed the directory it had detached.
DetachAndRemove(w) ==
    /\ Goto(w, "detach", "mounts")
    /\ oldSeen' = [oldSeen EXCEPT ![w] = FALSE]
    /\ putOld' = FALSE
    /\ UNCHANGED <<threadVars, private, root, masks, told, host, credVars, startVars>>

\* FAULT: InstallSeccomp before DropCapabilities.
HardenRootfsThenFilter(w) ==
    /\ Goto(w, "harden", "bounding")
    /\ masks' = [masks EXCEPT ![w] = MaskedPaths]
    /\ filter' = [filter EXCEPT ![w] = @ \cup {thread[w]}]
    /\ UNCHANGED <<threadVars, private, root, oldSeen, told, putOld, host, bound,
                   caps, nnp, startVars>>

\* FAULT: the flag is recorded in place of the thread that has it.
SetNoNewPrivsFlag(w) ==
    /\ Goto(w, "nnp", "seccomp")
    /\ nnp' = [nnp EXCEPT ![w] = @ \cup {TRUE}]
    /\ UNCHANGED <<threadVars, mountVars, bound, caps, filter, startVars>>

-----------------------------------------------------------------------------
(* worker-init: main                                                       *)

LockThread(w) ==
    /\ Goto(w, "lock", "pid")
    /\ locked' = [locked EXCEPT ![w] = TRUE]
    /\ UNCHANGED <<thread, mountVars, credVars, startVars>>

\* Only pid 1 of a fresh namespace goes on.
CheckPid(w) ==
    /\ Goto(w, "pid", IF kind[w] = "stray" THEN "dead" ELSE "private")
    /\ UNCHANGED <<threadVars, mountVars, credVars, startVars>>

-----------------------------------------------------------------------------
(* worker-init: setupRootfs and hardenRootfs                               *)

MakePrivate(w) ==
    /\ Able(w, Needs["private"])
    /\ Goto(w, "private", "bind")
    /\ private' = [private EXCEPT ![w] = TRUE]
    /\ host' = IF kind[w] = "stray" THEN "changed" ELSE host
    /\ UNCHANGED <<threadVars, root, oldSeen, masks, told, putOld, credVars, startVars>>

BindRootfs(w) ==
    /\ Able(w, Needs["bind"])
    /\ Goto(w, "bind", "mkold")
    /\ MountReaches(w)
    /\ UNCHANGED <<threadVars, private, root, oldSeen, masks, told, putOld, credVars,
                   startVars>>

\* os.MkdirAll: content to find the directory already there.
MakePutOld(w) ==
    /\ Goto(w, "mkold", "pivot")
    /\ putOld' = TRUE
    /\ UNCHANGED <<threadVars, private, root, oldSeen, masks, told, host, credVars,
                   startVars>>

PivotRoot(w) ==
    /\ Able(w, Needs["pivot"]) /\ putOld
    /\ Goto(w, "pivot", "chdir")
    /\ root'    = [root EXCEPT ![w] = "rootfs"]
    /\ oldSeen' = [oldSeen EXCEPT ![w] = TRUE]
    /\ MountReaches(w)
    /\ UNCHANGED <<threadVars, private, masks, told, putOld, credVars, startVars>>

Chdir(w) ==
    /\ Goto(w, "chdir", "detach")
    /\ UNCHANGED <<threadVars, mountVars, credVars, startVars>>

\* The former root is detached; whether that failed is not looked at.  Its
\* directory stays, for other workers are between their mkdir and their
\* pivot_root.
DetachOldRoot(w) ==
    /\ Goto(w, "detach", "mounts")
    /\ \E fails \in BOOLEAN :
         /\ fails => "detach" \in Fallible \/ ~Able(w, "SYS_ADMIN")
         /\ Able(w, "SYS_ADMIN") \/ fails
         /\ oldSeen' = [oldSeen EXCEPT ![w] = fails]
    /\ UNCHANGED <<threadVars, private, root, masks, told, putOld, host, credVars,
                   startVars>>

\* /proc, and /dev if it can be.
MountInfra(w) ==
    /\ Able(w, Needs["mounts"])
    /\ Goto(w, "mounts", "harden")
    /\ MountReaches(w)
    /\ UNCHANGED <<threadVars, private, root, oldSeen, masks, told, putOld, credVars,
                   startVars>>

\* The items of hardenRootfs: /dev/null is made, the paths are masked, and the rest
\* (mounts, read-only remounts) is done.
HardenItems  == {"null", "rest"} \cup MaskedPaths
HardenCap(i) == IF i = "null" THEN "MKNOD" ELSE "SYS_ADMIN"

\* Each item is tried whatever became of the last, may fail by itself, and is told of
\* when it does.  A file is masked by /dev/null, so none is without that device; a
\* directory is masked by a mount of its own.  The device need not be made where the
\* rootfs has one, in sight because nothing could be mounted on its /dev.
HardenRootfs(w) ==
    /\ Goto(w, "harden", "bounding")
    /\ IF w \in Hardened
         THEN /\ \E there \in BOOLEAN, failed \in SUBSET HardenItems :
                   LET lacks(i)   == ~Able(w, HardenCap(i)) /\ (i = "null" => ~there)
                       follows(i) == i \in MaskedFiles /\ "null" \in failed
                   IN  /\ there => "mounts" \in Fallible /\ "null" \notin failed
                       /\ \A i \in HardenItems :
                            /\ lacks(i) \/ follows(i) => i \in failed
                            /\ i \in failed => lacks(i) \/ follows(i) \/ "harden" \in Fallible
                       /\ masks' = [masks EXCEPT ![w] = MaskedPaths \ failed]
                       /\ told'  = [told EXCEPT ![w] =
                                       {IF lacks(i) THEN "EPERM" ELSE "other" : i \in failed}]
              /\ MountReaches(w)
         ELSE UNCHANGED <<masks, told, host>>
    /\ UNCHANGED <<threadVars, private, root, oldSeen, putOld, credVars, startVars>>

-----------------------------------------------------------------------------
(* DropCapabilities                                                        *)

\* Every capability in turn; the call asks for one in the effective set, and
\* takes it from the bounding set alone.
DropBounding(w) ==
    /\ Able(w, Needs["bounding"])
    /\ Goto(w, "bounding", "capset")
    /\ bound' = [bound EXCEPT ![w][thread[w]] = {}]
    /\ UNCHANGED <<threadVars, mountVars, caps, nnp, filter, startVars>>

ClearCaps(w) ==
    /\ thread[w] \notin filter[w]
    /\ Goto(w, "capset", "verify")
    /\ caps' = [caps EXCEPT ![w][thread[w]] = {}]
    /\ UNCHANGED <<threadVars, mountVars, bound, nnp, filter, startVars>>

\* verifyNoCaps reads the leader's status, whatever thread it runs on.
VerifyNoCaps(w) ==
    /\ Goto(w, "verify", IF bound[w][Leader] \cup caps[w][Leader] = {} THEN "nnp" ELSE "dead")
    /\ UNCHANGED <<threadVars, mountVars, credVars, startVars>>

-----------------------------------------------------------------------------
(* InstallSeccomp, and worker-init's execve                                *)

SetNoNewPrivs(w) ==
    /\ Goto(w, "nnp", "seccomp")
    /\ nnp' = [nnp EXCEPT ![w] = @ \cup {thread[w]}]
    /\ UNCHANGED <<threadVars, mountVars, bound, caps, filter, startVars>>

\* By prctl again.  Without a capability the filter needs no_new_privs; only the
\* calling thread gets it.
InstallFilter(w) ==
    /\ thread[w] \in nnp[w] \/ "SYS_ADMIN" \in caps[w][thread[w]]
    /\ Goto(w, "seccomp", IF kind[w] = "init" THEN "exec" ELSE "args")
    /\ filter' = [filter EXCEPT ![w] = @ \cup {thread[w]}]
    /\ UNCHANGED <<threadVars, mountVars, bound, caps, nnp, startVars>>

\* The payload starts with what the calling thread has, and every thread it
\* makes inherits that; uid 0 regains capabilities up to the bounding set.
Inherited(w, threads) == IF thread[w] \in threads THEN Threads ELSE {}
Exec(w) ==
    /\ Goto(w, "exec", "payload")
    /\ bound'  = [bound EXCEPT ![w] = [t \in Threads |-> @[thread[w]]]]
    /\ caps'   = [caps  EXCEPT ![w] = [t \in Threads |-> @[thread[w]] \cup bound[w][thread[w]]]]
    /\ nnp'    = [nnp    EXCEPT ![w] = Inherited(w, @)]
    /\ filter' = [filter EXCEPT ![w] = Inherited(w, @)]
    /\ thread' = [thread EXCEPT ![w] = Leader]
    /\ locked' = [locked EXCEPT ![w] = FALSE]
    /\ UNCHANGED <<mountVars, startVars>>

-----------------------------------------------------------------------------
(* cmd/worker                                                              *)

\* main leaves the filter to an init that says it has installed one, and to
\* whoever asked for none; otherwise it installs its own.
StartWorker(w) ==
    /\ Goto(w, "payload", IF kind[w] = "direct" THEN "nnp" ELSE "args")
    /\ UNCHANGED <<threadVars, mountVars, credVars, startVars>>

\* The attack modes return without looking at the warm memory.
Attack(w) ==
    /\ Goto(w, "args", "dead")
    /\ UNCHANGED <<threadVars, mountVars, credVars, startVars>>

\* MapWarm maps fd 3 when that is the mother's memfd and still has her magic.
WarmMemfd == CreateWarmMemfd(WarmSize)
MapWarm(w) ==
    /\ warmFd[w] /\ Mappable(Rewritten(WarmMemfd, changed))
    /\ Goto(w, "args", "close")
    /\ UNCHANGED <<threadVars, mountVars, credVars, startVars>>

\* The mapping stays.
CloseWarm(w) ==
    /\ Goto(w, "close", "compare")
    /\ warmFd' = [warmFd EXCEPT ![w] = FALSE]
    /\ look' = [look EXCEPT ![w] = [steady |-> changed, ever |-> changed, found |-> -1]]
    /\ UNCHANGED <<kind, changed, threadVars, mountVars, credVars>>

\* The bytes are compared one after the other while others may write, so each has
\* been read before or after what was written to it meanwhile.  Whatever comes of it
\* is told, and main goes on: smaps is read, and main holds or returns.
VerifyWarm(w) ==
    /\ Goto(w, "compare", "work")
    /\ \E cells \in SUBSET look[w].ever :
         /\ look[w].steady \subseteq cells
         /\ look' = [look EXCEPT ![w] = [steady |-> {}, ever |-> {},
                         found |-> VerifyWarmPattern(Rewritten(WarmMemfd, cells))]]
    /\ UNCHANGED <<kind, warmFd, changed, threadVars, mountVars, credVars>>

Return(w) ==
    /\ Goto(w, "work", "dead") \/ Goto(w, "other", "dead")
    /\ UNCHANGED <<threadVars, mountVars, credVars, startVars>>

-----------------------------------------------------------------------------
(* Any other payload of an init.  It is handed the memfd too, and the      *)
(* filter lets it write.                                                   *)

StartOther(w) ==
    /\ kind[w] = "init"
    /\ Goto(w, "payload", "other")
    /\ UNCHANGED <<threadVars, mountVars, credVars, startVars>>

\* Another byte in some cell, or the mother's again.
Scribble(w) ==
    /\ pc[w] = "other" /\ warmFd[w]
    /\ \E cell \in Touched : changed' \in {changed \cup {cell}, changed \ {cell}}
    /\ look' = [v \in Workers |->
                   IF pc[v] # "compare" THEN look[v]
                   ELSE [steady |-> look[v].steady \cap changed',
                         ever   |-> look[v].ever \cup changed',
                         found  |-> look[v].found]]
    /\ UNCHANGED <<kind, pc, warmFd, threadVars, mountVars, credVars>>

-----------------------------------------------------------------------------
(* What happens to a process.                                              *)

\* An error path: os.Exit.  A system call fails by itself, for want of a
\* capability, by the filter, because .oldroot is gone, or because fd 3 is no
\* memfd of a mother.
StepFails(w) ==
    /\ \/ pc[w] \in Fallible \ {"detach", "harden"}
       \/ pc[w] \in DOMAIN Needs /\ ~Able(w, Needs[pc[w]])
       \/ pc[w] = "capset" /\ thread[w] \in filter[w]
       \/ pc[w] = "pivot" /\ ~putOld
       \/ pc[w] = "args" /\ ~(warmFd[w] /\ Mappable(Rewritten(WarmMemfd, changed)))
    /\ pc' = [pc EXCEPT ![w] = "dead"]
    /\ UNCHANGED <<threadVars, mountVars, credVars, startVars>>

\* The Go scheduler moves the main goroutine.
Migrate(w) ==
    /\ ~locked[w]
    /\ pc[w] # "dead"
    /\ pc[w] = "lock" => MigrateEarly
    /\ \E t \in Threads : thread' = [thread EXCEPT ![w] = t]
    /\ UNCHANGED <<pc, locked, mountVars, credVars, startVars>>

Kill(w) ==
    /\ MayKill
    /\ pc[w] # "dead"
    /\ pc' = [pc EXCEPT ![w] = "dead"]
    /\ UNCHANGED <<threadVars, mountVars, credVars, startVars>>

Advance(w) ==
    \/ LockThread(w) \/ CheckPid(w)
    \/ MakePrivate(w) \/ BindRootfs(w) \/ MakePutOld(w) \/ PivotRoot(w)
    \/ Chdir(w) \/ DetachOldRoot(w) \/ MountInfra(w) \/ HardenRootfs(w)
    \/ DropBounding(w) \/ ClearCaps(w) \/ VerifyNoCaps(w)
    \/ SetNoNewPrivs(w) \/ InstallFilter(w) \/ Exec(w)
    \/ StartWorker(w) \/ Attack(w) \/ MapWarm(w) \/ CloseWarm(w) \/ VerifyWarm(w)
    \/ StartOther(w) \/ Scribble(w) \/ Return(w) \/ StepFails(w)

\* Every process has ended.
Finished == (\A w \in Workers : pc[w] = "dead") /\ UNCHANGED vars

Next == (\E w \in Workers : Advance(w) \/ Migrate(w) \/ Kill(w)) \/ Finished

Spec == Init /\ [][Next]_vars

-----------------------------------------------------------------------------
(* Properties.                                                             *)

\* Whatever thread it is on, a payload an init has started is filtered and has
\* no_new_privs, has no capability and no bounding set to regain one from, and
\* is inside the rootfs with the former root out of reach, unless umount itself
\* can fail.
PayloadConfined == \A w \in Workers : pc[w] \in PayloadSteps /\ kind[w] = "init" =>
    /\ \A t \in Threads : bound[w][t] = {} /\ caps[w][t] = {}
    /\ nnp[w] = Threads /\ filter[w] = Threads
    /\ root[w] = "rootfs" /\ (oldSeen[w] => "detach" \in Fallible)

\* No worker loses .oldroot between its mkdir and its pivot_root, whatever
\* the workers that share the rootfs are doing (the ENOENT once seen in 6 of
\* 64 concurrent starts).
PutOldStays == \A w \in Workers : pc[w] = "pivot" => putOld

\* Neither a worker nor an init started by hand ever changes the host's mounts.
HostUntouched == host = "intact"

\* No step is defeated by what main did before it or by what the mother was
\* granted: each mount and the drop of the bounding set has its capability and
\* no filter in the way, the filter may be installed, and the check reads what
\* was just cleared whenever main runs on the leader.  A reordering of main's
\* calls, or a shorter list in the bundle, would break it for every worker,
\* and only on a real kernel.
OrderWorks == \A w \in Workers :
    /\ pc[w] \in DOMAIN Needs => Able(w, Needs[pc[w]])
    /\ pc[w] = "detach"  => Able(w, "SYS_ADMIN")
    /\ pc[w] = "capset"  => thread[w] \notin filter[w]
    /\ pc[w] = "verify"  => bound[w][thread[w]] \cup caps[w][thread[w]] = {}
    /\ pc[w] = "seccomp" => thread[w] \in nnp[w] \/ "SYS_ADMIN" \in caps[w][thread[w]]

\* A hardened payload that lacks a mask follows a word of it, whatever failed in what
\* order, and nothing is ever lost for want of a capability (the MKNOD without which
\* all files once stayed bare, unsaid): the bundle's grant and the work of the init,
\* two files apart, fit together.
HardenWhole == \A w \in Workers :
    pc[w] \in PayloadSteps /\ kind[w] = "init" /\ w \in Hardened =>
        /\ masks[w] # MaskedPaths => told[w] # {}
        /\ "EPERM" \notin told[w]

\* The offset a worker reports is right of a memory that may change under it.
ReportRight(report, seen) ==
    LET Cell(i) == HeaderSize + 1 + i
    IN  /\ report = -1 => \/ HeaderSize \in seen.ever
                          \/ \A i \in 0..(WarmSize - 1) : Cell(i) \notin seen.steady
        /\ report # -1 => /\ Cell(report) \in seen.ever
                          /\ \A i \in 0..(report - 1) : Cell(i) \notin seen.steady

\* What cmd/worker says of the warm memory is so, whoever writes to it meanwhile.  It
\* finds nothing wrong only if no byte was wrong all the while, or the size itself
\* was rewritten, which hides what is behind it; and what it finds is a byte that
\* somebody has changed, with none before it that stayed so.  While nobody writes,
\* it has read back what the mother wrote, whole.
WarmReadsBack == [][\A w \in Workers :
    pc[w] = "compare" /\ pc'[w] = "work" => ReportRight(look'[w].found, look[w])]_vars

\* The figures a worker at its work shows are those of the mapping it asked
\* about and of no other, however the mappings adjoin, and it shows none for an
\* address outside them.
SmapsExact == \A w \in Workers : pc[w] = "work" =>
    \A addr \in 0..(Last(Mappings).end + 1) :
        LET hit   == {i \in DOMAIN Mappings : Holds(Mappings[i], addr)}
            entry == SmapsForAddr(Smaps, addr)
        IN  /\ entry.found <=> hit # {}
            /\ entry.fields = UNION {FieldsOf(i) : i \in hit}

\* What InstallSeccomp says of the process that has called it: "from this
\* moment every system call of this process passes the filter".
WorkFiltered == \A w \in Workers :
    pc[w] \in {"args", "close", "compare", "work"} /\ kind[w] # "bare" => thread[w] \in filter[w]
=============================================================================
