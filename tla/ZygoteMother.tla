---------------------------- MODULE ZygoteMother ----------------------------
(***************************************************************************)
(* The zygote mother (cmd/zygote/main.go), SpawnWorker (zygote/spawn.go)   *)
(* and the worker's leaf cgroup (zygote/cgroup.go), with the spawn clients *)
(* (cmd/spawn/main.go) and the kernel objects they share: the process      *)
(* table and the directory /sys/fs/cgroup.                                 *)
(*                                                                         *)
(* One request is one run of cmd/spawn: one connection, one handleSpawn    *)
(* goroutine, and, when a worker is born, one reaper goroutine.  Handlers  *)
(* and reapers interleave freely; every system call another actor can see  *)
(* is an action of its own.                                                *)
(*                                                                         *)
(* A leaf cgroup is one instance of a directory name: leaves[n] = r says   *)
(* that the directory anolix-n exists and was made by request r's handler. *)
(* The handler clones into the instance it opened (the directory fd), but  *)
(* Destroy removes by path, whatever instance stands there.                *)
(*                                                                         *)
(* Mothers come one after the other, or overlap: mother.sh up waits for a  *)
(* third of a second, not for the former mother's end.  They share the     *)
(* path of the socket, which each of them removes by name, whoever's       *)
(* socket stands there.                                                    *)
(***************************************************************************)
CONSTANTS
    Requests,          \* runs of cmd/spawn
    Ids,               \* worker ids a user can pass with --id
    WorkerId,          \* the id each request carries; None: none was given
    EmptyBinary,       \* the requests whose binary may be the empty string
    Pids,              \* host process ids; reused once free
    CgEnable,          \* the mother's --cgroup flag
    SpuriousBusy,      \* rmdir of an empty leaf may still fail with EBUSY
    SweepUnderMother,  \* mother.sh may sweep leaves while a mother still runs
    Mothers,           \* runs of cmd/zygote
    Overlap,           \* a mother may be started while another still lives
    None, Err          \* no value; an error response

ASSUME NoneAssumption == None \notin Requests \cup Ids \cup Pids \cup Mothers \cup {Err}
ASSUME ErrAssumption  == Err \notin Pids
ASSUME WorkerIdAssumption == WorkerId \in [Requests -> Ids \cup {None}]
ASSUME FlagAssumption ==
    /\ CgEnable \in BOOLEAN
    /\ SpuriousBusy \in BOOLEAN
    /\ SweepUnderMother \in BOOLEAN
    /\ Overlap \in BOOLEAN
ASSUME EmptyAssumption == EmptyBinary \subseteq Requests

VARIABLES
    mother,   \* how far each mother is in its life
    path,     \* the mother whose socket stands at the path, dead or alive
    told,     \* the living mothers that have caught a SIGTERM or SIGINT
    by,       \* the mother each connection belongs to
    client,   \* how far each spawn command is
    sent,     \* the requests whose bytes are in the socket
    empty,    \* those of them with an empty binary
    reply,    \* the response the mother wrote on the connection
    hd,       \* where each handleSpawn goroutine is
    reaper,   \* where each reaper goroutine is
    pid,      \* cmd.Process.Pid of the worker each handler started
    leaves,   \* leaf directories: the request whose handler made the instance
    pstate,   \* process table: "free", "live" or "zombie"
    powner,   \* the request a process was started for
    crowded   \* only for Reachable: the mothers that met another one alive

vars == <<mother, path, told, by, client, sent, empty, reply, hd, reaper, pid, leaves,
          pstate, powner, crowded>>
clientVars == <<client, sent, empty>>
motherVars == <<mother, path, told, by, crowded>>
procVars   == <<pstate, powner>>

-----------------------------------------------------------------------------
\* The name of a request's leaf.  Without an id both the client and the
\* mother make one up from pid and nanoseconds, which nobody else shares:
\* the request itself stands for it.
Wid(r) == IF WorkerId[r] = None THEN r ELSE WorkerId[r]
Names  == Ids \cup Requests

HandlerPhases == {"none", "queued", "read", "mkdir", "limits", "rollback",
                  "spawn", "undo", "replyErr", "replyPid", "done", "killed"}
HandlerActive == {"queued", "read", "mkdir", "limits", "rollback",
                  "spawn", "undo", "replyErr", "replyPid"}
ReaperPhases  == {"none", "wait", "destroy", "done", "killed"}
ReaperActive  == {"wait", "destroy"}

TypeOK ==
    /\ mother \in [Mothers -> {"off", "start", "bind", "serving", "closing", "down"}]
    /\ path   \in Mothers \cup {None}
    /\ told   \subseteq Mothers
    /\ by     \in [Requests -> Mothers \cup {None}]
    /\ client \in [Requests -> {"idle", "dialed", "sent", "ok", "error", "failed"}]
    /\ sent   \subseteq Requests
    /\ empty  \subseteq Requests
    /\ reply  \in [Requests -> Pids \cup {Err, None}]
    /\ hd     \in [Requests -> HandlerPhases]
    /\ reaper \in [Requests -> ReaperPhases]
    /\ pid    \in [Requests -> Pids \cup {None}]
    /\ leaves \in [Names -> Requests \cup {None}]
    /\ pstate \in [Pids -> {"free", "live", "zombie"}]
    /\ powner \in [Pids -> Requests \cup {None}]
    /\ crowded \subseteq Mothers

Init ==
    /\ mother = [m \in Mothers |-> "off"]
    /\ path   = None
    /\ told   = {}
    /\ by     = [r \in Requests |-> None]
    /\ client = [r \in Requests |-> "idle"]
    /\ sent   = {}
    /\ empty  = {}
    /\ reply  = [r \in Requests |-> None]
    /\ hd     = [r \in Requests |-> "none"]
    /\ reaper = [r \in Requests |-> "none"]
    /\ pid    = [r \in Requests |-> None]
    /\ leaves = [n \in Names |-> None]
    /\ pstate = [p \in Pids |-> "free"]
    /\ powner = [p \in Pids |-> None]
    /\ crowded = {}

-----------------------------------------------------------------------------
(* The directory of leaves.  cgroup v2 refuses to remove a leaf that holds *)
(* a live process; a zombie does not count.                                *)

Populated(n) == \E p \in Pids : pstate[p] = "live" /\ powner[p] = leaves[n]

Removable(n) == leaves[n] # None /\ ~Populated(n)

\* os.Remove(path), its error ignored: the directory goes if it can go.
RemovePath(n) ==
    \/ /\ Removable(n)
       /\ leaves' = [leaves EXCEPT ![n] = None]
    \/ /\ ~Removable(n) \/ SpuriousBusy
       /\ UNCHANGED leaves

\* FAULT: Destroy closes the directory fd and forgets the directory.
DestroyFdOnly(r) == UNCHANGED leaves

\* WorkerCgroup.Destroy; it does nothing on a nil receiver.
Destroy(r) == IF CgEnable THEN RemovePath(Wid(r)) ELSE UNCHANGED leaves

Alive == {m \in Mothers : mother[m] \notin {"off", "down"}}

\* Somebody answers at the path.
Listening == path # None /\ mother[path] = "serving"

Goto(r, from, to) == hd[r] = from /\ hd' = [hd EXCEPT ![r] = to]

\* A process is born for r, with a reaper goroutine to wait for it.
Born(r, p) ==
    /\ pstate[p] = "free"
    /\ reaper' = [reaper EXCEPT ![r] = "wait"]
    /\ pid'    = [pid EXCEPT ![r] = p]
    /\ pstate' = [pstate EXCEPT ![p] = "live"]
    /\ powner' = [powner EXCEPT ![p] = r]

\* A zombie is reaped: its pid can be given to anyone.
Buried(p) ==
    /\ pstate[p] = "zombie"
    /\ pstate' = [pstate EXCEPT ![p] = "free"]
    /\ powner' = [powner EXCEPT ![p] = None]

-----------------------------------------------------------------------------
(* Faulty variants of the actions below: slips this code could make, each  *)
(* of which breaks a property.  None of them is part of Next.              *)

\* FAULT: what stands at the path is left there.
RemoveStaleNot(m) ==
    /\ mother[m] = "start"
    /\ mother' = [mother EXCEPT ![m] = "bind"]
    /\ UNCHANGED <<path, told, by, crowded, clientVars, reply, hd, reaper, pid, leaves,
                   procVars>>

\* FAULT: the handler hangs on a closed connection until a shutdown.
ReadErrorLate(r) ==
    /\ r \notin sent
    /\ Goto(r, "read", "replyErr")
    /\ mother[by[r]] = "closing"
    /\ UNCHANGED <<motherVars, clientVars, reply, reaper, pid, leaves, procVars>>

\* FAULT: EEXIST is rolled back like a failed limit write.
MakeLeafRollback(r) ==
    /\ \/ /\ leaves[Wid(r)] = None
          /\ leaves' = [leaves EXCEPT ![Wid(r)] = r]
          /\ Goto(r, "mkdir", "limits")
       \/ /\ leaves[Wid(r)] # None
          /\ Goto(r, "mkdir", "rollback")
          /\ UNCHANGED leaves
    /\ UNCHANGED <<motherVars, clientVars, reply, reaper, pid, procVars>>

\* FAULT: a leaf in the way is taken over instead of refused.
MakeLeafTakeOver(r) ==
    /\ Goto(r, "mkdir", "limits")
    /\ leaves' = [leaves EXCEPT ![Wid(r)] = r]
    /\ UNCHANGED <<motherVars, clientVars, reply, reaper, pid, procVars>>

\* FAULT: the clone succeeds and is reported as a failure.
StartWorkerAsError(r, p) ==
    /\ r \notin empty
    /\ CgEnable => leaves[Wid(r)] = r
    /\ Goto(r, "spawn", "replyErr")
    /\ Born(r, p)
    /\ UNCHANGED <<motherVars, clientVars, reply, leaves>>

\* FAULT: the worker is cloned into whatever stands at the path, or nothing.
StartWorkerByPath(r, p) ==
    /\ r \notin empty
    /\ Goto(r, "spawn", "replyPid")
    /\ Born(r, p)
    /\ UNCHANGED <<motherVars, clientVars, reply, leaves>>

\* FAULT: the pid is set to -1 after the Wait, while a handler still reads it.
ReaperWaitClears(r) ==
    /\ reaper[r] = "wait"
    /\ reaper' = [reaper EXCEPT ![r] = "destroy"]
    /\ pid'    = [pid EXCEPT ![r] = Err]
    /\ Buried(pid[r])
    /\ UNCHANGED <<motherVars, clientVars, reply, hd, leaves>>

\* FAULT: the worker is waited for only once the client has its pid.
ReaperWaitAnswered(r) ==
    /\ reaper[r] = "wait"
    /\ client[r] = "ok"
    /\ reaper' = [reaper EXCEPT ![r] = "destroy"]
    /\ Buried(pid[r])
    /\ UNCHANGED <<motherVars, clientVars, reply, hd, pid, leaves>>

\* FAULT: workers are orphans from birth, as under the former double fork.
InitReapsAll(p) ==
    /\ Buried(p)
    /\ UNCHANGED <<motherVars, clientVars, reply, hd, reaper, pid, leaves>>

-----------------------------------------------------------------------------
(* The spawn command.                                                      *)

\* The connection enters the queue of the listener whose socket is there.
Dial(r) ==
    /\ client[r] = "idle"
    /\ Listening
    /\ client' = [client EXCEPT ![r] = "dialed"]
    /\ by' = [by EXCEPT ![r] = path]
    /\ Goto(r, "none", "queued")
    /\ UNCHANGED <<mother, path, told, crowded, sent, empty, reply, reaper, pid, leaves, procVars>>

Send(r) ==
    /\ client[r] = "dialed"
    /\ client' = [client EXCEPT ![r] = "sent"]
    /\ sent' = sent \cup {r}
    /\ \/ UNCHANGED empty
       \/ r \in EmptyBinary /\ empty' = empty \cup {r}
    /\ UNCHANGED <<motherVars, reply, hd, reaper, pid, leaves, procVars>>

ReadReply(r) ==
    /\ client[r] = "sent"
    /\ reply[r] # None
    /\ client' = [client EXCEPT ![r] = IF reply[r] = Err THEN "error" ELSE "ok"]
    /\ UNCHANGED <<motherVars, sent, empty, reply, hd, reaper, pid, leaves, procVars>>

\* No mother to dial, the 10 s deadline, a reset connection, or a response
\* cut short by the mother's exit: the command ends without an answer.
ClientFails(r) ==
    /\ \/ client[r] = "idle" /\ ~Listening
       \/ client[r] \in {"dialed", "sent"}
    /\ client' = [client EXCEPT ![r] = "failed"]
    /\ UNCHANGED <<motherVars, sent, empty, reply, hd, reaper, pid, leaves, procVars>>

-----------------------------------------------------------------------------
(* handleSpawn, up to SpawnWorker.                                         *)

Accept(r) ==
    /\ by[r] # None /\ mother[by[r]] = "serving"
    /\ Goto(r, "queued", "read")
    /\ UNCHANGED <<motherVars, clientVars, reply, reaper, pid, leaves, procVars>>

\* ReadRequest has no deadline: it waits for the bytes, which stay readable
\* even after the client has gone.
ReadRequest(r) ==
    /\ r \in sent
    /\ Goto(r, "read", IF CgEnable THEN "mkdir" ELSE "spawn")
    /\ UNCHANGED <<motherVars, clientVars, reply, reaper, pid, leaves, procVars>>

\* The client hung up before it wrote a request.
ReadError(r) ==
    /\ r \notin sent
    /\ client[r] = "failed"
    /\ Goto(r, "read", "replyErr")
    /\ UNCHANGED <<motherVars, clientVars, reply, reaper, pid, leaves, procVars>>

\* CreateWorkerCgroup: os.Mkdir fails with EEXIST on a name in use, and the
\* leaf that stands there is left alone.
MakeLeaf(r) ==
    /\ \/ /\ leaves[Wid(r)] = None
          /\ leaves' = [leaves EXCEPT ![Wid(r)] = r]
          /\ Goto(r, "mkdir", "limits")
       \/ /\ leaves[Wid(r)] # None
          /\ Goto(r, "mkdir", "replyErr")
          /\ UNCHANGED leaves
    /\ UNCHANGED <<motherVars, clientVars, reply, reaper, pid, procVars>>

\* The limit files are written and the directory opened; any of them may fail.
WriteLimits(r) ==
    /\ Goto(r, "limits", "spawn") \/ Goto(r, "limits", "rollback")
    /\ UNCHANGED <<motherVars, clientVars, reply, reaper, pid, leaves, procVars>>

Rollback(r) ==
    /\ Goto(r, "rollback", "replyErr")
    /\ RemovePath(Wid(r))
    /\ UNCHANGED <<motherVars, clientVars, reply, reaper, pid, procVars>>

-----------------------------------------------------------------------------
(* SpawnWorker and the reaper goroutine it leaves behind.                  *)

\* The early return for an empty binary: the leaf already made stays.
RejectEmpty(r) ==
    /\ r \in empty
    /\ Goto(r, "spawn", "replyErr")
    /\ UNCHANGED <<motherVars, clientVars, reply, reaper, pid, leaves, procVars>>

\* clone3 with CLONE_INTO_CGROUP on the opened directory; the kernel refuses
\* (ENODEV) a leaf instance that has been removed meanwhile.
StartWorker(r, p) ==
    /\ r \notin empty
    /\ CgEnable => leaves[Wid(r)] = r
    /\ Goto(r, "spawn", "replyPid")
    /\ Born(r, p)
    /\ UNCHANGED <<motherVars, clientVars, reply, leaves>>

\* Start fails: no such binary, EAGAIN, a removed leaf.
StartFails(r) ==
    /\ r \notin empty
    /\ Goto(r, "spawn", "undo")
    /\ UNCHANGED <<motherVars, clientVars, reply, reaper, pid, leaves, procVars>>

UndoLeaf(r) ==
    /\ Goto(r, "undo", "replyErr")
    /\ Destroy(r)
    /\ UNCHANGED <<motherVars, clientVars, reply, reaper, pid, procVars>>

\* WriteResponse and the deferred Close; a write error is ignored.
WriteReply(r) ==
    /\ \/ /\ Goto(r, "replyErr", "done")
          /\ reply' = [reply EXCEPT ![r] = Err]
       \/ /\ Goto(r, "replyPid", "done")
          /\ reply' = [reply EXCEPT ![r] = pid[r]]
    /\ UNCHANGED <<motherVars, clientVars, reaper, pid, leaves, procVars>>

\* cmd.Wait reaps the zombie: from here its pid can be given to anyone.
ReaperWait(r) ==
    /\ reaper[r] = "wait"
    /\ reaper' = [reaper EXCEPT ![r] = "destroy"]
    /\ Buried(pid[r])
    /\ UNCHANGED <<motherVars, clientVars, reply, hd, pid, leaves>>

ReaperDestroy(r) ==
    /\ reaper[r] = "destroy"
    /\ reaper' = [reaper EXCEPT ![r] = "done"]
    /\ Destroy(r)
    /\ UNCHANGED <<motherVars, clientVars, reply, hd, pid, procVars>>

-----------------------------------------------------------------------------
(* The kernel, the mother's life, and mother.sh.                           *)

\* A worker ends: by itself, killed, or out of memory.
WorkerExits(p) ==
    /\ pstate[p] = "live"
    /\ pstate' = [pstate EXCEPT ![p] = "zombie"]
    /\ UNCHANGED <<motherVars, clientVars, reply, hd, reaper, pid, leaves, powner>>

\* The children of a dead mother belong to the host's init, which reaps them.
InitReaps(p) ==
    /\ pstate[p] = "zombie" /\ reaper[powner[p]] = "killed"
    /\ Buried(p)
    /\ UNCHANGED <<motherVars, clientVars, reply, hd, reaper, pid, leaves>>

\* Flags are read and the memory is filled before the socket is touched.
StartMother(m) ==
    /\ mother[m] = "off"
    /\ Overlap \/ Alive = {}
    /\ mother' = [mother EXCEPT ![m] = "start"]
    /\ crowded' = IF Alive = {} THEN crowded ELSE crowded \cup Alive \cup {m}
    /\ UNCHANGED <<path, told, by, clientVars, reply, hd, reaper, pid, leaves, procVars>>

\* os.Remove of what a former mother may have left, or a living one uses.
RemoveStale(m) ==
    /\ mother[m] = "start"
    /\ mother' = [mother EXCEPT ![m] = "bind"]
    /\ path' = None
    /\ UNCHANGED <<told, by, crowded, clientVars, reply, hd, reaper, pid, leaves, procVars>>

\* net.Listen and os.Chmod; EADDRINUSE, if the path is taken, is fatal.
Listen(m) ==
    /\ mother[m] = "bind"
    /\ IF path = None
       THEN path' = m /\ mother' = [mother EXCEPT ![m] = "serving"]
       ELSE mother' = [mother EXCEPT ![m] = "down"] /\ UNCHANGED path
    /\ UNCHANGED <<told, by, crowded, clientVars, reply, hd, reaper, pid, leaves, procVars>>

\* SIGTERM or SIGINT; before signal.Notify it kills, which is Exit.
Signal(m) ==
    /\ mother[m] = "serving" /\ m \notin told
    /\ told' = told \cup {m}
    /\ UNCHANGED <<mother, path, by, crowded, clientVars, reply, hd, reaper, pid,
                   leaves, procVars>>

\* The listener is closed, which first unlinks its path, and with it the queue
\* of connections; handlers and reapers run on until the process exits.
Shutdown(m) ==
    /\ mother[m] = "serving" /\ m \in told
    /\ mother' = [mother EXCEPT ![m] = "closing"]
    /\ path' = None
    /\ hd' = [r \in Requests |->
                IF by[r] = m /\ hd[r] = "queued" THEN "killed" ELSE hd[r]]
    /\ UNCHANGED <<told, by, crowded, clientVars, reply, reaper, pid, leaves, procVars>>

\* os.Exit(0) after a last os.Remove of the path; or main returns before that,
\* a fatal error or a crash.  Nobody waits for the goroutines.
Exit(m) ==
    /\ m \in Alive
    /\ mother' = [mother EXCEPT ![m] = "down"]
    /\ told' = told \ {m}
    /\ \/ UNCHANGED path
       \/ mother[m] = "closing" /\ path' = None
    /\ hd' = [r \in Requests |->
                IF by[r] = m /\ hd[r] \in HandlerActive THEN "killed" ELSE hd[r]]
    /\ reaper' = [r \in Requests |->
                IF by[r] = m /\ reaper[r] \in ReaperActive THEN "killed" ELSE reaper[r]]
    /\ UNCHANGED <<by, crowded, clientVars, reply, pid, leaves, procVars>>

\* mother.sh has killed every mother, and does not wait for their end.
AllTold == Alive \subseteq told

\* mother.sh up and down: rm -f on the socket.
RmSocket ==
    /\ AllTold /\ path # None
    /\ path' = None
    /\ UNCHANGED <<mother, told, by, crowded, clientVars, reply, hd, reaper, pid,
                   leaves, procVars>>

\* mother.sh down: rmdir on every anolix-* leaf.
Sweep(n) ==
    /\ AllTold
    /\ Alive = {} \/ SweepUnderMother
    /\ Removable(n)
    /\ leaves' = [leaves EXCEPT ![n] = None]
    /\ UNCHANGED <<motherVars, clientVars, reply, hd, reaper, pid, procVars>>

-----------------------------------------------------------------------------
HandlerStep(r) ==
    \/ Accept(r) \/ ReadRequest(r) \/ ReadError(r)
    \/ MakeLeaf(r) \/ WriteLimits(r) \/ Rollback(r)
    \/ RejectEmpty(r) \/ \E p \in Pids : StartWorker(r, p)
    \/ StartFails(r) \/ UndoLeaf(r) \/ WriteReply(r)
ReaperStep(r) == ReaperWait(r) \/ ReaperDestroy(r)
ClientStep(r) == Dial(r) \/ Send(r) \/ ReadReply(r) \/ ClientFails(r)

MotherStep(m) ==
    \/ StartMother(m) \/ RemoveStale(m) \/ Listen(m)
    \/ Signal(m) \/ Shutdown(m) \/ Exit(m)

\* Every command has ended and no process or mother is left: the only states
\* in which nothing happens any more.
Idle ==
    /\ \A r \in Requests : client[r] \in {"ok", "error", "failed"}
    /\ \A p \in Pids : pstate[p] = "free"
    /\ Alive = {}
    /\ UNCHANGED vars

Next ==
    \/ \E r \in Requests : HandlerStep(r) \/ ReaperStep(r) \/ ClientStep(r)
    \/ \E p \in Pids : WorkerExits(p) \/ InitReaps(p)
    \/ \E n \in Names : Sweep(n)
    \/ \E m \in Mothers : MotherStep(m)
    \/ RmSocket
    \/ Idle

Spec == Init /\ [][Next]_vars

\* The Go scheduler runs every runnable goroutine, and the kernel's init
\* reaps; commands have a deadline.  Workers, signals and the sweep are free.
Fairness ==
    /\ \A r \in Requests : WF_vars(HandlerStep(r)) /\ WF_vars(ReaperStep(r))
    /\ \A r \in Requests : WF_vars(ReadReply(r) \/ Send(r) \/ ClientFails(r))
    /\ \A p \in Pids : WF_vars(InitReaps(p))

FairSpec == Spec /\ Fairness

-----------------------------------------------------------------------------
(* Safety.                                                                 *)

\* A live worker's leaf stands at its path and is the one made for it: the
\* limits that fence it are never removed or replaced under it, whatever
\* Destroy, Rollback, mother.sh and a later mother do.  (--cgroup)
WorkerFenced ==
    CgEnable => \A p \in Pids :
        pstate[p] = "live" => leaves[Wid(powner[p])] = powner[p]

\* Two live workers never share an id: mkdir's EEXIST makes a spawn retried
\* with the same --id (after a client timeout, or after a mother's restart
\* with the first worker orphaned) fail while the first worker lives.
OneWorkerPerId ==
    CgEnable => \A p, q \in Pids :
        /\ pstate[p] = "live" /\ pstate[q] = "live"
        /\ Wid(powner[p]) = Wid(powner[q])
        => p = q

\* From Mkdir to Destroy the path of a request's leaf names its own instance,
\* so Rollback and Destroy, which go by path, never hit another request's
\* leaf.  (mother.sh sweeping only when the mother is gone)
MayRemove(r) ==
    \/ hd[r] \in {"limits", "rollback"}
    \/ CgEnable /\ (hd[r] \in {"spawn", "undo"} \/ reaper[r] \in ReaperActive)
LeafHeld ==
    ~SweepUnderMother => \A r \in Requests :
        MayRemove(r) => leaves[Wid(r)] = r

\* A request answered with an error never had a worker, and will have none.
ErrorMeansNoWorker ==
    \A r \in Requests : reply[r] = Err =>
        reaper[r] = "none" /\ \A p \in Pids : powner[p] # r

\* The host pid in a response is that of the request's own worker for as long
\* as the reaper has not waited for it: until then nobody else can get the
\* pid, so a client's kill hits its own worker or a zombie.
ReplyNamesWorker ==
    \A r \in Requests : reply[r] \in Pids /\ reaper[r] = "wait" =>
        pstate[reply[r]] # "free" /\ powner[reply[r]] = r

\* Every leaf has somebody who will remove it, or a mother that died first:
\* with rmdir reliable, and but for an empty binary, error paths and reapers
\* between them forget none.
LeavesAccounted ==
    ~SpuriousBusy => \A n \in Names, r \in Requests \ empty :
        leaves[n] = r =>
            \/ hd[r] \in {"limits", "rollback", "spawn", "undo"}
            \/ hd[r] = "killed" /\ reaper[r] = "none"
            \/ reaper[r] \in {"wait", "destroy", "killed"}

\* A mother that serves, is not told to stop and has met no other mother alive
\* has its socket at the path, however its predecessors ended; and no socket
\* of theirs is in its way when it is about to listen.
Reachable == \A m \in Mothers \ crowded :
    /\ mother[m] = "serving" /\ m \notin told => path = m
    /\ mother[m] = "bind" => path = None

\* What spawn.go and cgroup.go promise of a failed spawn: the leaf made for
\* it is cleaned up.  An empty binary breaks it.
FailedSpawnLeavesNoLeaf ==
    \A n \in Names, r \in Requests : reply[r] = Err => leaves[n] # r

-----------------------------------------------------------------------------
(* Liveness, of FairSpec.                                                  *)

\* Every worker that ends is reaped, by its goroutine or by the host's init.
ZombiesReaped == \A p \in Pids : pstate[p] = "zombie" ~> pstate[p] = "free"

\* Every connection taken from the queue is answered and closed, unless the
\* mother exits: no handler waits forever.  Every client here is cmd/spawn, with the
\* deadline it sets; what another may do to its handler is in SpawnProtocol.
HandlersFinish == \A r \in Requests :
    hd[r] = "read" ~> hd[r] \in {"done", "killed"}

\* A leaf goes once its worker has ended, unless the mother exits before.
LeafReclaimed == \A r \in Requests :
    (reaper[r] = "wait" /\ pstate[pid[r]] = "zombie")
        ~> (leaves[Wid(r)] # r \/ reaper[r] = "killed")

-----------------------------------------------------------------------------
(* The service a client sees.                                              *)

Worker(r) ==
    IF reaper[r] = "none" THEN "none"
    ELSE IF \E p \in Pids : powner[p] = r /\ pstate[p] = "live" THEN "running"
    ELSE "ended"
Answer(r) ==
    IF reply[r] = None THEN "none" ELSE IF reply[r] = Err THEN "error" ELSE "pid"

Service == INSTANCE SpawnService WITH
    Exclusive <- CgEnable,
    Name      <- [r \in Requests |-> Wid(r)],
    worker    <- [r \in Requests |-> Worker(r)],
    answer    <- [r \in Requests |-> Answer(r)]

\* The mother implements the abstract spawn service.
ImplementsService == Service!Spec
=============================================================================
