# Anolix, verified

This directory keeps a TLA+ model of [Anolix](../src/README.md) beside its code:
modules translated from the Go source, TLC configurations that check them on
small instances, and TLAPS proofs of what holds for any number of requests,
workers and runs.

Anolix starts untrusted commands in two ways. `cmd/anolix` writes an OCI bundle
and lets `runc` or `crun` run it. `cmd/zygote` is a resident *mother* that clones
workers into fresh namespaces on the request of `cmd/spawn`; such a worker
starts as `cmd/worker-init`, which confines itself and becomes the payload.

## Inventory

| Component | State it keeps | Operations | Modelled in |
|---|---|---|---|
| Mother: `cmd/zygote`, `zygote/spawn.go` | listener, the socket's path, one handler goroutine per connection, one reaper goroutine per worker | bind, accept, read request, make leaf, clone, reply, reap, shut down | `ZygoteMother` |
| Leaf cgroups: `zygote/cgroup.go` | directories `/sys/fs/cgroup/anolix-<id>` | mkdir, limits, rollback, destroy | `ZygoteMother` |
| Spawn client: `cmd/spawn` | one connection with a deadline | dial, send, read, fail | `ZygoteMother` |
| `scripts/zygote/mother.sh` | none | start, stop, remove the socket, sweep leaves | `ZygoteMother` |
| `cmd/worker-init`, `zygote/caps.go`, `InstallSeccomp` | mount namespace, root, covered paths, errors told, per-thread credentials; `.oldroot` in the shared rootfs | the steps of `main`, with `hardenRootfs` | `WorkerInit` |
| `cmd/worker`, the payload that comes with it | filter, file descriptor 3, a mapping | filter itself, attack, map, close, compare, report | `WorkerInit` |
| Mother's bundle: `zygote/spec.go` | the capabilities it grants | `MotherCapabilities` | `WorkerInit`; the rest is a template |
| Warm memory: `zygote/warm.go` | memfd, which stays writable; mappings | create, fill, map, verify, look up in smaps | `WarmMemory`, used by `WorkerInit` |
| `launcher.Run`, end of `cmd/anolix` | bundle, runtime process, context, container by id | prepare, start, wait, cancel, delete, clean up | `LauncherRun` |
| Filter program: `zygote/seccomp.go` | the lists, the program | merge, translate, build; the kernel's check and interpreter | `SeccompFilter` |
| Wire format: `zygote/protocol.go` | bytes in a stream, a deadline | write and read frames | `SpawnProtocol` |
| Policy: `config`, `launcher/spec.go`, `Runtime.SpecVersion` | policy, `config.json` | parse, validate, translate; the runtime's acceptance | `PolicySpec` |
| the rest of `launcher/runtime.go`, `zygote/timing.go` | none | look up, read a clock | not modelled, see below |
| `cmd/{probe,rawfilter,sysc,tprobe,cgprobe,warmtest}`, tracing scripts | none | try and print | not modelled, see below |

How they interact: clients and mother by one connection per request; mother and
worker by clone, wait, the leaf cgroup and the memfd it inherits; workers among
themselves only by `.oldroot` in their common rootfs, by leaf names, and by that
memfd, which all of them hold open for writing until they close it; mothers by
the socket's path, and a successor finds the former mother's orphans and leaves;
runs of `cmd/anolix` only by the runtime's table of container ids and by a
directory given to both with `--bundle`.

What is hard here: everything removed *by name* although it was made as an
instance (leaves, containers, `.oldroot`, the socket, `config.json`); answers that race the
reaper, the client's deadline and the mother's exit; credentials that belong to
a thread while goroutines move; cancellation racing every step of `cmd.Wait`.
`PROJECT.json` lists each of these with its line and the property that covers it, or
why none does.

What makes the components correct:

- *Mother*: one worker at most per request; an error means there is none; a pid
  in a response is that worker's; a worker never loses its cgroup; an id has one
  live worker; whatever is made is removed by somebody; a mother that serves can be
  reached, however her predecessors ended.
- *Worker*: no payload runs unconfined; no worker breaks another's start; the
  host's mounts are left alone; without failures each start succeeds, with the
  capabilities the bundle grants; no mask is lost silently, whichever fails, and
  none for want of a capability.
- *Warm memory*: what a worker says of it is true although others may write to it,
  so that it has read back what the mother wrote unless somebody did; and its
  figures are those of its own mapping.
- *Filter*: a call gets what the lists say, and the kernel takes the program.
- *Wire format*: a request is had whole or not at all; no answer is made up;
  `cmd/spawn` and its handler end, and no handler waits for a client that has gone.
- *Policy*: what runs is held to what was written; what is refused is refused for
  a reason in the policy.
- *Launcher*: the exit code is the container's; cancellation is reported and
  ends; no bundle or container is left behind; a container runs the spec of its
  own run; other runs are spared.

## Modules

| Module | Contents |
|---|---|
| `SpawnService` | the abstract service: at most one worker and one truthful answer per request, exclusive names |
| `ZygoteMother` | mothers and their socket, handlers, reapers, clients, leaves, process table; refines `SpawnService` |
| `WarmMemory` | the bytes a mother shares: layout, pattern, verification, the search of smaps |
| `WorkerInit` | concurrent workers over one rootfs, from clone to payload; extends `WarmMemory` |
| `RunService` | the abstract command: one runtime, told to stop only when cancelled, one true answer |
| `LauncherRun` | runs of the launcher with bundles, runtime, watch goroutine and containers; refines `RunService` |
| `SeccompFilter` | the allow-list from names to verdicts, one instruction at a time |
| `PolicySpec` | a policy from its file to the kernel |
| `SpawnExchange` | the abstract connection: one request, one answer |
| `SpawnProtocol` | the bytes of a connection; refines `SpawnExchange` |
| `MC*` | the finite instances TLC checks |
| `*Proofs` | theorems, one module for each of the six components and one for `WarmMemory` |

Each module starts with its own account of what its variables stand for.
Operators marked `FAULT` are slips the code could make; they belong to no
specification and serve to test that the properties notice them.

### ZygoteMother

A request is one run of `cmd/spawn`. `hd[r]` is the program counter of its
`handleSpawn` goroutine: `queued` (in the listener's backlog), `read`, `mkdir`,
`limits`, `rollback`, `spawn`, `undo`, `replyErr` or `replyPid`, and at the end
`done` or, when the mother has exited under it, `killed`. `reaper[r]` is the
goroutine `SpawnWorker` leaves behind. Each system call that another actor can
observe is a step; what happens between two of them is not.

A leaf is an *instance* of a directory name, `leaves[n] = r`: the handler clones
through a file descriptor, so into its instance, while `Destroy` and `Rollback`
go by path. That difference is what most of the properties are about. A rmdir
fails while a live process is in the leaf; `SpuriousBusy` lets it fail in
other cases as well, as the comment on `Destroy` allows for.

Pids are few and reused. A zombie keeps its pid until its reaper has waited for
it or, when its mother is dead, the host's init has. Closing the listener kills
what is in its queue; exiting kills every goroutine; workers live on. The
clients' deadline may pass at any moment: time has no other model.

Mothers overlap, for `mother.sh up` waits 0.3 s after its `pkill` and not for the
former mother's end, and nothing keeps anybody from starting two. `path` is the
mother whose socket file stands at the path; each removal of it is by name
(`RemoveStale`, `Shutdown`, whose `Close` unlinks it first, `Exit`, `RmSocket`). A
client reaches whoever listens on the file it finds there, and the connection
stays with that mother (`by`). `told` are the mothers that have caught a signal
and not yet acted on it; the script's `rm` and sweep come only after its `pkill`,
so when every living mother has been told (`AllTold`). `crowded` is there for
`Reachable` alone: the mothers that were alive together with another. They can
unlink each other's socket, and nothing in the code prevents it; a mother that
met no other is what the code does look after.

Left out: the bytes of a message, log lines, the moment between `Listen` and
`Chmod` (only root can connect in it), and a third party that starts a mother
between the script's `pkill` and its `rm`.

### WorkerInit

A worker is of one of four `Kinds`: an `init` the mother has spawned; a `stray`,
the same program started by hand in the host's own namespaces; `direct`, which is
`cmd/worker` spawned without an init; `bare`, the same with `noseccomp`. `pc[w]`
walks through `main` of `cmd/worker-init` and, from `payload` on, through that of
`cmd/worker`; each system call is one step, guarded by the capabilities and the
filter of the *thread* it runs on. What the mother's bundle grants
(`MotherCapabilities`, from `zygote/spec.go`) is what each thread starts with;
`Needs` names the capability each call asks for, so `OrderWorks` ties that list to
the calls of the init, a file away.

`Migrate` is the Go scheduler, which may move the goroutine while it is not
locked, and with `MigrateEarly` even before `LockOSThread`, when main has not yet
run a line. `execve` leaves one thread, with the credentials of the caller, where
uid 0 regains capabilities up to the bounding set; every thread the payload makes
later inherits from it.

`DetachOldRoot` goes on whether or not the unmount has worked, as the code does.
`HardenRootfs` tries every item whatever became of the last, and each may fail by
itself: making `/dev/null`, each mask, and `rest`, which stands for the mounts and
the read-only remounts. A file is masked by a bind of `/dev/null`, so no file is
without that device, while a directory gets a tmpfs; `there` is the successful
`Stat` that skips the `mknod`. `masks` are the paths covered, `told` the kinds of
error the init has told of, `EPERM` being one for want of a capability.
`MaskedFiles` and `MaskedDirs` are the paths that exist.

The warm memory is what the mother wrote, except in the cells of `changed`: the memfd
is neither sealed nor read-only, and every worker gets it on file descriptor 3. A
payload that is not `cmd/worker` may write to it as long as it runs (`Scribble`), a
byte, the size or the magic. `cmd/worker` maps it, closes the descriptor, and compares
(`VerifyWarm`), which takes time: `look` is the window of what it may see, the cells
that were changed all the while and those that were at some time, from which its
report follows. It goes on whatever it finds, as the code does. Left out: a memory
cut short by `ftruncate`, which the comparing worker would meet as a SIGBUS, that is
as a `Kill`; arguments, and the bodies of the attack modes.

### WarmMemory

Pure definitions: what `CreateWarmMemfd` writes chunk by chunk, what it looks like
once some cells are `Rewritten` (a byte to its successor, the size to `OtherSize`),
what `MapWarm` accepts, what `VerifyWarmPattern` compares, and `SmapsForAddr` as a fold over the
lines of smaps with the accumulator of the Go loop. Bytes are numbers modulo 256.
The size in the header stands in one cell instead of eight. A chunk of 64 KiB is
scaled down by the constant `Chunk`; the run takes a size that is not a multiple
of it. `Mappings` is in the order in which the kernel lists them, each with its own
fields. Not told apart: the pattern's period is 256, so `VerifyWarmPattern`
could not tell data displaced by whole pages from data in its place; nothing in
the code displaces it.

### LauncherRun

`pc[l]` walks through `Launcher.Run`. `watch[l]` is the goroutine that
`exec.CommandContext` adds: it sends SIGTERM when the context ends (`told`),
SIGKILL after `WaitDelay`, and hands its verdict to `Wait`, for which `WaitWatch`
keeps the rule of `os/exec`: an exit error wins over the context's error. `rt`
and `status` are the runtime's process, `first` the container's first process,
`ctr` the runtime's table, where an id stands for one container. Statuses are
integers, a signal being negative as in `WaitStatus`.

`bundle[l]` is the directory a run uses: its own temporary one, which bears the
run's name, or one of `Dirs`, given with `--bundle` and used before. `config[d]` is
whose spec lies in its `config.json`. `os.WriteFile` truncates first and writes
then (`Prepare`, `WriteConfig`), so that runs sharing a directory overwrite or mix
each other's text, and the runtime reads what is there when it starts. `ran` and
`undeleted` record, for the properties alone, whose spec was read and which forced
delete has failed.

Outside `src/` are `os/exec` and the runtime. The runtime refuses an id in use,
deletes a container whose first process has ended, passes its code on, and
cannot do either once it is killed.

`RunService` is what is left of this for whoever starts the command: `Cancel`,
`Start`, `Tell` and `Return` of the command itself, `Create` and `Exit` of its
runtime, `Free` for the forced deletes, `Lose` for a crash. Its guards are the
promises: a return is an error unless the container is gone or somebody has killed
the runtime; one after the runtime has been told to stop is an error; the code is
the runtime's, but for a clean end that was told; and only a run that was
cancelled, or whose runtime never started, frees an id. `Outcome` gives the exit
status `cmd/anolix` makes of the code and error `Run` returns.

### SeccompFilter

The loops of `DefaultPayloadAllowlist` (`Merge`) and `InstallSeccomp`
(`SkipUnknown`, `TakeNumber`) take a step per entry, the kernel a step per
instruction. An instruction is a record; the word a filter returns has its two
halves, the errno being cut to 16 bits. `KernelAccepts` is the kernel's check of
jumps, last instruction and length, of which it sees 16 bits. The lists and the
table are constants: the real ones (113 and 40 names, 157 numbers at most) give
at most 319 instructions, so `TableAssumption`, that the table fits, holds with
room to spare and the 16 bits never cut anything off.

### PolicySpec

A run of `cmd/anolix` has a policy from a file, from nobody (`Default`), or, as
a library, from a caller who skipped `Parse`. `Load` and `New` validate it,
`PrepareBundle` writes `config.json`, and the runtime takes it or refuses it. A
string is what the code can tell of it: whether an entry has blanks inside and
of what kind, whether an action needs trimming or other case. The runtime is what
the source says of it: `crun` refuses a newer `ociVersion` and an errno beside an
action that has none, both drop names they do not know, a group that is not
mapped cannot be mounted, and the kernel has bounds for limits. `kind` is what
`kindFromName` makes of the executable's name and `real` what it is. `Meaning` is
the reference definition: what each knob says, without the code's helpers.

### SpawnProtocol

A frame's bytes have positions, no values: `up.sent` and `up.got` count what is
written and read of the client's frame, `down` the same for the response.
Between writer and reader the kernel keeps up to `Buffer` bytes and cuts writes
and reads up as it likes, which is why `io.ReadFull` matters. Lengths are kept
modulo `Width`, as in a `uint32`. The client may give up at any moment
(`SetDeadline`), the mother may exit at any moment; the other side then reads what
is left and sees the end. The socket's mode is 0666, so `Requests` includes streams
of clients other than `cmd/spawn`: wrong magic, fewer or more bytes than announced, no
JSON, or a whole frame. `BySpawn` tells the two apart. Only `cmd/spawn` has a deadline
(`ClientDeadline`); another client may hang up (`StrayLeaves`) but need not, and the
mother has no deadline for it. `ClientDecode` says that JSON cut short does not decode.

## Runs

| Run | Instance | What it shows |
|---|---|---|
| `mother_safety` | 2 requests for one id, either maybe with an empty binary, 2 pids, 2 mothers that may overlap, rmdir unreliable, leaves swept only when no mother runs | `LeafHeld`: removal by path hits only the remover's own leaf; `ErrorMeansNoWorker`; `ReplyNamesWorker`; `OneWorkerPerId`; `Reachable`: the socket of a mother that met no other stands |
| `mother_sweep` | 2 requests for one id, 2 pids, 1 mother, rmdir reliable, leaves swept under a mother told to stop, fair | `WorkerFenced`; `LeavesAccounted`; `ImplementsService`: refinement of `SpawnService`; `ZombiesReaped`, `HandlersFinish`, `LeafReclaimed` |
| `mother_empty` | an empty binary | **violation**: the leaf stays |
| `init_safety` | 2 workers of any of the 4 kinds, one with `--harden`, 2 threads each, every step fallible but the detach, kills, migration even before the lock; `/dev/null`, one file to mask, one directory and the rest of the hardening each failing by themselves; 12 bytes of warm memory in chunks of 5, 4 cells of which other payloads write to, 3 mappings of which 2 adjoin | `PayloadConfined`; `PutOldStays`; `OrderWorks`: no step is defeated by an earlier one or by the grant; `HostUntouched`; `HardenWhole`: no mask is missing unsaid, and nothing fails for want of a capability; `WarmReadsBack`: what a worker reports of the memory is true, whoever writes to it; `SmapsExact` |
| `worker_unlocked` | one worker, an init or `cmd/worker` alone | **violation**: it works on a thread without its filter |
| `launch_safety` | 2 runs with one `--id`, each with a temporary bundle or both with one `--bundle`, one with `--keep-bundle`; crashes and cancellation anywhere, runtimes killed, forced deletes failing; fair | `BundleLifetime`, `OwnConfig`, `CodeRelayed`, `NoContainerLeft`, `ContainerSpared`; `ImplementsRunService`: refinement of `RunService`, a cancellation that reached the runtime being an error among other things; `CancelTerminates` |
| `launch_badrootfs`, `launch_exitcode` | 2 runs with ids of their own | **violations**, see below |
| `filter_verdict` | any two lists of up to 2 of 4 names (one unknown, two for one number), 2 errnos, 2 architectures, 5 numbers | `DecisionRight`: the interpreter's verdict is the lists'; `NeverRefused`; `ReportRight` |
| `policy_enforced` | every combination of seccomp knobs with two sets of limits, every limit at its boundaries, both runtimes, root or not, minimal or not | `EnforcedAsWritten`: what is enforced is what the knobs mean; `NothingIgnored`; `RefusalsExplained` |
| `policy_blank` | the same | **violation**: an entry with a newline gets through |
| `protocol_frames` | frames of 4 sizes (one wrapping the length field) and 5 streams of other clients, responses of 4 sizes, a limit of 3 bytes and a buffer of 5; fair | `WholeRequest`: a worker only for a whole frame; `ImplementsExchange`: refinement of `SpawnExchange`; `BothEnd`: `cmd/spawn` and its handler end, and a handler ends once its client has, whoever that was |

Why the bounds are enough. Conflicts in the mother are between two requests for
one id; one without an id, alone on its leaf, is in `mother_empty`. Two pids make
reuse happen, two mothers make orphans meet a successor and sockets meet each
other. `mother_sweep` makes do with one: its sweep runs beside her and after her
end, and for what a successor may do `mother_safety` checks the ids and the leaves,
and `FenceHolds` and `NoLeafForgotten` are proved for any number. Workers interact by one bit,
`.oldroot`, and by the host's mounts, so every pair of kinds shows what there is
to see. Two threads distinguish the leader from another. Two runs give every
conflict over one id or one directory. `Chunk` and `WarmSize` give two whole chunks
and a rest; the cells written to are one of the magic, the size, the last of the
first chunk and the very last; a smaller size, `OtherSize`, hides the latter. A file
and a directory show the two ways of masking, and several files the same failure. Lists of two entries show a repeated name, a repeated number and an
unknown name, and `MaxInsns` is the exact size of the longest program. Policies take each
number at, below and above each bound in the code. The buffer holds neither the
longest request nor the longest response, so both sides block.
The proofs below need none of these bounds.

Fairness. Handlers, reapers and the launcher's goroutines are weakly fair: the
Go scheduler runs what can run, and none of them waits on a lock. `cmd/spawn` is,
because it has a deadline (`SpawnProtocol` has it as an action, `ClientDeadline`,
which is the only step besides the code's own that has to happen); in `ZygoteMother`
every client is `cmd/spawn`. Of other clients of the socket nothing is assumed, not
even that they hang up. The host's init reaps. The runtime proceeds. Nothing is assumed of
workers, containers, signals, the sweep, or people. Idle end states of the
mother, the inits, policies and connections stutter by an explicit step, so
deadlock is checked there; launcher runs simply end, and their cfgs switch the
deadlock check off.

## What does not hold

- `FailedSpawnLeavesNoLeaf`: `SpawnWorker` returns on an empty binary before the
  code that would destroy the leaf (`zygote/spawn.go:65`; compare line 119).
- `BundleRemoved`: a failing `prepareBundle` is returned before the cleanup is
  deferred (`launcher/launcher.go:245`; `README.md:121`).
- `WorkFiltered`: `cmd/worker` without an init installs its filter without locking
  main to its thread, and main may go on on a thread without it
  (`cmd/worker/main.go:37`; compare `zygote/seccomp.go:214`). An init locks, so
  behind it every thread is filtered.
- `ExitCodeFaithful`: a clean exit after the forwarded SIGTERM is told as 137
  (`launcher/launcher.go:294`; `README.md:119`).
- `EntriesClean`: validation looks for spaces and tabs, so a newline inside an entry
  passes and the entry is dropped silently (`config/config.go:231`; line 227).

Three things the model shows and no property excludes, for the code does not:

- A client of the socket that is not `cmd/spawn` and neither writes nor hangs up holds
  its handler for good (`cmd/zygote/main.go:130`, `zygote/protocol.go:163`).
  `BothEnd` says only what is so.
- A worker may be reaped, and its pid given to somebody else, before its client has
  read the pid (`zygote/spawn.go:130`). `ReplyNamesWorker` speaks of the time
  in which the reaper still waits.
- Mothers that overlap may unlink each other's socket (`cmd/zygote/main.go:82`,
  102). `Reachable` speaks of a mother that met no other.

What holds apart from these cases is in `LeavesAccounted`, `BundleLifetime` and
`CodeRelayed`. `NoContainerLeft` leaves one case out: a runtime that somebody
else kills ends `Run` with 137, no error and no forced delete, the container
still in place (`launcher/launcher.go:304`). `ContainerSpared` lets a cancelled run,
or one whose runtime never started, delete the container of another run with its id:
the forced delete has nothing else to go by (`launcher/launcher.go:434`).
`RefusalsExplained` names two more
things validation does not see: a limit above what the kernel can count, and a
`crun` under a name that does not say so, which gets the newer `ociVersion`.
`PayloadConfined` leaves out a failing detach of the former root, which
`setupRootfs` does not look at (`cmd/worker-init/main.go:162`). And the attack modes
of `cmd/worker` return before file descriptor 3 is closed, so that the children of
`attack-pids`, which the comment at `cmd/worker/main.go:68` names, do inherit it.

## Proofs

All theorems are about `Spec` of the module, for every value of the constants
that satisfies the module's assumptions. Most of these only give constants their
types and keep `None` and `Err` apart from the rest. Those that say more, and why
the code justifies them:

- `TableAssumption` (`SeccompFilter`): the table fits the kernel's limit; see above.
- `MagicAssumption` (`WarmMemory`): the magic is a sequence of numbers; `zygote/warm.go`
  has eight bytes.
- `MappingsAssumption` (`WarmMemory`): there is a mapping, mappings are listed by
  address, and none overlaps another, which is how the kernel writes smaps.
- `OtherSizeAssumption` (`WarmMemory`): what stands in place of the size is a natural
  number; a negative one would have the same effect as 0.
- `RepliesAssumption` (`SpawnProtocol`): the mother has some response to give, whose
  length is a number.

Each invariant, action property and refinement the runs check is stated by a
theorem. A dozen theorems say something no run states: the progress measures
below, and a few about steps.

**ZygoteMother.** None of the invariants but the types is inductive by itself.
`ProcInv` ties a handler's place to its reaper and its pid: before the clone
there is neither, a process belongs to the request whose reaper waits for it, and
an error has been written only for a request without one. `ErrorsAreTrue` and
`RepliesName` follow from it. `FenceHolds` needs beside it that a populated leaf
cannot be removed, so that neither a path-wise `Destroy` nor a sweep hits a live
worker; `IdsAreExclusive` follows from the fence, a path naming one leaf.
`RemovalIsOwn` adds `DownQuiet` (no goroutine without a mother), and
`NoLeafForgotten` adds `LeafName` (an instance stands only at its own request's
name) and `PlainNoLeaf` (without `--cgroup`, the default, no leaf is ever made).
`SocketIsOwn` needs only that a mother who has met no other is the one alive
(`Alone`), so that every step on the path is her own or a successor's.
`MotherRefinesService` maps each step to a step of `SpawnService` or a stutter;
the guard on names in `Spawn` follows from the fence, the truthful answer in
`Reply` from `ProcInv`. `Conn` ties a handler to its client and its mother: whoever
is queued has a serving mother, and nothing is made for a client that has not
written. The theorems hold with and without `--cgroup`; the runs have it on.

**WorkerInit.** `StageInv` says, for each step, what is true of the thread main
runs on: which capabilities it holds, whether it has no_new_privs and the filter.
The lock makes it inductive: without it the stripped thread need not be the one
that calls `execve`, and the check in `verifyNoCaps`, which reads the leader's
status, would not notice. `KindOK` and `DirectOK` say which steps a worker of each
kind can be at. `PayloadsAreConfined` and `OrderIsRight` follow. `HardenInv` adds
what is covered and what was told once the step is done: a path is bare only after an
error, and no error is one of a missing capability, for `Able` at that step comes
from `StageInv`. So `HardeningIsWhole` rests on the bundle's list of capabilities,
while it leaves every item free to fail by itself.
`HostInv` says that every mount call comes after `MakePrivate` and that no stray
gets past the pid check, which gives `HostIsSafe`; that nobody removes `.oldroot`
gives `PutOldIsThere`. Two results are about steps. `RightsOnlyShrink`: nothing a
thread has given up comes back, although `execve` as uid 0 restores whatever the
bounding set still has; a bounding set dropped on another thread would break it.
`StartsFailAlone`: an init dies before its payload only of a call that fails by
itself, of a kill, or because the scheduler had moved main off the leader before
its first line, in which case `verifyNoCaps` reads a thread that was not stripped.
It rests on `StageInv`, on `HostInv` for `.oldroot`, and on `OrderIsRight`. In
`init_safety` every call may fail, so that no run can show it. `WarmIsReadBack` is
about the step in which a worker makes its report: whichever of the cells in its
window it has seen changed, `VerifyFindsFirst` gives the report, and `RewrittenFound`
translates it back into cells. `SmapsAreExact` applies `SmapsFinds` to a worker at
its work.

**WarmMemory.** Everything here is a definition, and folds over a size, a chunk or
a list of mappings that the theorems leave open. A theorem that takes an operator
as a parameter is of no use to the provers, so each induction is over a *set* of
numbers: the ones up to which the claim holds, or the least one at which it
fails. `WarmRoundTrip` has that the chunks laid end to end are the pattern,
whatever the last of them is short of, so that `MapWarm` accepts what
`CreateWarmMemfd` wrote and `VerifyWarmPattern` passes it, and that a byte changed
anywhere in the payload is found where it is. `VerifyFindsFirst` says the latter of
any region with a header, whatever size that has in it. `SmapsFinds` is an induction along the lines of smaps: the accumulator
is in the right mapping exactly between its header and the next one's.

**LauncherRun.** `IInv` ties the place of `Run` to the runtime's state, to the
bundle, and to the code and error computed so far; and it says that a container
in the table has a running runtime or a cancelled `Run` that still has to delete
it. `OthersAreSpared` is an action property from the same invariant. `ConfigIsOwn`
needs beside it whose text each directory may hold: in a temporary one only its
own run's, in a shared one that of a run which has been given it.
`RunRefinesService` maps each step to one of `RunService` or to a stutter: most
work is in the return, for which `IInv` keeps what the error and the code can be
given the runtime's end, whether it was told, and whether its container has been
deleted. `CancelIsReported` says of that answer, invariantly, that a run which told
its runtime to stop returns an error.

**SeccompFilter.** The invariant ties the lists to what the loops have seen of
them, `numbers` to its set without repetition, and, once the program is built, the
instruction pointer to the calls it has passed: at an odd offset behind the
prologue, no earlier entry matched the accumulator. `CallsComeToEnd` adds that the
interpreter never leaves the program and never goes back. `VerdictsAreRight` and
`ProgramIsAccepted` are about lists and tables of any length; the latter rests on
`TableAssumption`.

**PolicySpec.** The steps are few and the values many, so the weight is in lemmas
about operators: `Validate` bounds what `buildSpec` may be given, and `Enforce` of
`ConfigJson` is `Meaning`. `PolicyInv` carries a validated policy to
`config.json`.

**SpawnProtocol.** `PInv` says where in the frame each side is and that a response
exists exactly from the step that makes it. `OnlyWholeRequests` needs that a frame
of `WriteRequest` whose JSON decodes was not wrapped. `ProtocolImplements` maps
the step that makes a response to `HandOver` or `Refuse`, the write of its last
byte to `Answer`, `ClientDecode` to `Receive` and every other end of the client to
`Fail`.

**Progress.** Liveness cannot be proved here, the prover having neither fairness nor
`ENABLED`. What it rests on can: an actor that has not ended has a step to take,
and there are only so many steps. The first is stated with explicit guards
(`CanMove`, `HandlerCanMove`, `ClientCanMove`, `MotherCanMove`), the second with a
measure that falls.

- A cancelled run always has a step of its own or of its watch goroutine
  (`CancelNeverStuck`), and they take 27 steps at most, whatever the runtime, other
  runs or a late cancellation do (`RunsGoDown`). One that is *not* cancelled waits
  for its container, as it should.
- A handler waits for nothing but a client that is connected and has not written
  (`HandlersGoOn`). Every zombie has exactly one reaper, or init
  (`ZombiesHaveReapers`); a reaper that is done has left no leaf, rmdir being
  reliable (`ReapersLeaveNoLeaf`). A request's three actors take 14 steps at most,
  and no other request, signal or restart adds to them (`RequestsComeToEnd`).
- Once one side of a connection has ended the other can go on
  (`NobodyIsLeftWaiting`), and two that are there never wait for each other, if the
  request has the bytes it announces and the response fits the socket's buffer
  (`SidesDoNotBlock`). Without these two there are states in which both wait, and
  only the client gets them out: `cmd/spawn` writing a long frame that is refused
  early, by its deadline; another that announces more than it sends, if it leaves. The connection passes
  at most ten places, and each step passes one or moves bytes that are left
  (`EveryStepCounts`).

Only model-checked: the step from there to `CancelTerminates`, `BothEnd`,
`ZombiesReaped`, `HandlersFinish` and `LeafReclaimed`, which needs fairness; and
the violations. The guards above are read off the actions; on the instances of
`launch_safety`, `mother_sweep` and `protocol_frames` TLC finds them equal to
`ENABLED` of the steps they stand for.

## Not modelled

- `cmd/{probe,rawfilter,sysc,tprobe,cgprobe,warmtest}` and the tracing scripts: they
  try system calls, measure and print; none is a part of the running system, and
  what `warmtest` exercises of `zygote/warm.go` is in `WarmMemory`.
- `zygote/timing.go`: reads a clock and writes log lines.
- `launcher/runtime.go`, looking a runtime up: a sequential search by name or path
  and two command lines. What a wrong guess of its kind does is in `PolicySpec`.
- The rest of `zygote/spec.go`: a template with five names and paths filled in.
- The flags of `cmd/anolix` and of the other commands: they only check arguments.
- The bodies of `cmd/worker`'s attack modes, which try to exceed a limit the kernel
  enforces.

## Plan

1. *Done:* `SpawnService`, `ZygoteMother` with the socket's path, `WorkerInit` with
   `WarmMemory`, the mother's grant and `cmd/worker`, `LauncherRun` with shared
   bundles, `SeccompFilter`, `PolicySpec`, `SpawnExchange`, `SpawnProtocol`, with
   proofs.
2. A composition of `ZygoteMother` and `WorkerInit` in which the worker of a request
   is an init, so that a pid in a response is that of a confined payload or of an
   init on its way there; and its proof, from the invariants of both.
3. A composition of `SpawnProtocol` and `ZygoteMother`: the bytes of many
   connections at once, each handler a side of a `SpawnExchange`. A handler that is
   killed with its mother needs a history variable for what it had written.
4. An abstract specification of a worker, of which `StartsFailAlone` and
   `RightsOnlyShrink` are the steps, shown to be what `SpawnService` calls a worker.
