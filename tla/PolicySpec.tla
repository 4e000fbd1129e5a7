----------------------------- MODULE PolicySpec -----------------------------
(***************************************************************************)
(* How a policy becomes a sandbox: it is parsed and validated (config),    *)
(* validated again and translated to an OCI spec (launcher.New, buildSpec, *)
(* prepareBundle), and read by an OCI runtime, which refuses it or has the *)
(* kernel enforce it.                                                      *)
(*                                                                         *)
(* A JSON field left out is its zero value.  A list of names is the set of *)
(* its entries; an entry is a word and the kinds of blanks around or in it *)
(* (word = Unset: there is nothing but blanks).  The spelling of an action *)
(* is a word and whether letters or blanks have to be put right.           *)
(***************************************************************************)
EXTENDS Integers

CONSTANTS
    Entries,                 \* list entries: [word, blanks]
    DefaultAllowedSyscalls,  \* words
    Known,                   \* the words that name a system call
    Files,                   \* policy files: [strict, policy]
    ApiPolicies,             \* policies given to launcher.New by another program
    KernelPidsMax,           \* pids.max takes what is below this,
    KernelMaxQuota,          \* cpu.max a quota up to this
    Unset

Words     == {e.word : e \in Entries} \cup DefaultAllowedSyscalls
Spelling  == {"empty", "ERRNO", "KILL", "KILL_PROCESS", "TRAP", "TRACE", "ALLOW"}
Seccomps  == [enabled : BOOLEAN, action : [word : Spelling, untidy : BOOLEAN],
              errnoRet : Nat, allowed : SUBSET Entries]
Resources == [memory : Int, pids : Int, quota : Int, period : Nat]
Policies  == [seccomp : Seccomps, resources : Resources]

ASSUME EntriesAssumption ==
    \A e \in Entries : /\ e = [word |-> e.word, blanks |-> e.blanks]
                       /\ e.blanks \subseteq {"space", "tab", "newline"}
ASSUME PolicyAssumption ==
    /\ \A f \in Files : f.strict \in BOOLEAN /\ f.policy \in Policies
    /\ ApiPolicies \subseteq Policies
ASSUME KernelAssumption == KernelPidsMax \in Nat /\ KernelMaxQuota \in Nat
ASSUME UnsetAssumption  == Unset \notin Int \cup (Int \X Int) \cup Files \cup ApiPolicies

-----------------------------------------------------------------------------
(* config.go *)

maxErrno               == 4095
DefaultErrnoRet        == 1
DefaultCPUPeriodMicros == 100000
minCPUQuotaMicros      == 1000
minCPUPeriodMicros     == 1000
maxCPUPeriodMicros     == 1000000

NoAction == [word |-> "empty", untidy |-> FALSE]

Default ==
    [seccomp   |-> [enabled |-> TRUE, action |-> [word |-> "ERRNO", untidy |-> FALSE],
                    errnoRet |-> DefaultErrnoRet, allowed |-> {}],
     resources |-> [memory |-> 0, pids |-> 0, quota |-> 0, period |-> 0]]

validAction(a)          == a \in {"ERRNO", "KILL", "KILL_PROCESS", "TRAP"}
ActionSupportsErrno(a)  == a \in {"ERRNO", "TRACE"}

\* Only the empty string stands for the default; one of blanks does not, once trimmed.
EffectiveDefaultAction(s) == IF s.action = NoAction THEN "ERRNO" ELSE s.action.word

\* FAULT: no default, and refusal looks like success.
EffectiveErrnoRaw(s) == s.errnoRet

EffectiveErrnoRet(s) == IF s.errnoRet = 0 THEN DefaultErrnoRet ELSE s.errnoRet

EffectiveAllowedSyscalls(s) ==
    IF s.allowed = {} THEN {[word |-> w, blanks |-> {}] : w \in DefaultAllowedSyscalls}
                      ELSE s.allowed

EffectiveCPUPeriodMicros(r) ==
    IF r.period = 0 THEN DefaultCPUPeriodMicros ELSE r.period

\* Resources.Validate
ValidResources(r) ==
    /\ r.memory >= 0 /\ r.pids >= 0 /\ r.quota >= 0
    /\ r.quota > 0 => r.quota >= minCPUQuotaMicros
    /\ r.period # 0 =>
        /\ r.quota # 0
        /\ r.period >= minCPUPeriodMicros /\ r.period <= maxCPUPeriodMicros

\* Policy.Validate
Validate(p) ==
    LET s == p.seccomp
    IN  /\ validAction(EffectiveDefaultAction(s))
        /\ s.errnoRet <= maxErrno
        /\ s.enabled /\ s.errnoRet # 0 => ActionSupportsErrno(EffectiveDefaultAction(s))
        /\ \A e \in s.allowed : e.word # Unset /\ e.blanks \cap {"space", "tab"} = {}
        /\ ValidResources(p.resources)

-----------------------------------------------------------------------------
(* launcher/spec.go, launcher/runtime.go *)

\* Without this block of the spec there is no filter.
NoSeccomp == [action |-> "none", names |-> {}, errno |-> Unset]

\* FAULT: the errno is written whatever the action.
BuildSeccompErrno(s) ==
    IF ~s.enabled THEN NoSeccomp
    ELSE [action |-> EffectiveDefaultAction(s),
          names  |-> EffectiveAllowedSyscalls(s),
          errno  |-> EffectiveErrnoRet(s)]

buildSeccomp(s) ==
    IF ~s.enabled THEN NoSeccomp
    ELSE [action |-> EffectiveDefaultAction(s),
          names  |-> EffectiveAllowedSyscalls(s),
          errno  |-> IF ActionSupportsErrno(EffectiveDefaultAction(s))
                     THEN EffectiveErrnoRet(s) ELSE Unset]

\* FAULT: a knob that was left alone is written as a limit of its own.
ApplyZeroLimits(r) ==
    [memory |-> r.memory, pids |-> r.pids,
     cpu    |-> IF r.quota > 0 THEN <<r.quota, EffectiveCPUPeriodMicros(r)>> ELSE Unset]

applyResourceLimits(r) ==
    [memory |-> IF r.memory > 0 THEN r.memory ELSE Unset,
     pids   |-> IF r.pids > 0 THEN r.pids ELSE Unset,
     cpu    |-> IF r.quota > 0 THEN <<r.quota, EffectiveCPUPeriodMicros(r)>> ELSE Unset]

\* A mount by its destination and the groups its options name.
Mount(d, gids) == [dest |-> d, gids |-> gids]

defaultMounts(rootless) ==
    {Mount(d, {}) : d \in {"/proc", "/dev", "/dev/shm", "/dev/mqueue", "/sys"}}
    \cup {Mount("/dev/pts", IF rootless THEN {} ELSE {5})}

minimalMounts(rootless) ==
    {m \in defaultMounts(rootless) : m.dest \in {"/proc", "/dev"}}

\* The version crun 1.14 takes at most, and that of the spec package.
SpecVersion(kind) == IF kind = "crun" THEN "1.1.0" ELSE "1.2.1"

buildSpec(p, rootless) ==
    [userns    |-> rootless,
     seccomp   |-> buildSeccomp(p.seccomp),
     resources |-> applyResourceLimits(p.resources),
     mounts    |-> defaultMounts(rootless)]

\* What prepareBundle writes to config.json.
ConfigJson(p, o) ==
    [spec    |-> [buildSpec(p, o.rootless) EXCEPT
                    !.mounts = IF o.minimal THEN minimalMounts(o.rootless) ELSE @],
     version |-> SpecVersion(o.kind)]

-----------------------------------------------------------------------------
(* The runtime and the kernel, as far as the code above counts on them.    *)

TakesErrno(a) == a \in {"ERRNO", "TRACE"}

Limited(res) == res.memory # Unset \/ res.pids # Unset \/ res.cpu # Unset

KernelTakes(res) ==
    /\ res.pids # Unset => res.pids < KernelPidsMax
    /\ res.cpu # Unset =>
        /\ res.cpu[1] >= 1000 /\ res.cpu[1] <= KernelMaxQuota
        /\ res.cpu[2] >= 1000 /\ res.cpu[2] <= 1000000

\* With a user namespace only group 0 is mapped, and a mount that names another
\* one fails.
RuntimeTakes(c, real) ==
    /\ real = "crun" => /\ c.version = "1.1.0"
                        /\ c.spec.seccomp.errno # Unset => TakesErrno(c.spec.seccomp.action)
    /\ c.spec.userns => \A m \in c.spec.mounts : m.gids \subseteq {0}
    /\ KernelTakes(c.spec.resources)

\* What then holds of the container.  A name that is no system call's is dropped
\* without a word, and an errno nobody wrote is EPERM.
Enforce(c) ==
    LET s == c.spec.seccomp
    IN  [action |-> s.action,
         calls  |-> IF s = NoSeccomp THEN Known
                    ELSE {e.word : e \in {n \in s.names : n.blanks = {}}} \cap Known,
         errno  |-> IF ~TakesErrno(s.action) THEN Unset
                    ELSE IF s.errno = Unset THEN 1 ELSE s.errno,
         memory |-> c.spec.resources.memory,
         pids   |-> c.spec.resources.pids,
         cpu    |-> c.spec.resources.cpu]

-----------------------------------------------------------------------------
VARIABLES
    opts,       \* what the user gave: [file, api, rootless, minimal, kind, real]
    stage,      \* how far the run is
    policy,     \* Launcher.policy, or Unset
    config,     \* config.json, or Unset
    enforced    \* what the kernel enforces on the container, or Unset

vars == <<opts, stage, policy, config, enforced>>

\* kind is what kindFromName makes of the executable's name, real what it is.
Options == {o \in [file : Files \cup {Unset}, api : ApiPolicies \cup {Unset},
                  rootless : BOOLEAN, minimal : BOOLEAN,
                  kind : {"runc", "crun", "other"}, real : {"runc", "crun"}] :
              o.file = Unset \/ o.api = Unset}

Stages == {"start", "loaded", "new", "written", "running", "rejected", "refused"}

Enforcements ==
    [action : {"none", "ERRNO", "KILL", "KILL_PROCESS", "TRAP"},
     calls  : SUBSET Known,
     errno  : {e \in Nat : e <= maxErrno} \cup {Unset},
     memory : (Nat \ {0}) \cup {Unset},
     pids   : (Nat \ {0}) \cup {Unset},
     cpu    : ((Nat \ {0}) \X (Nat \ {0})) \cup {Unset}]

TypeOK ==
    /\ opts \in Options
    /\ stage \in Stages
    /\ policy \in Policies \cup {Unset}
    /\ stage # "running" => enforced = Unset
    /\ stage = "running" => enforced \in Enforcements

Init ==
    /\ opts \in Options
    /\ stage = "start"
    /\ policy = Unset /\ config = Unset /\ enforced = Unset

\* cmd/anolix without --policy; launcher.New makes the same of a nil policy.
UseDefault ==
    /\ stage = "start" /\ opts.file = Unset /\ opts.api = Unset
    /\ policy' = Default
    /\ stage' = "loaded"
    /\ UNCHANGED <<opts, config, enforced>>

UseApi ==
    /\ stage = "start" /\ opts.api # Unset
    /\ policy' = opts.api
    /\ stage' = "loaded"
    /\ UNCHANGED <<opts, config, enforced>>

\* Load and Parse: an unknown field, a wrong type or text after the document is an
\* error, and so is a value that does not pass Validate.
Load ==
    /\ stage = "start" /\ opts.file # Unset
    /\ IF opts.file.strict /\ Validate(opts.file.policy)
       THEN stage' = "loaded" /\ policy' = opts.file.policy
       ELSE stage' = "rejected" /\ UNCHANGED policy
    /\ UNCHANGED <<opts, config, enforced>>

\* FAULT: New trusts whoever calls it.
NewTrusting ==
    /\ stage = "loaded"
    /\ stage' = "new"
    /\ UNCHANGED <<opts, policy, config, enforced>>

\* New, which also fails when there is no such runtime.
New ==
    /\ stage = "loaded"
    /\ \/ Validate(policy) /\ stage' = "new"
       \/ stage' = "rejected"
    /\ UNCHANGED <<opts, policy, config, enforced>>

PrepareBundle ==
    /\ stage = "new"
    /\ config' = ConfigJson(policy, opts)
    /\ stage' = "written"
    /\ UNCHANGED <<opts, policy, enforced>>

RuntimeRuns ==
    /\ stage = "written" /\ RuntimeTakes(config, opts.real)
    /\ enforced' = Enforce(config)
    /\ stage' = "running"
    /\ UNCHANGED <<opts, policy, config>>

\* Without root, a limit may fail for want of a delegated cgroup.
RuntimeRefuses ==
    /\ stage = "written"
    /\ \/ ~RuntimeTakes(config, opts.real)
       \/ opts.rootless /\ Limited(config.spec.resources)
    /\ stage' = "refused"
    /\ UNCHANGED <<opts, policy, config, enforced>>

Ended ==
    /\ stage \in {"running", "rejected", "refused"}
    /\ UNCHANGED vars

Next ==
    \/ UseDefault \/ UseApi \/ Load \/ New \/ PrepareBundle
    \/ RuntimeRuns \/ RuntimeRefuses \/ Ended

Spec == Init /\ [][Next]_vars

-----------------------------------------------------------------------------
(* What a user may count on, said in the words of README.md's table.       *)

\* The policy the user wrote, or the one nobody wrote.
Written ==
    IF opts.file # Unset THEN opts.file.policy
    ELSE IF opts.api # Unset THEN opts.api ELSE Default

OrUnset(n) == IF n = 0 THEN Unset ELSE n

Meaning(p) ==
    LET s == p.seccomp
        r == p.resources
        a == IF s.action = NoAction THEN "ERRNO" ELSE s.action.word
        listed == {w \in Words : [word |-> w, blanks |-> {}] \in s.allowed}
    IN  [action |-> IF s.enabled THEN a ELSE "none",
         calls  |-> IF ~s.enabled THEN Known
                    ELSE Known \cap (IF s.allowed = {} THEN DefaultAllowedSyscalls
                                                       ELSE listed),
         errno  |-> IF ~s.enabled \/ a # "ERRNO" THEN Unset
                    ELSE IF s.errnoRet = 0 THEN 1 ELSE s.errnoRet,
         memory |-> OrUnset(r.memory),
         pids   |-> OrUnset(r.pids),
         cpu    |-> IF r.quota = 0 THEN Unset
                    ELSE <<r.quota, IF r.period = 0 THEN 100000 ELSE r.period>>]

\* A container that runs is held to what was written, knob by knob, zero meaning
\* "unlimited" or the default; with --minimal-rootfs too, rootless or not, under
\* either runtime (config.go, buildSeccomp, applyResourceLimits).
EnforcedAsWritten == stage = "running" => enforced = Meaning(Written)

\* "nothing is ignored silently" (README.md:97): of a container that runs, the file
\* had no field unknown to the parser, and an errno or action that was set beside an
\* enabled filter, or a period, is in force.  (Of the lists, whose unknown names are
\* dropped, EnforcedAsWritten and EntriesClean speak.)
NothingIgnored ==
    stage = "running" =>
        /\ opts.file # Unset => opts.file.strict
        /\ Written.seccomp.enabled =>
             /\ Written.seccomp.errnoRet # 0 => enforced.errno = Written.seccomp.errnoRet
             /\ Written.seccomp.action.word # "empty" =>
                  enforced.action = Written.seccomp.action.word
        /\ Written.resources.period # 0 =>
             enforced.cpu = <<Written.resources.quota, Written.resources.period>>

\* What has passed validation is refused by the runtime for nothing in the policy
\* but limits: one without root, or one above what the kernel can count; and a crun
\* may be hidden under another name (Validate, buildSpec, SpecVersion).
RefusalsExplained ==
    stage = "refused" =>
        \/ opts.rootless /\ ~(Written.resources.memory = 0 /\ Written.resources.pids = 0
                              /\ Written.resources.quota = 0)
        \/ Written.resources.pids >= KernelPidsMax
        \/ Written.resources.quota > KernelMaxQuota
        \/ opts.real = "crun" /\ opts.kind # "crun"

\* "an entry may not be empty, nor contain a blank" (config.go:227): no container
\* runs under a list with such an entry.
EntriesClean ==
    stage = "running" /\ Written.seccomp.enabled =>
        \A e \in Written.seccomp.allowed : e.word # Unset /\ e.blanks = {}

=============================================================================
