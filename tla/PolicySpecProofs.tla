-------------------------- MODULE PolicySpecProofs --------------------------
(***************************************************************************)
(* What a validated policy means once it is enforced, for every policy,    *)
(* list and kernel limit.                                                  *)
(*                                                                         *)
(* The invariant PolicyInv says what each stage of a run has made sure of: *)
(* the policy is the one written and, past New, valid; config.json is its  *)
(* translation; the kernel enforces config.json.  The lemmas then say of   *)
(* the translation of a valid policy what it means and what the runtime    *)
(* can find wrong with it.                                                 *)
(***************************************************************************)
EXTENDS PolicySpec, TLAPS

Past(first) ==
    CASE first = "loaded"  -> {"loaded", "new", "written", "running", "refused"}
      [] first = "new"     -> {"new", "written", "running", "refused"}
      [] first = "written" -> {"written", "running", "refused"}

PolicyInv ==
    /\ stage \in Past("loaded") =>
         policy = Written /\ (opts.file # Unset => opts.file.strict)
    /\ stage \in Past("new") => Validate(policy)
    /\ stage \in Past("written") => config = ConfigJson(policy, opts)
    /\ stage = "running" => enforced = Enforce(config)
    /\ stage = "refused" => \/ ~RuntimeTakes(config, opts.real)
                            \/ opts.rootless /\ Limited(config.spec.resources)

IInv == TypeOK /\ PolicyInv

-----------------------------------------------------------------------------
\* What was written is a policy, whoever wrote it.
LEMMA WrittenType == ASSUME opts \in Options PROVE Written \in Policies
<1>1. Default \in Policies
  BY DEF Default, DefaultErrnoRet, Policies, Seccomps, Resources, Spelling
<1>2. ASSUME opts.file # Unset PROVE opts.file.policy \in Policies
  BY <1>2, PolicyAssumption DEF Options
<1>3. ASSUME opts.api # Unset PROVE opts.api \in Policies
  BY <1>3, PolicyAssumption DEF Options
<1>4. QED
  BY <1>1, <1>2, <1>3 DEF Written

\* The action of a valid policy is one of the four.
LEMMA ValidAction ==
    ASSUME NEW s \in Seccomps, validAction(EffectiveDefaultAction(s))
    PROVE  /\ s.action = NoAction => EffectiveDefaultAction(s) = "ERRNO"
           /\ s.action # NoAction => EffectiveDefaultAction(s) = s.action.word
           /\ EffectiveDefaultAction(s) \in {"ERRNO", "KILL", "KILL_PROCESS", "TRAP"}
  BY DEF EffectiveDefaultAction, validAction

\* The seccomp block of a valid policy, once enforced, means what was written.
LEMMA SeccompMeaning ==
    ASSUME NEW p \in Policies, Validate(p), NEW o \in Options
    PROVE  /\ Enforce(ConfigJson(p, o)).action = Meaning(p).action
           /\ Enforce(ConfigJson(p, o)).calls = Meaning(p).calls
           /\ Enforce(ConfigJson(p, o)).errno = Meaning(p).errno
<1> DEFINE s == p.seccomp
           a == EffectiveDefaultAction(s)
           b == buildSeccomp(s)
           c == ConfigJson(p, o)
<1>1. s \in Seccomps
  BY DEF Policies
<1>2. c.spec.seccomp = b
  BY DEF ConfigJson, buildSpec
<1>3. a \in {"ERRNO", "KILL", "KILL_PROCESS", "TRAP"}
  BY <1>1, ValidAction DEF Validate
<1>4. CASE ~s.enabled
  <2>1. b = NoSeccomp
    BY <1>4 DEF buildSeccomp
  <2>2. /\ Enforce(c).action = "none"
        /\ Enforce(c).calls = Known
        /\ Enforce(c).errno = Unset
    BY <1>2, <2>1 DEF Enforce, NoSeccomp, TakesErrno
  <2>3. QED
    BY <1>4, <2>2 DEF Meaning
<1>5. CASE s.enabled
  <2>1. /\ b.action = a
        /\ b.names = EffectiveAllowedSyscalls(s)
        /\ b.errno = IF ActionSupportsErrno(a) THEN EffectiveErrnoRet(s) ELSE Unset
    BY <1>5 DEF buildSeccomp
  <2>2. b # NoSeccomp
    BY <1>3, <2>1 DEF NoSeccomp
  <2>3. Enforce(c).action = Meaning(p).action
    BY <1>2, <1>5, <2>1 DEF Enforce, Meaning, EffectiveDefaultAction
  <2>4. Enforce(c).errno = Meaning(p).errno
    <3>1. Enforce(c).errno = IF a = "ERRNO" THEN EffectiveErrnoRet(s) ELSE Unset
      <4>1. EffectiveErrnoRet(s) # Unset
        BY <1>1, UnsetAssumption DEF EffectiveErrnoRet, DefaultErrnoRet, Seccomps
      <4>2. QED
        BY <1>2, <1>3, <2>1, <4>1 DEF Enforce, TakesErrno, ActionSupportsErrno
    <3>2. Meaning(p).errno = IF a = "ERRNO" THEN EffectiveErrnoRet(s) ELSE Unset
      BY <1>5 DEF Meaning, EffectiveDefaultAction, EffectiveErrnoRet, DefaultErrnoRet
    <3>3. QED
      BY <3>1, <3>2
  <2>5. Enforce(c).calls = Meaning(p).calls
    <3>1. Enforce(c).calls =
            {e.word : e \in {n \in EffectiveAllowedSyscalls(s) : n.blanks = {}}} \cap Known
      BY <1>2, <2>1, <2>2 DEF Enforce
    <3>2. CASE s.allowed = {}
      <4> DEFINE plain == {[word |-> w, blanks |-> {}] : w \in DefaultAllowedSyscalls}
      <4>1. {e.word : e \in {n \in EffectiveAllowedSyscalls(s) : n.blanks = {}}}
              = DefaultAllowedSyscalls
        <5>1. EffectiveAllowedSyscalls(s) = plain
          BY <3>2 DEF EffectiveAllowedSyscalls
        <5>2. \A n \in plain : n.blanks = {} /\ n.word \in DefaultAllowedSyscalls
          OBVIOUS
        <5>3. \A w \in DefaultAllowedSyscalls : \E n \in plain : n.word = w
          <6>1. TAKE w \in DefaultAllowedSyscalls
          <6>2. WITNESS [word |-> w, blanks |-> {}] \in plain
          <6>3. QED
            OBVIOUS
        <5>4. {n \in plain : n.blanks = {}} = plain
          BY <5>2
        <5> HIDE DEF plain
        <5>5. {e.word : e \in plain} = DefaultAllowedSyscalls
          BY <5>2, <5>3
        <5>6. QED
          BY <5>1, <5>4, <5>5
      <4>2. Meaning(p).calls = Known \cap DefaultAllowedSyscalls
        BY <1>5, <3>2 DEF Meaning
      <4>3. QED
        BY <3>1, <4>1, <4>2
    <3>3. CASE s.allowed # {}
      <4> DEFINE listed == {w \in Words : [word |-> w, blanks |-> {}] \in s.allowed}
      <4>1. Enforce(c).calls = {e.word : e \in {n \in s.allowed : n.blanks = {}}} \cap Known
        BY <3>1, <3>3 DEF EffectiveAllowedSyscalls
      <4>2. Meaning(p).calls = Known \cap listed
        BY <1>5, <3>3 DEF Meaning
      <4>3. \A e \in s.allowed : e \in Entries /\ e = [word |-> e.word, blanks |-> e.blanks]
        BY <1>1, EntriesAssumption DEF Seccomps
      <4>4. {e.word : e \in {n \in s.allowed : n.blanks = {}}} = listed
        BY <4>3 DEF Words
      <4>5. QED
        BY <4>1, <4>2, <4>4
    <3>4. QED
      BY <3>2, <3>3
  <2>6. QED
    BY <2>3, <2>4, <2>5
<1>6. QED
  BY <1>1, <1>4, <1>5 DEF Seccomps

\* A valid limit is written as it is, and zero is no limit.
LEMMA LimitsMeaning ==
    ASSUME NEW p \in Policies, Validate(p), NEW o \in Options
    PROVE  /\ Enforce(ConfigJson(p, o)).memory = Meaning(p).memory
           /\ Enforce(ConfigJson(p, o)).pids = Meaning(p).pids
           /\ Enforce(ConfigJson(p, o)).cpu = Meaning(p).cpu
<1> DEFINE r == p.resources
           l == applyResourceLimits(r)
<1>1. /\ Enforce(ConfigJson(p, o)).memory = l.memory
      /\ Enforce(ConfigJson(p, o)).pids = l.pids
      /\ Enforce(ConfigJson(p, o)).cpu = l.cpu
  BY DEF Enforce, ConfigJson, buildSpec
<1>2. /\ r.memory \in Int /\ r.memory >= 0
      /\ r.pids \in Int /\ r.pids >= 0
      /\ r.quota \in Int /\ r.quota >= 0
  BY DEF Policies, Resources, Validate, ValidResources
<1>3. l.memory = OrUnset(r.memory) /\ l.pids = OrUnset(r.pids)
  BY <1>2 DEF applyResourceLimits, OrUnset
<1>4. l.cpu = IF r.quota = 0 THEN Unset
              ELSE <<r.quota, IF r.period = 0 THEN 100000 ELSE r.period>>
  BY <1>2 DEF applyResourceLimits, EffectiveCPUPeriodMicros, DefaultCPUPeriodMicros
<1>5. QED
  BY <1>1, <1>3, <1>4 DEF Meaning

LEMMA PolicyMeaning ==
    ASSUME NEW p \in Policies, Validate(p), NEW o \in Options
    PROVE  Enforce(ConfigJson(p, o)) = Meaning(p)
<1> DEFINE e == Enforce(ConfigJson(p, o))
           m == Meaning(p)
<1>1. e = [action |-> e.action, calls |-> e.calls, errno |-> e.errno,
           memory |-> e.memory, pids |-> e.pids, cpu |-> e.cpu]
  BY DEF Enforce
<1>2. m = [action |-> m.action, calls |-> m.calls, errno |-> m.errno,
           memory |-> m.memory, pids |-> m.pids, cpu |-> m.cpu]
  BY DEF Meaning
<1>3. /\ e.action = m.action /\ e.calls = m.calls /\ e.errno = m.errno
      /\ e.memory = m.memory /\ e.pids = m.pids /\ e.cpu = m.cpu
  BY SeccompMeaning, LimitsMeaning
<1>4. QED
  BY <1>1, <1>2, <1>3

\* It is also of the right type: an errno of 12 bits, limits and periods that
\* are not zero.
LEMMA MeaningType ==
    ASSUME NEW p \in Policies, Validate(p) PROVE Meaning(p) \in Enforcements
<1> DEFINE s == p.seccomp
           r == p.resources
           m == Meaning(p)
<1>1. s \in Seccomps /\ r \in Resources
  BY DEF Policies
<1>2. m.action \in {"none", "ERRNO", "KILL", "KILL_PROCESS", "TRAP"}
  BY <1>1, ValidAction DEF Validate, Meaning, EffectiveDefaultAction
<1>3. m.calls \in SUBSET Known
  BY DEF Meaning
<1>4. m.errno \in {e \in Nat : e <= maxErrno} \cup {Unset}
  BY <1>1 DEF Validate, Meaning, Seccomps, maxErrno
<1>5. m.memory \in (Nat \ {0}) \cup {Unset} /\ m.pids \in (Nat \ {0}) \cup {Unset}
  BY <1>1 DEF Validate, ValidResources, Meaning, Resources, OrUnset
<1>6. m.cpu \in ((Nat \ {0}) \X (Nat \ {0})) \cup {Unset}
  BY <1>1 DEF Validate, ValidResources, Meaning, Resources
<1>7. m = [action |-> m.action, calls |-> m.calls, errno |-> m.errno,
           memory |-> m.memory, pids |-> m.pids, cpu |-> m.cpu]
  BY DEF Meaning
<1>8. QED
  BY <1>2, <1>3, <1>4, <1>5, <1>6, <1>7 DEF Enforcements

\* What the runtime can find wrong with the translation of a valid policy.
LEMMA OnlyLimitsRefused ==
    ASSUME NEW p \in Policies, Validate(p), NEW o \in Options,
           ~RuntimeTakes(ConfigJson(p, o), o.real)
    PROVE  \/ p.resources.pids >= KernelPidsMax
           \/ p.resources.quota > KernelMaxQuota
           \/ o.real = "crun" /\ o.kind # "crun"
<1> DEFINE s == p.seccomp
           r == p.resources
           c == ConfigJson(p, o)
           l == applyResourceLimits(r)
<1>1. /\ c.version = SpecVersion(o.kind)
      /\ c.spec.seccomp = buildSeccomp(s)
      /\ c.spec.userns = o.rootless
      /\ c.spec.resources = l
  BY DEF ConfigJson, buildSpec
<1>2. CASE /\ o.real = "crun"
           /\ ~(c.version = "1.1.0"
                /\ (c.spec.seccomp.errno # Unset => TakesErrno(c.spec.seccomp.action)))
  <2>1. buildSeccomp(s).errno # Unset => TakesErrno(buildSeccomp(s).action)
    BY DEF buildSeccomp, NoSeccomp, TakesErrno, ActionSupportsErrno
  <2>2. c.version # "1.1.0"
    BY <1>1, <1>2, <2>1
  <2>3. QED
    BY <1>1, <1>2, <2>2 DEF SpecVersion
<1>3. ASSUME c.spec.userns PROVE \A m \in c.spec.mounts : m.gids \subseteq {0}
  <2>1. o.rootless
    BY <1>1, <1>3
  <2>2. \A m \in defaultMounts(TRUE) : m.gids = {}
    BY DEF defaultMounts, Mount
  <2>3. c.spec.mounts \subseteq defaultMounts(o.rootless)
    BY DEF ConfigJson, buildSpec, minimalMounts
  <2>4. defaultMounts(o.rootless) = defaultMounts(TRUE)
    BY <2>1 DEF Options, defaultMounts
  <2>5. QED
    BY <2>2, <2>3, <2>4
<1>4. CASE ~KernelTakes(l)
  <2>1. /\ r.pids \in Int /\ r.quota \in Int /\ r.period \in Nat
        /\ r.quota >= 0 /\ r.pids >= 0
        /\ r.quota > 0 => r.quota >= 1000
        /\ r.period # 0 => r.period >= 1000 /\ r.period <= 1000000
    BY DEF Policies, Resources, Validate, ValidResources, minCPUQuotaMicros,
           minCPUPeriodMicros, maxCPUPeriodMicros
  <2>2. l.pids # Unset => l.pids = r.pids
    BY DEF applyResourceLimits
  <2>3. ASSUME l.cpu # Unset
        PROVE  /\ l.cpu[1] = r.quota /\ r.quota >= 1000
               /\ l.cpu[2] >= 1000 /\ l.cpu[2] <= 1000000
    <3>1. r.quota > 0 /\ l.cpu = <<r.quota, EffectiveCPUPeriodMicros(r)>>
      BY <2>3 DEF applyResourceLimits
    <3>2. QED
      BY <2>1, <3>1 DEF EffectiveCPUPeriodMicros, DefaultCPUPeriodMicros
  <2> HIDE DEF l
  <2>4. QED
    BY <1>4, <2>1, <2>2, <2>3, KernelAssumption DEF KernelTakes
<1>5. QED
  BY <1>1, <1>2, <1>3, <1>4 DEF RuntimeTakes

-----------------------------------------------------------------------------
LEMMA InitInv == Init => IInv
<1> SUFFICES ASSUME Init PROVE IInv
  OBVIOUS
<1>1. TypeOK
  BY DEF Init, TypeOK, Stages
<1>2. PolicyInv
  BY DEF Init, PolicyInv, Past
<1>3. QED
  BY <1>1, <1>2 DEF IInv

LEMMA NextInv == IInv /\ [Next]_vars => IInv'
<1> SUFFICES ASSUME TypeOK, PolicyInv, [Next]_vars PROVE TypeOK' /\ PolicyInv'
  BY DEF IInv
<1> USE DEF Past
<1>1. opts' = opts /\ opts \in Options /\ Written' = Written /\ Written \in Policies
  BY WrittenType DEF TypeOK, Next, vars, UseDefault, UseApi, Load, New, PrepareBundle,
     RuntimeRuns, RuntimeRefuses, Ended, Written
<1>2. CASE UseDefault
  <2>1. policy' = Written /\ stage' = "loaded"
    BY <1>2 DEF UseDefault, Written
  <2>2. TypeOK'
    BY <1>1, <1>2, <2>1 DEF UseDefault, TypeOK, Stages
  <2>3. QED
    BY <1>1, <1>2, <2>1, <2>2 DEF UseDefault, PolicyInv
<1>3. CASE UseApi
  <2>1. policy' = Written /\ stage' = "loaded" /\ opts.file = Unset
    BY <1>1, <1>3 DEF UseApi, Written, Options
  <2>2. TypeOK'
    BY <1>1, <1>3, <2>1 DEF UseApi, TypeOK, Stages
  <2>3. QED
    BY <1>1, <1>3, <2>1, <2>2 DEF UseApi, PolicyInv
<1>4. CASE Load
  <2>1. CASE opts.file.strict /\ Validate(opts.file.policy)
    <3>1. policy' = Written /\ stage' = "loaded"
      BY <1>4, <2>1 DEF Load, Written
    <3>2. TypeOK'
      BY <1>1, <1>4, <3>1 DEF Load, TypeOK, Stages
    <3>3. QED
      BY <1>1, <1>4, <2>1, <3>1, <3>2 DEF Load, PolicyInv
  <2>2. CASE ~(opts.file.strict /\ Validate(opts.file.policy))
    <3>1. stage' = "rejected" /\ policy' = policy
      BY <1>4, <2>2 DEF Load
    <3>2. TypeOK'
      BY <1>1, <1>4, <3>1 DEF Load, TypeOK, Stages
    <3>3. QED
      BY <1>1, <1>4, <3>1, <3>2 DEF Load, PolicyInv
  <2>3. QED
    BY <2>1, <2>2
<1>5. CASE New
  <2>1. TypeOK'
    BY <1>1, <1>5 DEF New, TypeOK, Stages
  <2>2. PolicyInv'
    BY <1>1, <1>5 DEF New, PolicyInv
  <2>3. QED
    BY <2>1, <2>2
<1>6. CASE PrepareBundle
  <2>1. TypeOK'
    BY <1>1, <1>6 DEF PrepareBundle, TypeOK, Stages
  <2>2. PolicyInv'
    BY <1>1, <1>6 DEF PrepareBundle, PolicyInv
  <2>3. QED
    BY <2>1, <2>2
<1>7. CASE RuntimeRuns
  <2>1. /\ policy = Written /\ Validate(Written)
        /\ config = ConfigJson(Written, opts)
        /\ enforced' = Enforce(config) /\ stage' = "running"
    BY <1>7 DEF RuntimeRuns, PolicyInv
  <2>2. enforced' \in Enforcements
    BY <1>1, <2>1, PolicyMeaning, MeaningType
  <2>3. TypeOK'
    BY <1>1, <1>7, <2>1, <2>2 DEF RuntimeRuns, TypeOK, Stages
  <2>4. PolicyInv'
    BY <1>1, <1>7 DEF RuntimeRuns, PolicyInv
  <2>5. QED
    BY <2>3, <2>4
<1>8. CASE RuntimeRefuses
  <2>1. TypeOK'
    BY <1>1, <1>8 DEF RuntimeRefuses, TypeOK, Stages
  <2>2. PolicyInv'
    BY <1>1, <1>8 DEF RuntimeRefuses, PolicyInv
  <2>3. QED
    BY <2>1, <2>2
<1>9. CASE UNCHANGED vars
  BY <1>1, <1>9 DEF vars, TypeOK, PolicyInv
<1>10. QED
  BY <1>2, <1>3, <1>4, <1>5, <1>6, <1>7, <1>8, <1>9 DEF Next, Ended

LEMMA Invariance == Spec => []IInv
<1>1. QED
  BY InitInv, NextInv, PTL DEF Spec

\* Types: an enforced errno has 12 bits, enforced limits are positive.
THEOREM PolicyTypeCorrect == Spec => []TypeOK
<1>1. IInv => TypeOK
  BY DEF IInv
<1>2. QED
  BY <1>1, Invariance, PTL

\* A running container is held to the policy as written, for every policy.
THEOREM PolicyIsEnforced == Spec => []EnforcedAsWritten
<1>1. IInv => EnforcedAsWritten
  <2> SUFFICES ASSUME TypeOK, PolicyInv, stage = "running" PROVE enforced = Meaning(Written)
    BY DEF IInv, EnforcedAsWritten
  <2>1. Validate(Written) /\ enforced = Enforce(ConfigJson(Written, opts))
    BY DEF PolicyInv, Past
  <2>2. QED
    BY <2>1, WrittenType, PolicyMeaning DEF TypeOK
<1>2. QED
  BY <1>1, Invariance, PTL

\* No knob that was set is dropped on the way to a running container.
THEOREM NoKnobIsIgnored == Spec => []NothingIgnored
<1>1. IInv => NothingIgnored
  <2> SUFFICES ASSUME TypeOK, PolicyInv, stage = "running" PROVE NothingIgnored
    BY DEF IInv, NothingIgnored
  <2> DEFINE s == Written.seccomp
             r == Written.resources
  <2>1. Validate(Written) /\ enforced = Enforce(ConfigJson(Written, opts))
    BY DEF PolicyInv, Past
  <2>2. Written \in Policies /\ enforced = Meaning(Written)
    BY <2>1, WrittenType, PolicyMeaning DEF TypeOK
  <2>3. opts.file # Unset => opts.file.strict
    BY DEF PolicyInv, Past
  <2>4. ASSUME s.enabled, s.errnoRet # 0 PROVE enforced.errno = s.errnoRet
    <3>1. EffectiveDefaultAction(s) = "ERRNO"
      BY <2>1, <2>4 DEF Validate, validAction, ActionSupportsErrno
    <3>2. QED
      BY <2>2, <2>4, <3>1 DEF Meaning, EffectiveDefaultAction
  <2>5. ASSUME s.enabled, s.action.word # "empty" PROVE enforced.action = s.action.word
    <3>1. s.action # NoAction
      BY <2>5 DEF NoAction
    <3>2. Meaning(Written).action = s.action.word
      BY <2>5, <3>1 DEF Meaning
    <3>3. QED
      BY <2>2, <3>2
  <2>6. ASSUME r.period # 0 PROVE enforced.cpu = <<r.quota, r.period>>
    BY <2>1, <2>2, <2>6 DEF Meaning, Validate, ValidResources
  <2>7. QED
    BY <2>3, <2>4, <2>5, <2>6 DEF NothingIgnored
<1>2. QED
  BY <1>1, Invariance, PTL

\* The runtime refuses a validated policy for its limits at most.
THEOREM RefusalsAreExplained == Spec => []RefusalsExplained
<1>1. IInv => RefusalsExplained
  <2> SUFFICES ASSUME TypeOK, PolicyInv, stage = "refused" PROVE RefusalsExplained
    BY DEF IInv, RefusalsExplained
  <2>1. /\ Validate(Written) /\ config = ConfigJson(Written, opts)
        /\ \/ ~RuntimeTakes(config, opts.real)
           \/ opts.rootless /\ Limited(config.spec.resources)
    BY DEF PolicyInv, Past
  <2>2. Written \in Policies /\ opts \in Options
    BY WrittenType DEF TypeOK
  <2>3. CASE ~RuntimeTakes(config, opts.real)
    BY <2>1, <2>2, <2>3, OnlyLimitsRefused DEF RefusalsExplained
  <2>4. CASE opts.rootless /\ Limited(config.spec.resources)
    <3>1. config.spec.resources = applyResourceLimits(Written.resources)
      BY <2>1 DEF ConfigJson, buildSpec
    <3>2. ~(Written.resources.memory = 0 /\ Written.resources.pids = 0
            /\ Written.resources.quota = 0)
      BY <2>4, <3>1 DEF Limited, applyResourceLimits
    <3>3. QED
      BY <2>4, <3>2 DEF RefusalsExplained
  <2>5. QED
    BY <2>1, <2>3, <2>4
<1>2. QED
  BY <1>1, Invariance, PTL

=============================================================================
