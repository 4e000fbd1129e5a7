-------------------------- MODULE WorkerInitProofs --------------------------
(***************************************************************************)
(* Proofs about WorkerInit, for any number of workers and threads, any set *)
(* of system calls that may fail and any migration before the lock.        *)
(***************************************************************************)
EXTENDS WorkerInit, WarmMemoryProofs, TLAPS

\* The capability each step needs is one the mother grants.
LEMMA NeedsGranted ==
    /\ DOMAIN Needs = {"private", "bind", "pivot", "mounts", "bounding"}
    /\ \A s \in DOMAIN Needs : Needs[s] \in MotherCapabilities
BY DEF Needs, MotherCapabilities

\* What VerifyWarmPattern says of the memory when some of its cells have been
\* rewritten: the first of them that it compares, or that there is none.
LEMMA RewrittenFound ==
  ASSUME NEW cells
  PROVE  LET found == VerifyWarmPattern(Rewritten(WarmMemfd, cells))
         IN  /\ found \in Int
             /\ found = -1 => \/ HeaderSize \in cells
                              \/ \A i \in 0..(WarmSize - 1) : HeaderSize + 1 + i \notin cells
             /\ found # -1 => /\ HeaderSize + 1 + found \in cells
                              /\ \A i \in 0..(found - 1) : HeaderSize + 1 + i \notin cells
<1> DEFINE region == Rewritten(WarmMemfd, cells)
           size == IF HeaderSize \in cells THEN OtherSize ELSE WarmSize
           compared == IF WarmSize < size THEN WarmSize ELSE size
           wrong == {i \in 0..(compared - 1) : region[HeaderSize + 1 + i] # WarmPatternByte(i)}
           found == VerifyWarmPattern(region)
<1>1. WarmSize \in Nat /\ OtherSize \in Nat /\ HeaderSize \in Nat /\ HeaderSize >= 1
  BY WarmAssumption, OtherSizeAssumption, MagicType
<1>2. /\ WarmMemfd \in Seq(Nat) /\ Len(WarmMemfd) = HeaderSize + WarmSize
      /\ WarmMemfd[HeaderSize] = WarmSize
      /\ \A i \in 0..(WarmSize - 1) : WarmMemfd[HeaderSize + 1 + i] = WarmPatternByte(i)
  BY <1>1, MemfdCells DEF WarmMemfd
<1>3. size \in Nat /\ compared \in Nat /\ compared <= WarmSize
  BY <1>1
<1>4. /\ \A k \in 1..(HeaderSize + WarmSize) :
           region[k] = IF k \notin cells THEN WarmMemfd[k]
                       ELSE IF k = HeaderSize THEN OtherSize
                       ELSE (WarmMemfd[k] + 1) % 256
      /\ Len(region) = HeaderSize + WarmSize
  <2>1. 1..Len(WarmMemfd) = 1..(HeaderSize + WarmSize)
    BY <1>2
  <2>2. DOMAIN region = 1..(HeaderSize + WarmSize)
    BY <2>1 DEF Rewritten
  <2>3. ASSUME NEW k \in 1..(HeaderSize + WarmSize) PROVE region[k] \in Nat
    <3>1. WarmMemfd[k] \in Nat
      BY <1>2, <2>1
    <3> QED
      BY <1>1, <2>1, <3>1 DEF Rewritten
  <2>4. region \in Seq(Nat) /\ Len(region) = HeaderSize + WarmSize
    <3>1. region \in [1..(HeaderSize + WarmSize) -> Nat]
      BY <2>1, <2>2, <2>3 DEF Rewritten
    <3>2. HeaderSize + WarmSize \in Nat
      BY <1>1
    <3> HIDE DEF region
    <3> QED
      BY <3>1, <3>2
  <2> QED
    BY <2>1, <2>4 DEF Rewritten
<1> HIDE DEF region
<1>5. WarmPayloadSize(region) = size
  BY <1>1, <1>2, <1>4 DEF WarmPayloadSize
<1>6. \A i \in 0..(WarmSize - 1) :
         region[HeaderSize + 1 + i] # WarmPatternByte(i) <=> HeaderSize + 1 + i \in cells
  <2> SUFFICES ASSUME NEW i \in 0..(WarmSize - 1)
               PROVE  region[HeaderSize + 1 + i] # WarmPatternByte(i)
                        <=> HeaderSize + 1 + i \in cells
    OBVIOUS
  <2>1. HeaderSize + 1 + i \in 1..(HeaderSize + WarmSize) /\ HeaderSize + 1 + i # HeaderSize
    BY <1>1
  <2>2. WarmPatternByte(i) \in 0..255
    BY <1>1 DEF WarmPatternByte
  <2> DEFINE b == WarmPatternByte(i)
  <2>3. region[HeaderSize + 1 + i] = IF HeaderSize + 1 + i \notin cells THEN b ELSE (b + 1) % 256
    BY <1>2, <1>4, <2>1
  <2> HIDE DEF b
  <2>4. b \in 0..255 => (b + 1) % 256 # b
    OBVIOUS
  <2> QED
    BY <2>2, <2>3, <2>4 DEF b
<1>7. /\ wrong = {} => found = -1
      /\ wrong # {} => found \in wrong /\ \A j \in wrong : found <= j
  <2>1. compared = IF WarmSize < size THEN WarmSize ELSE size
    OBVIOUS
  <2>2. Len(region) = HeaderSize + WarmSize
    BY <1>4
  <2> HIDE DEF size, compared
  <2> QED
    BY <1>1, <1>3, <1>5, <2>1, <2>2, VerifyFindsFirst
<1> HIDE DEF found
<1>8. CASE wrong = {}
  <2>1. found = -1
    BY <1>7, <1>8
  <2>2. ASSUME HeaderSize \notin cells, NEW i \in 0..(WarmSize - 1)
        PROVE  HeaderSize + 1 + i \notin cells
    <3>1. compared = WarmSize
      BY <1>1, <2>2
    <3> QED
      BY <1>6, <1>8, <2>2, <3>1
  <2> QED
    BY <2>1, <2>2 DEF found, region
<1>9. CASE wrong # {}
  <2>1. found \in 0..(compared - 1) /\ \A j \in wrong : found <= j
    BY <1>7, <1>9
  <2>2. found \in 0..(WarmSize - 1) /\ found # -1
    BY <1>1, <1>3, <2>1
  <2>3. HeaderSize + 1 + found \in cells
    BY <1>6, <1>7, <1>9, <2>2
  <2>4. ASSUME NEW i \in 0..(found - 1) PROVE HeaderSize + 1 + i \notin cells
    <3>0. found \in Int /\ 0 <= found /\ found <= compared - 1 /\ found <= WarmSize - 1
      BY <1>1, <1>3, <2>1, <2>2
    <3>1. i \in 0..(compared - 1) /\ i \in 0..(WarmSize - 1) /\ ~(found <= i)
      <4> HIDE DEF compared, wrong
      <4> QED
        BY <1>1, <1>3, <3>0
    <3>2. i \notin wrong
      BY <2>1, <3>1
    <3> QED
      BY <1>6, <3>1, <3>2
  <2> QED
    BY <2>2, <2>3, <2>4 DEF found, region
<1> QED
  BY <1>8, <1>9

\* Writing to the warm memory changes nothing else.
LEMMA ScribbleLeaves ==
  ASSUME NEW w \in Workers, Scribble(w)
  PROVE  /\ kind' = kind /\ pc' = pc /\ thread' = thread /\ locked' = locked
         /\ private' = private /\ root' = root /\ oldSeen' = oldSeen /\ masks' = masks
         /\ told' = told /\ putOld' = putOld /\ host' = host
         /\ bound' = bound /\ caps' = caps /\ nnp' = nnp /\ filter' = filter
  BY DEF Scribble, threadVars, mountVars, credVars

\* Every variable keeps its type.
THEOREM InitTypeCorrect == Spec => []TypeOK
<1>1. Init => TypeOK
  BY LeaderAssumption, KindsAssumption DEF Init, TypeOK, Steps, PayloadSteps, MotherCapabilities
<1>2. TypeOK /\ [Next]_vars => TypeOK'
  <2> SUFFICES ASSUME TypeOK, [Next]_vars PROVE TypeOK'
    OBVIOUS
  <2> USE DEF TypeOK, Steps, RootfsSteps, CapSteps, PayloadSteps, Goto, MountReaches,
              mountVars, threadVars, credVars, startVars, warmVars
  <2>1. ASSUME NEW w \in Workers, LockThread(w) \/ CheckPid(w) \/ Chdir(w) \/ VerifyNoCaps(w)
        PROVE  TypeOK'
    BY <2>1 DEF LockThread, CheckPid, Chdir, VerifyNoCaps
  <2>2. ASSUME NEW w \in Workers,
               StartWorker(w) \/ Attack(w) \/ MapWarm(w) \/ StartOther(w) \/ Return(w)
        PROVE  TypeOK'
    BY <2>2 DEF StartWorker, Attack, MapWarm, StartOther, Return
  <2>3. ASSUME NEW w \in Workers, StepFails(w) \/ Kill(w) PROVE TypeOK'
    BY <2>3 DEF StepFails, Kill
  <2>4. ASSUME NEW w \in Workers, Migrate(w) PROVE TypeOK'
    BY <2>4 DEF Migrate
  <2>5. ASSUME NEW w \in Workers, MakePrivate(w) \/ BindRootfs(w) \/ MakePutOld(w)
        PROVE  TypeOK'
    BY <2>5 DEF MakePrivate, BindRootfs, MakePutOld
  <2>6. ASSUME NEW w \in Workers, PivotRoot(w) \/ MountInfra(w) PROVE TypeOK'
    BY <2>6 DEF PivotRoot, MountInfra
  <2>7. ASSUME NEW w \in Workers, DetachOldRoot(w) PROVE TypeOK'
    BY <2>7 DEF DetachOldRoot
  <2>8. ASSUME NEW w \in Workers, HardenRootfs(w) PROVE TypeOK'
    <3>1. masks' \in [Workers -> SUBSET MaskedPaths]
      <4>1. \/ \E failed \in SUBSET HardenItems :
                 masks' = [masks EXCEPT ![w] = MaskedPaths \ failed]
            \/ masks' = masks
        BY <2>8, Zenon DEF HardenRootfs
      <4>2. masks \in [Workers -> SUBSET MaskedPaths]
        OBVIOUS
      <4>3. ASSUME NEW failed, masks' = [masks EXCEPT ![w] = MaskedPaths \ failed]
            PROVE  masks' \in [Workers -> SUBSET MaskedPaths]
        <5>1. MaskedPaths \ failed \in SUBSET MaskedPaths
          OBVIOUS
        <5> DEFINE bare == MaskedPaths \ failed
        <5> HIDE DEF bare
        <5> QED
          BY <4>2, <4>3, <5>1 DEF bare
      <4> QED
        BY <4>1, <4>2, <4>3
    <3>2. told' \in [Workers -> SUBSET {"EPERM", "other"}]
      <4>1. CASE w \in Hardened
        <5>1. PICK there \in BOOLEAN, failed \in SUBSET HardenItems :
                told' = [told EXCEPT ![w] =
                  {IF ~Able(w, HardenCap(i)) /\ (i = "null" => ~there) THEN "EPERM" ELSE "other" :
                     i \in failed}]
          BY <2>8, <4>1, Zenon DEF HardenRootfs
        <5> QED
          BY <5>1
      <4>2. CASE w \notin Hardened
        BY <2>8, <4>2 DEF HardenRootfs
      <4> QED
        BY <4>1, <4>2
    <3>3. pc' \in [Workers -> Steps] /\ host' \in {"intact", "changed"}
      BY <2>8 DEF HardenRootfs
    <3>4. /\ thread' = thread /\ locked' = locked /\ private' = private /\ root' = root
          /\ oldSeen' = oldSeen /\ putOld' = putOld /\ bound' = bound /\ caps' = caps
          /\ nnp' = nnp /\ filter' = filter /\ kind' = kind /\ warmFd' = warmFd
          /\ changed' = changed /\ look' = look
      BY <2>8 DEF HardenRootfs
    <3> QED
      BY <3>1, <3>2, <3>3, <3>4
  <2>9. ASSUME NEW w \in Workers, DropBounding(w) PROVE TypeOK'
    BY <2>9 DEF DropBounding
  <2>10. ASSUME NEW w \in Workers, ClearCaps(w) PROVE TypeOK'
    BY <2>10 DEF ClearCaps
  <2>11. ASSUME NEW w \in Workers, SetNoNewPrivs(w) PROVE TypeOK'
    BY <2>11 DEF SetNoNewPrivs
  <2>12. ASSUME NEW w \in Workers, InstallFilter(w) PROVE TypeOK'
    BY <2>12 DEF InstallFilter
  <2>13. ASSUME NEW w \in Workers, Exec(w) PROVE TypeOK'
    BY <2>13, LeaderAssumption DEF Exec, Inherited
  <2>14. ASSUME NEW w \in Workers, VerifyWarm(w) PROVE TypeOK'
    <3>1. PICK cells \in SUBSET look[w].ever :
            look' = [look EXCEPT ![w] = [steady |-> {}, ever |-> {},
                       found |-> VerifyWarmPattern(Rewritten(WarmMemfd, cells))]]
      BY <2>14 DEF VerifyWarm
    <3>2. VerifyWarmPattern(Rewritten(WarmMemfd, cells)) \in Int
      BY RewrittenFound
    <3>3. look' \in [Workers -> [steady : SUBSET Touched, ever : SUBSET Touched, found : Int]]
      BY <3>1, <3>2
    <3> QED
      BY <2>14, <3>3 DEF VerifyWarm
  <2>15. ASSUME NEW w \in Workers, Scribble(w) PROVE TypeOK'
    <3>0. PICK cell \in Touched : changed' \in {changed \cup {cell}, changed \ {cell}}
      BY <2>15 DEF Scribble
    <3>1. changed' \in SUBSET Touched
      BY <3>0
    <3>2. look' \in [Workers -> [steady : SUBSET Touched, ever : SUBSET Touched, found : Int]]
      <4>1. look' = [v \in Workers |->
                       IF pc[v] # "compare" THEN look[v]
                       ELSE [steady |-> look[v].steady \cap changed',
                             ever   |-> look[v].ever \cup changed',
                             found  |-> look[v].found]]
        BY <2>15 DEF Scribble
      <4>2. ASSUME NEW v \in Workers
            PROVE  look'[v] \in [steady : SUBSET Touched, ever : SUBSET Touched, found : Int]
        BY <3>1, <4>1
      <4> QED
        BY <4>1, <4>2
    <3>3. warmFd' = warmFd
      BY <2>15 DEF Scribble
    <3> QED
      BY <2>15, <3>1, <3>2, <3>3, ScribbleLeaves
  <2>16. ASSUME NEW w \in Workers, CloseWarm(w) PROVE TypeOK'
    <3>1. look' \in [Workers -> [steady : SUBSET Touched, ever : SUBSET Touched, found : Int]]
      <4>1. [steady |-> changed, ever |-> changed, found |-> -1]
              \in [steady : SUBSET Touched, ever : SUBSET Touched, found : Int]
        OBVIOUS
      <4> QED
        BY <2>16, <4>1 DEF CloseWarm
    <3>2. warmFd' \in [Workers -> BOOLEAN] /\ pc' \in [Workers -> Steps]
      BY <2>16 DEF CloseWarm
    <3> QED
      BY <2>16, <3>1, <3>2 DEF CloseWarm
  <2>17. ASSUME UNCHANGED vars PROVE TypeOK'
    BY <2>17 DEF vars
  <2> QED
    BY <2>1, <2>2, <2>3, <2>4, <2>5, <2>6, <2>7, <2>8, <2>9, <2>10, <2>11, <2>12, <2>13,
       <2>14, <2>15, <2>16, <2>17
    DEF Next, Advance, Finished
<1> QED
  BY <1>1, <1>2, PTL DEF Spec

-----------------------------------------------------------------------------
(* The inductive invariant: what has been done to the thread main runs on,  *)
(* by the step main has reached.  The lock is what makes it inductive: the  *)
(* thread that was stripped and filtered is the thread that calls execve.   *)

Uncapped   == {"nnp", "seccomp", "exec"}
MountSteps == {"bind", "mkold", "pivot", "chdir", "detach", "mounts", "harden"}

\* Where a process of each kind can be.
KindOK(w) ==
    /\ kind[w] = "stray" => pc[w] \in {"lock", "pid", "dead"}
    /\ kind[w] \in {"direct", "bare"} =>
         pc[w] \in {"nnp", "seccomp", "dead"} \cup PayloadSteps
\* A process that never drops anything, and has not filtered itself yet.
DirectOK(w) == kind[w] \in {"direct", "bare"} =>
    /\ \A t \in Threads : caps[w][t] = MotherCapabilities
    /\ pc[w] \in {"payload", "nnp", "seccomp"} => filter[w] = {}
\* A worker-init before its execve.
StageOK(w) == kind[w] \in {"init", "stray"} =>
    /\ pc[w] \notin {"lock", "dead"} \cup PayloadSteps => locked[w]
    /\ pc[w] \notin {"verify", "dead"} \cup Uncapped \cup PayloadSteps
          => \A t \in Threads : caps[w][t] = MotherCapabilities
    /\ pc[w] \notin {"exec", "dead"} \cup PayloadSteps => filter[w] = {}
    /\ pc[w] \in {"capset", "verify"} \cup Uncapped => bound[w][thread[w]] = {}
    /\ pc[w] \in {"verify"} \cup Uncapped => caps[w][thread[w]] = {}
    /\ pc[w] \in {"seccomp", "exec"} => thread[w] \in nnp[w]
    /\ pc[w] = "exec" => thread[w] \in filter[w]
    /\ pc[w] \in {"chdir", "detach", "mounts", "harden"} \cup CapSteps \cup Uncapped
          => root[w] = "rootfs"
    /\ pc[w] \in {"mounts", "harden"} \cup CapSteps \cup Uncapped
          => (oldSeen[w] => "detach" \in Fallible)
\* Its payload.
Confined(w) ==
    /\ \A t \in Threads : bound[w][t] = {} /\ caps[w][t] = {}
    /\ nnp[w] = Threads /\ filter[w] = Threads
    /\ root[w] = "rootfs" /\ (oldSeen[w] => "detach" \in Fallible)
ConfinedOK(w) == pc[w] \in PayloadSteps /\ kind[w] = "init" => Confined(w)
StageInv == TypeOK /\ \A w \in Workers :
                        KindOK(w) /\ DirectOK(w) /\ StageOK(w) /\ ConfinedOK(w)

\* A step of one worker leaves the others' stages alone.
LEMMA StageNext == StageInv /\ TypeOK' /\ [Next]_vars => StageInv'
<1> SUFFICES ASSUME StageInv, TypeOK', [Next]_vars, NEW v \in Workers
             PROVE  KindOK(v)' /\ DirectOK(v)' /\ StageOK(v)' /\ ConfinedOK(v)'
  BY DEF StageInv
<1> DEFINE Goal == KindOK(v)' /\ DirectOK(v)' /\ StageOK(v)' /\ ConfinedOK(v)'
<1> USE DEF StageInv, TypeOK, KindOK, DirectOK, StageOK, ConfinedOK, Confined, Uncapped,
            CapSteps, PayloadSteps, Goto, mountVars, threadVars, credVars, startVars, warmVars
<1>1. ASSUME NEW w \in Workers, LockThread(w) \/ CheckPid(w) \/ Chdir(w) PROVE Goal
  BY <1>1 DEF LockThread, CheckPid, Chdir
<1>2. ASSUME NEW w \in Workers, MakePrivate(w) \/ BindRootfs(w) \/ MakePutOld(w) PROVE Goal
  BY <1>2 DEF MakePrivate, BindRootfs, MakePutOld
<1>3. ASSUME NEW w \in Workers, PivotRoot(w) \/ MountInfra(w) \/ HardenRootfs(w) PROVE Goal
  BY <1>3 DEF PivotRoot, MountInfra, HardenRootfs
<1>4. ASSUME NEW w \in Workers, DetachOldRoot(w) PROVE Goal
  BY <1>4 DEF DetachOldRoot, Able, MotherCapabilities
<1>5. ASSUME NEW w \in Workers, DropBounding(w) PROVE Goal
  BY <1>5 DEF DropBounding
<1>6. ASSUME NEW w \in Workers, ClearCaps(w) PROVE Goal
  BY <1>6 DEF ClearCaps
<1>7. ASSUME NEW w \in Workers, VerifyNoCaps(w) \/ SetNoNewPrivs(w) PROVE Goal
  BY <1>7 DEF VerifyNoCaps, SetNoNewPrivs
<1>8. ASSUME NEW w \in Workers, InstallFilter(w) PROVE Goal
  BY <1>8 DEF InstallFilter, AllKinds
<1>9. ASSUME NEW w \in Workers, Exec(w) PROVE Goal
  BY <1>9 DEF Exec, Inherited
<1>10. ASSUME NEW w \in Workers,
              StartWorker(w) \/ Attack(w) \/ MapWarm(w) \/ CloseWarm(w) \/ VerifyWarm(w)
              \/ StartOther(w) \/ Return(w)
       PROVE Goal
  BY <1>10 DEF StartWorker, Attack, MapWarm, CloseWarm, VerifyWarm, StartOther, Return
<1>11. ASSUME NEW w \in Workers, StepFails(w) \/ Kill(w) PROVE Goal
  BY <1>11 DEF StepFails, Kill
<1>12. ASSUME NEW w \in Workers, Migrate(w) PROVE Goal
  BY <1>12 DEF Migrate
<1>13. ASSUME UNCHANGED vars PROVE Goal
  BY <1>13 DEF vars
<1>14. ASSUME NEW w \in Workers, Scribble(w) PROVE Goal
  BY <1>14, ScribbleLeaves
<1> QED
  BY <1>1, <1>2, <1>3, <1>4, <1>5, <1>6, <1>7, <1>8, <1>9, <1>10, <1>11, <1>12, <1>13, <1>14
  DEF Next, Advance, Finished

LEMMA StageInit == Init /\ TypeOK => StageInv
BY DEF Init, StageInv, KindOK, DirectOK, StageOK, ConfinedOK, Uncapped, CapSteps, PayloadSteps

\* A payload never starts with a capability, without the filter, or outside
\* the rootfs, wherever the scheduler had put main before it was locked and
\* wherever it puts the payload's.
THEOREM PayloadsAreConfined == Spec => []PayloadConfined
<1>1. StageInv => PayloadConfined
  BY DEF StageInv, ConfinedOK, Confined, PayloadConfined
<1> QED
  BY <1>1, StageInit, StageNext, InitTypeCorrect, PTL DEF Spec

\* The order of main's calls, and the list of the mother's capabilities, are
\* such that each call can succeed.
THEOREM OrderIsRight == Spec => []OrderWorks
<1>1. StageInv => OrderWorks
  <2> SUFFICES ASSUME StageInv, NEW w \in Workers
               PROVE  /\ pc[w] \in DOMAIN Needs => Able(w, Needs[pc[w]])
                      /\ pc[w] = "detach"  => Able(w, "SYS_ADMIN")
                      /\ pc[w] = "capset"  => thread[w] \notin filter[w]
                      /\ pc[w] = "verify"  => bound[w][thread[w]] \cup caps[w][thread[w]] = {}
                      /\ pc[w] = "seccomp" => \/ thread[w] \in nnp[w]
                                               \/ "SYS_ADMIN" \in caps[w][thread[w]]
    BY DEF OrderWorks
  <2>0. /\ KindOK(w) /\ DirectOK(w) /\ StageOK(w)
        /\ kind[w] \in AllKinds /\ thread[w] \in Threads
    BY DEF StageInv, TypeOK
  <2> USE <2>0 DEF KindOK, DirectOK, StageOK, AllKinds, Uncapped, CapSteps, PayloadSteps, Able
  <2>1. pc[w] \in DOMAIN Needs => Able(w, Needs[pc[w]])
    BY NeedsGranted
  <2>2. pc[w] = "detach"  => Able(w, "SYS_ADMIN")
    BY DEF MotherCapabilities
  <2>3. pc[w] = "capset"  => thread[w] \notin filter[w]
    OBVIOUS
  <2>4. pc[w] = "verify"  => bound[w][thread[w]] \cup caps[w][thread[w]] = {}
    OBVIOUS
  <2>5. pc[w] = "seccomp" => thread[w] \in nnp[w] \/ "SYS_ADMIN" \in caps[w][thread[w]]
    BY DEF MotherCapabilities
  <2> QED
    BY <2>1, <2>2, <2>3, <2>4, <2>5
<1> QED
  BY <1>1, StageInit, StageNext, InitTypeCorrect, PTL DEF Spec

-----------------------------------------------------------------------------
(* The hardening.                                                           *)

Covered(w) == /\ masks[w] # MaskedPaths => told[w] # {}
              /\ "EPERM" \notin told[w]
HardenInv == \A w \in Workers :
    kind[w] = "init" /\ w \in Hardened
    /\ pc[w] \in CapSteps \cup Uncapped \cup PayloadSteps => Covered(w)

LEMMA HardenNext == StageInv /\ HardenInv /\ [Next]_vars => HardenInv'
<1> SUFFICES ASSUME StageInv, HardenInv, [Next]_vars, NEW v \in Workers,
                    kind'[v] = "init", v \in Hardened,
                    pc'[v] \in CapSteps \cup Uncapped \cup PayloadSteps
             PROVE  Covered(v)'
  BY DEF HardenInv
<1> USE DEF StageInv, TypeOK, HardenInv, Covered, CapSteps, Uncapped, PayloadSteps, Goto,
            mountVars, threadVars, credVars, startVars, warmVars
<1>1. ASSUME NEW w \in Workers, HardenRootfs(w) PROVE Covered(v)'
  <2>1. CASE v # w
    BY <1>1, <2>1 DEF HardenRootfs
  <2>2. CASE v = w
    <3>1. StageOK(v) /\ thread[v] \in Threads /\ kind[v] = "init" /\ pc[v] = "harden"
      BY <1>1, <2>2 DEF HardenRootfs
    <3>2. Able(v, "SYS_ADMIN") /\ Able(v, "MKNOD")
      BY <3>1 DEF StageOK, Able, MotherCapabilities
    <3>3. PICK there \in BOOLEAN, failed \in SUBSET HardenItems :
            /\ masks' = [masks EXCEPT ![v] = MaskedPaths \ failed]
            /\ told' = [told EXCEPT ![v] =
                 {IF ~Able(v, HardenCap(i)) /\ (i = "null" => ~there) THEN "EPERM" ELSE "other" :
                    i \in failed}]
      <4>1. HardenRootfs(v) /\ v \in Hardened
        BY <1>1, <2>2
      <4> QED
        BY <4>1, Zenon DEF HardenRootfs
    <3>4. \A i : Able(v, HardenCap(i))
      BY <3>2 DEF HardenCap
    <3>5. masks'[v] = MaskedPaths \ failed /\ told'[v] = {"other" : i \in failed}
      BY <3>3, <3>4
    <3>6. failed # {} => told'[v] # {}
      BY <3>5
    <3>7. "EPERM" \notin told'[v]
      BY <3>5
    <3> QED
      BY <3>5, <3>6, <3>7
  <2> QED
    BY <2>1, <2>2
<1>2. ASSUME NEW w \in Workers,
             LockThread(w) \/ CheckPid(w) \/ Chdir(w) \/ MakePrivate(w) \/ BindRootfs(w)
             \/ MakePutOld(w) \/ PivotRoot(w) \/ DetachOldRoot(w) \/ MountInfra(w)
      PROVE  Covered(v)'
  BY <1>2 DEF LockThread, CheckPid, Chdir, MakePrivate, BindRootfs, MakePutOld, PivotRoot,
              DetachOldRoot, MountInfra
<1>3. ASSUME NEW w \in Workers,
             DropBounding(w) \/ ClearCaps(w) \/ VerifyNoCaps(w) \/ SetNoNewPrivs(w)
             \/ InstallFilter(w) \/ Exec(w)
      PROVE  Covered(v)'
  BY <1>3 DEF DropBounding, ClearCaps, VerifyNoCaps, SetNoNewPrivs, InstallFilter, Exec
<1>4. ASSUME NEW w \in Workers,
             StartWorker(w) \/ Attack(w) \/ MapWarm(w) \/ CloseWarm(w) \/ VerifyWarm(w)
             \/ StartOther(w) \/ Return(w) \/ StepFails(w) \/ Kill(w) \/ Migrate(w)
      PROVE  Covered(v)'
  BY <1>4 DEF StartWorker, Attack, MapWarm, CloseWarm, VerifyWarm, StartOther, Return,
              StepFails, Kill, Migrate
<1>5. ASSUME UNCHANGED vars PROVE Covered(v)'
  BY <1>5 DEF vars
<1>6. ASSUME NEW w \in Workers, Scribble(w) PROVE Covered(v)'
  BY <1>6, ScribbleLeaves
<1> QED
  BY <1>1, <1>2, <1>3, <1>4, <1>5, <1>6 DEF Next, Advance, Finished

\* The mother's bundle grants what the hardening of her workers needs.
THEOREM HardeningIsWhole == Spec => []HardenWhole
<1>1. Init => HardenInv
  BY DEF Init, HardenInv, CapSteps, Uncapped, PayloadSteps
<1>2. HardenInv => HardenWhole
  BY DEF HardenInv, HardenWhole, Covered
<1> QED
  BY <1>1, <1>2, HardenNext, StageInit, StageNext, InitTypeCorrect, PTL DEF Spec

-----------------------------------------------------------------------------
(* The host and the shared rootfs.                                          *)

HostInv ==
    /\ \A w \in Workers :
         /\ pc[w] \in MountSteps => private[w]
         /\ pc[w] = "pivot" => putOld
    /\ host = "intact"

\* From its own private namespace, a worker's mounts do not reach the host.
LEMMA HostUnreached ==
  ASSUME StageInv, HostInv, NEW w \in Workers, pc[w] \in MountSteps, MountReaches(w)
  PROVE  host' = "intact"
<1>1. kind[w] # "stray"
  BY DEF StageInv, KindOK, MountSteps
<1>2. private[w] /\ host = "intact"
  BY DEF HostInv
<1> QED
  BY <1>1, <1>2 DEF MountReaches

LEMMA HostNext == StageInv /\ HostInv /\ [Next]_vars => HostInv'
<1> SUFFICES ASSUME StageInv, HostInv, [Next]_vars PROVE HostInv'
  OBVIOUS
<1> USE DEF StageInv, TypeOK, KindOK, HostInv, MountSteps, Goto, MountReaches, mountVars,
            threadVars, credVars, startVars, warmVars
<1>1. ASSUME NEW w \in Workers, LockThread(w) \/ CheckPid(w) \/ Chdir(w) \/ Exec(w)
      PROVE  HostInv'
  BY <1>1 DEF LockThread, CheckPid, Chdir, Exec, AllKinds
<1>2. ASSUME NEW w \in Workers, MakePrivate(w) PROVE HostInv'
  BY <1>2 DEF MakePrivate
<1>3. ASSUME NEW w \in Workers, BindRootfs(w) PROVE HostInv'
  <2>1. host' = "intact"
    BY <1>3, HostUnreached DEF BindRootfs
  <2> QED
    BY <1>3, <2>1 DEF BindRootfs
<1>4. ASSUME NEW w \in Workers, MakePutOld(w) PROVE HostInv'
  BY <1>4 DEF MakePutOld
<1>5. ASSUME NEW w \in Workers, PivotRoot(w) \/ MountInfra(w) PROVE HostInv'
  <2>1. host' = "intact"
    BY <1>5, HostUnreached DEF PivotRoot, MountInfra
  <2> QED
    BY <1>5, <2>1 DEF PivotRoot, MountInfra
<1>6. ASSUME NEW w \in Workers, DetachOldRoot(w) PROVE HostInv'
  BY <1>6 DEF DetachOldRoot
<1>7. ASSUME NEW w \in Workers, HardenRootfs(w) PROVE HostInv'
  BY <1>7 DEF HardenRootfs
<1>8. ASSUME NEW w \in Workers,
             DropBounding(w) \/ ClearCaps(w) \/ VerifyNoCaps(w) \/ SetNoNewPrivs(w)
             \/ InstallFilter(w)
      PROVE  HostInv'
  BY <1>8 DEF DropBounding, ClearCaps, VerifyNoCaps, SetNoNewPrivs, InstallFilter
<1>9. ASSUME NEW w \in Workers,
             StartWorker(w) \/ Attack(w) \/ MapWarm(w) \/ CloseWarm(w) \/ VerifyWarm(w)
             \/ StartOther(w) \/ Return(w)
      PROVE  HostInv'
  BY <1>9 DEF StartWorker, Attack, MapWarm, CloseWarm, VerifyWarm, StartOther, Return
<1>10. ASSUME NEW w \in Workers, StepFails(w) \/ Kill(w) \/ Migrate(w) PROVE HostInv'
  BY <1>10 DEF StepFails, Kill, Migrate
<1>11. ASSUME UNCHANGED vars PROVE HostInv'
  BY <1>11 DEF vars
<1>12. ASSUME NEW w \in Workers, Scribble(w) PROVE HostInv'
  BY <1>12, ScribbleLeaves
<1> QED
  BY <1>1, <1>2, <1>3, <1>4, <1>5, <1>6, <1>7, <1>8, <1>9, <1>10, <1>11, <1>12
  DEF Next, Advance, Finished

LEMMA HostInit == Init => HostInv
BY DEF Init, HostInv, MountSteps

\* The host's mounts are out of every init's reach.
THEOREM HostIsSafe == Spec => []HostUntouched
<1>1. HostInv => HostUntouched
  BY DEF HostInv, HostUntouched
<1> QED
  BY <1>1, HostInit, HostNext, StageInit, StageNext, InitTypeCorrect, PTL DEF Spec

\* The put_old directory is there for whoever is about to pivot.
THEOREM PutOldIsThere == Spec => []PutOldStays
<1>1. HostInv => PutOldStays
  BY DEF HostInv, PutOldStays
<1> QED
  BY <1>1, HostInit, HostNext, StageInit, StageNext, InitTypeCorrect, PTL DEF Spec

-----------------------------------------------------------------------------
(* What no step ever does.                                                  *)

\* No thread of a worker is given a right back, not even by execve, after
\* which uid 0 regains what the bounding set has left, and none loses its
\* no_new_privs or its filter.
RightsShrink == [][\A w \in Workers, t \in Threads :
    /\ bound'[w][t] \subseteq bound[w][t] /\ caps'[w][t] \subseteq caps[w][t]
    /\ t \in nnp[w] => t \in nnp'[w]
    /\ t \in filter[w] => t \in filter'[w]]_vars

\* The steps of an init before its payload.
StartSteps == {"lock", "pid"} \cup RootfsSteps \cup CapSteps \cup Uncapped

\* What may end a start: a kill, a system call that fails by itself, and a main
\* that the scheduler had moved before its first line.  Of that one the check
\* reads the wrong thread's status.
OwnFault(w) ==
    \/ MayKill
    \/ pc[w] \in Fallible \ {"detach", "harden"}
    \/ MigrateEarly /\ pc[w] = "verify" /\ thread[w] # Leader

\* Nothing else ends one: not the order of main's calls, not the grant of the
\* bundle, not what other workers do to the rootfs they share.
StartsSucceed == [][\A w \in Workers :
    kind[w] = "init" /\ pc[w] \in StartSteps /\ pc'[w] = "dead" => OwnFault(w)]_vars

\* A step of a worker takes no right back that has been given up.
LEMMA RightsStep == StageInv /\ [Next]_vars =>
    \A w \in Workers, t \in Threads :
        /\ bound'[w][t] \subseteq bound[w][t] /\ caps'[w][t] \subseteq caps[w][t]
        /\ t \in nnp[w] => t \in nnp'[w]
        /\ t \in filter[w] => t \in filter'[w]
<1> SUFFICES ASSUME StageInv, [Next]_vars, NEW v \in Workers, NEW t \in Threads
             PROVE  /\ bound'[v][t] \subseteq bound[v][t] /\ caps'[v][t] \subseteq caps[v][t]
                    /\ t \in nnp[v] => t \in nnp'[v]
                    /\ t \in filter[v] => t \in filter'[v]
  OBVIOUS
<1> DEFINE Less == /\ bound'[v][t] \subseteq bound[v][t] /\ caps'[v][t] \subseteq caps[v][t]
                   /\ t \in nnp[v] => t \in nnp'[v]
                   /\ t \in filter[v] => t \in filter'[v]
<1> USE DEF StageInv, TypeOK, Goto, credVars
<1>1. ASSUME NEW w \in Workers, Exec(w) PROVE Less
  <2>1. CASE v # w
    BY <1>1, <2>1 DEF Exec
  <2>2. CASE v = w
    <3>1. kind[v] \notin {"direct", "bare"} /\ kind[v] \in AllKinds /\ pc[v] = "exec"
      BY <1>1, <2>2 DEF Exec, KindOK, PayloadSteps
    <3>2. /\ bound[v][thread[v]] = {} /\ caps[v][thread[v]] = {}
          /\ thread[v] \in nnp[v] /\ thread[v] \in filter[v]
      BY <3>1 DEF AllKinds, StageOK, Uncapped, CapSteps, PayloadSteps
    <3>3. bound'[v][t] = {} /\ caps'[v][t] = {} /\ nnp'[v] = Threads /\ filter'[v] = Threads
      BY <1>1, <2>2, <3>2 DEF Exec, Inherited
    <3> QED
      BY <3>3
  <2> QED
    BY <2>1, <2>2
<1>2. ASSUME NEW w \in Workers, DropBounding(w) PROVE Less
  <2>1. bound'[v][t] = {} \/ bound'[v][t] = bound[v][t]
    BY <1>2 DEF DropBounding
  <2>2. caps' = caps /\ nnp' = nnp /\ filter' = filter
    BY <1>2 DEF DropBounding
  <2> QED
    BY <2>1, <2>2
<1>3. ASSUME NEW w \in Workers, ClearCaps(w) PROVE Less
  <2>1. caps'[v][t] = {} \/ caps'[v][t] = caps[v][t]
    BY <1>3 DEF ClearCaps
  <2>2. bound' = bound /\ nnp' = nnp /\ filter' = filter
    BY <1>3 DEF ClearCaps
  <2> QED
    BY <2>1, <2>2
<1>4. ASSUME NEW w \in Workers, SetNoNewPrivs(w) \/ InstallFilter(w) PROVE Less
  <2>1. bound' = bound /\ caps' = caps
    BY <1>4 DEF SetNoNewPrivs, InstallFilter
  <2>2. nnp'[v] \in {nnp[v], nnp[v] \cup {thread[v]}}
    BY <1>4 DEF SetNoNewPrivs, InstallFilter
  <2>3. filter'[v] \in {filter[v], filter[v] \cup {thread[v]}}
    BY <1>4 DEF SetNoNewPrivs, InstallFilter
  <2> QED
    BY <2>1, <2>2, <2>3
<1>5. ASSUME NEW w \in Workers,
             LockThread(w) \/ CheckPid(w) \/ Chdir(w) \/ MakePrivate(w) \/ BindRootfs(w)
             \/ MakePutOld(w) \/ PivotRoot(w) \/ DetachOldRoot(w) \/ MountInfra(w)
             \/ HardenRootfs(w) \/ VerifyNoCaps(w)
      PROVE  Less
  BY <1>5 DEF LockThread, CheckPid, Chdir, MakePrivate, BindRootfs, MakePutOld, PivotRoot,
              DetachOldRoot, MountInfra, HardenRootfs, VerifyNoCaps
<1>6. ASSUME NEW w \in Workers,
             StartWorker(w) \/ Attack(w) \/ MapWarm(w) \/ CloseWarm(w) \/ VerifyWarm(w)
             \/ StartOther(w) \/ Return(w) \/ StepFails(w) \/ Kill(w) \/ Migrate(w)
      PROVE  Less
  BY <1>6 DEF StartWorker, Attack, MapWarm, CloseWarm, VerifyWarm, StartOther, Return,
              StepFails, Kill, Migrate
<1>7. ASSUME UNCHANGED vars PROVE Less
  BY <1>7 DEF vars
<1>8. ASSUME NEW w \in Workers, Scribble(w) PROVE Less
  BY <1>8, ScribbleLeaves
<1> QED
  BY <1>1, <1>2, <1>3, <1>4, <1>5, <1>6, <1>7, <1>8 DEF Next, Advance, Finished

\* What a worker has given up stays given up: confinement is not only there
\* when the payload starts, no later step can undo it.
THEOREM RightsOnlyShrink == Spec => RightsShrink
<1> DEFINE Less == \A w \in Workers, t \in Threads :
               /\ bound'[w][t] \subseteq bound[w][t] /\ caps'[w][t] \subseteq caps[w][t]
               /\ t \in nnp[w] => t \in nnp'[w]
               /\ t \in filter[w] => t \in filter'[w]
<1>1. StageInv /\ [Next]_vars => [Less]_vars
  BY RightsStep
<1> HIDE DEF Less
<1>2. Spec => [][Less]_vars
  BY <1>1, StageInit, StageNext, InitTypeCorrect, PTL DEF Spec
<1> QED
  BY <1>2 DEF Less, RightsShrink

\* Main stays on the leader until the payload, if it was there when it locked.
OnLeader == ~MigrateEarly => \A w \in Workers :
    kind[w] = "init" /\ pc[w] \in StartSteps => thread[w] = Leader
LEMMA OnLeaderNext == StageInv /\ OnLeader /\ [Next]_vars => OnLeader'
<1> SUFFICES ASSUME StageInv, OnLeader, [Next]_vars, ~MigrateEarly, NEW v \in Workers,
                    kind'[v] = "init", pc'[v] \in StartSteps
             PROVE  thread'[v] = Leader
  BY DEF OnLeader
<1> USE DEF StageInv, TypeOK, KindOK, OnLeader, StartSteps, RootfsSteps, CapSteps, Uncapped,
            Goto, threadVars, startVars, warmVars
<1>1. ASSUME NEW w \in Workers, Migrate(w) PROVE thread'[v] = Leader
  <2>1. CASE v # w
    BY <1>1, <2>1 DEF Migrate
  <2>2. CASE v = w
    <3>1. kind[v] = "init" /\ pc[v] \in StartSteps /\ StageOK(v) /\ pc[v] # "lock"
      BY <1>1, <2>2 DEF Migrate
    <3>2. locked[v]
      BY <3>1 DEF StageOK, PayloadSteps
    <3> QED
      BY <1>1, <2>2, <3>2 DEF Migrate
  <2> QED
    BY <2>1, <2>2
<1>2. ASSUME NEW w \in Workers,
             LockThread(w) \/ CheckPid(w) \/ Chdir(w) \/ MakePrivate(w) \/ BindRootfs(w)
             \/ MakePutOld(w) \/ PivotRoot(w) \/ DetachOldRoot(w) \/ MountInfra(w)
             \/ HardenRootfs(w)
      PROVE  thread'[v] = Leader
  BY <1>2 DEF LockThread, CheckPid, Chdir, MakePrivate, BindRootfs, MakePutOld, PivotRoot,
              DetachOldRoot, MountInfra, HardenRootfs
<1>3. ASSUME NEW w \in Workers,
             DropBounding(w) \/ ClearCaps(w) \/ VerifyNoCaps(w) \/ SetNoNewPrivs(w)
             \/ InstallFilter(w) \/ Exec(w)
      PROVE  thread'[v] = Leader
  BY <1>3 DEF DropBounding, ClearCaps, VerifyNoCaps, SetNoNewPrivs, InstallFilter, Exec
<1>4. ASSUME NEW w \in Workers, StartWorker(w) PROVE thread'[v] = Leader
  BY <1>4 DEF StartWorker
<1>5. ASSUME NEW w \in Workers,
             Attack(w) \/ MapWarm(w) \/ CloseWarm(w) \/ VerifyWarm(w) \/ StartOther(w)
             \/ Return(w) \/ StepFails(w) \/ Kill(w)
      PROVE  thread'[v] = Leader
  BY <1>5 DEF Attack, MapWarm, CloseWarm, VerifyWarm, StartOther, Return, StepFails, Kill
<1>6. ASSUME UNCHANGED vars PROVE thread'[v] = Leader
  BY <1>6 DEF vars
<1>7. ASSUME NEW w \in Workers, Scribble(w) PROVE thread'[v] = Leader
  BY <1>7, ScribbleLeaves
<1> QED
  BY <1>1, <1>2, <1>3, <1>4, <1>5, <1>6, <1>7 DEF Next, Advance, Finished

\* The steps that can end a start, one by one.
LEMMA StartStep == StageInv /\ HostInv /\ OrderWorks /\ OnLeader /\ [Next]_vars =>
    \A w \in Workers : kind[w] = "init" /\ pc[w] \in StartSteps /\ pc'[w] = "dead" => OwnFault(w)
<1> SUFFICES ASSUME StageInv, HostInv, OrderWorks, OnLeader, [Next]_vars, NEW v \in Workers,
                    kind[v] = "init", pc[v] \in StartSteps, pc'[v] = "dead"
             PROVE  OwnFault(v)
  OBVIOUS
<1>0. /\ pc[v] # "dead" /\ pc[v] \notin PayloadSteps
      /\ pc \in [Workers -> Steps] /\ StageOK(v)
  BY DEF StageInv, TypeOK, StartSteps, RootfsSteps, CapSteps, Uncapped, PayloadSteps
<1>1. ASSUME NEW w \in Workers, StepFails(w) PROVE OwnFault(v)
  <2>1. v = w
    BY <1>0, <1>1 DEF StepFails
  <2>2. /\ pc[v] \in DOMAIN Needs => Able(v, Needs[pc[v]])
        /\ pc[v] = "capset" => thread[v] \notin filter[v]
    BY DEF OrderWorks
  <2>3. pc[v] = "pivot" => putOld
    BY DEF HostInv
  <2> QED
    BY <1>0, <1>1, <2>1, <2>2, <2>3 DEF StepFails, OwnFault, PayloadSteps
<1>2. ASSUME NEW w \in Workers, Kill(w) PROVE OwnFault(v)
  BY <1>2 DEF Kill, OwnFault
<1>3. ASSUME NEW w \in Workers, VerifyNoCaps(w) PROVE OwnFault(v)
  <2>1. v = w /\ pc[v] = "verify"
    BY <1>0, <1>3 DEF VerifyNoCaps, Goto
  <2>2. bound[v][thread[v]] = {} /\ caps[v][thread[v]] = {}
    BY <1>0, <2>1 DEF StageOK, CapSteps, Uncapped
  <2>3. thread[v] # Leader
    BY <1>0, <1>3, <2>1, <2>2 DEF VerifyNoCaps, Goto
  <2> QED
    BY <2>1, <2>3 DEF OnLeader, OwnFault
<1>4. ASSUME NEW w \in Workers,
             LockThread(w) \/ CheckPid(w) \/ Chdir(w) \/ MakePrivate(w) \/ BindRootfs(w)
             \/ MakePutOld(w) \/ PivotRoot(w) \/ DetachOldRoot(w) \/ MountInfra(w)
             \/ HardenRootfs(w)
      PROVE  FALSE
  BY <1>0, <1>4 DEF LockThread, CheckPid, Chdir, MakePrivate, BindRootfs, MakePutOld,
                    PivotRoot, DetachOldRoot, MountInfra, HardenRootfs, Goto
<1>5. ASSUME NEW w \in Workers,
             DropBounding(w) \/ ClearCaps(w) \/ SetNoNewPrivs(w) \/ InstallFilter(w) \/ Exec(w)
      PROVE  FALSE
  BY <1>0, <1>5 DEF DropBounding, ClearCaps, SetNoNewPrivs, InstallFilter, Exec, Goto
<1>6. ASSUME NEW w \in Workers,
             StartWorker(w) \/ Attack(w) \/ MapWarm(w) \/ CloseWarm(w) \/ VerifyWarm(w)
             \/ StartOther(w) \/ Return(w) \/ Migrate(w)
      PROVE  FALSE
  BY <1>0, <1>6 DEF StartWorker, Attack, MapWarm, CloseWarm, VerifyWarm, StartOther,
                    Return, Migrate, Goto, PayloadSteps
<1>7. ASSUME UNCHANGED vars PROVE FALSE
  BY <1>0, <1>7 DEF vars
<1>8. ASSUME NEW w \in Workers, Scribble(w) PROVE FALSE
  BY <1>0, <1>8, ScribbleLeaves
<1> QED
  BY <1>1, <1>2, <1>3, <1>4, <1>5, <1>6, <1>7, <1>8 DEF Next, Advance, Finished

\* A start fails only by itself: each of main's calls finds the capability, the
\* thread and the directory it needs, whatever the other workers of the rootfs
\* are doing.
THEOREM StartsFailAlone == Spec => StartsSucceed
<1> DEFINE Alone == \A w \in Workers :
               kind[w] = "init" /\ pc[w] \in StartSteps /\ pc'[w] = "dead" => OwnFault(w)
<1>1. Init => OnLeader
  BY DEF Init, OnLeader
<1>2. StageInv /\ HostInv /\ OrderWorks /\ OnLeader /\ [Next]_vars => [Alone]_vars
  BY StartStep
<1> HIDE DEF Alone
<1>3. Spec => [][Alone]_vars
  BY <1>1, <1>2, OnLeaderNext, OrderIsRight, HostInit, HostNext, StageInit, StageNext,
     InitTypeCorrect, PTL DEF Spec
<1> QED
  BY <1>3 DEF Alone, StartsSucceed

-----------------------------------------------------------------------------
\* What a worker says of the memory is so, for every size, every chunk and whatever
\* any number of others write to any of its cells meanwhile.
THEOREM WarmIsReadBack == Spec => WarmReadsBack
<1> DEFINE Reads == \A w \in Workers :
             pc[w] = "compare" /\ pc'[w] = "work" => ReportRight(look'[w].found, look[w])
<1>1. ASSUME TypeOK, [Next]_vars, NEW v \in Workers, pc[v] = "compare", pc'[v] = "work"
      PROVE  ReportRight(look'[v].found, look[v])
  <2>1. VerifyWarm(v)
    <3>1. pc \in [Workers -> Steps]
      BY <1>1 DEF TypeOK
    <3>2. ASSUME NEW w \in Workers,
                 LockThread(w) \/ CheckPid(w) \/ Chdir(w) \/ MakePrivate(w) \/ BindRootfs(w)
                 \/ MakePutOld(w) \/ PivotRoot(w) \/ DetachOldRoot(w) \/ MountInfra(w)
                 \/ HardenRootfs(w)
          PROVE  FALSE
      BY <1>1, <3>1, <3>2 DEF LockThread, CheckPid, Chdir, MakePrivate, BindRootfs, MakePutOld,
                              PivotRoot, DetachOldRoot, MountInfra, HardenRootfs, Goto
    <3>3. ASSUME NEW w \in Workers,
                 DropBounding(w) \/ ClearCaps(w) \/ VerifyNoCaps(w) \/ SetNoNewPrivs(w)
                 \/ InstallFilter(w) \/ Exec(w) \/ StartWorker(w) \/ Attack(w)
          PROVE  FALSE
      BY <1>1, <3>1, <3>3 DEF DropBounding, ClearCaps, VerifyNoCaps, SetNoNewPrivs, InstallFilter,
                              Exec, StartWorker, Attack, Goto
    <3>4. ASSUME NEW w \in Workers,
                 MapWarm(w) \/ CloseWarm(w) \/ StartOther(w) \/ Return(w)
                 \/ StepFails(w) \/ Kill(w) \/ Migrate(w)
          PROVE  FALSE
      BY <1>1, <3>1, <3>4 DEF MapWarm, CloseWarm, StartOther, Return, StepFails, Kill,
                              Migrate, Goto
    <3>5. ASSUME NEW w \in Workers, VerifyWarm(w) PROVE w = v
      BY <1>1, <3>1, <3>5 DEF VerifyWarm, Goto
    <3>6. ~UNCHANGED vars
      BY <1>1 DEF vars
    <3>7. ASSUME NEW w \in Workers, Scribble(w) PROVE FALSE
      BY <1>1, <3>7, ScribbleLeaves
    <3> QED
      BY <1>1, <3>2, <3>3, <3>4, <3>5, <3>6, <3>7 DEF Next, Advance, Finished
  <2>2. PICK cells \in SUBSET look[v].ever :
          /\ look[v].steady \subseteq cells
          /\ look' = [look EXCEPT ![v] = [steady |-> {}, ever |-> {},
                         found |-> VerifyWarmPattern(Rewritten(WarmMemfd, cells))]]
    BY <2>1 DEF VerifyWarm
  <2> DEFINE found == VerifyWarmPattern(Rewritten(WarmMemfd, cells))
  <2>3. look'[v].found = found
    BY <1>1, <2>2 DEF TypeOK
  <2>4. /\ found = -1 => \/ HeaderSize \in cells
                         \/ \A i \in 0..(WarmSize - 1) : HeaderSize + 1 + i \notin cells
        /\ found # -1 => /\ HeaderSize + 1 + found \in cells
                         /\ \A i \in 0..(found - 1) : HeaderSize + 1 + i \notin cells
    BY RewrittenFound
  <2> HIDE DEF found
  <2> QED
    BY <2>2, <2>3, <2>4 DEF ReportRight
<1>2. TypeOK /\ [Next]_vars => [Reads]_vars
  BY <1>1
<1> HIDE DEF Reads
<1>3. Spec => [][Reads]_vars
  BY <1>2, InitTypeCorrect, PTL DEF Spec
<1> QED
  BY <1>3 DEF Reads, WarmReadsBack

\* The figures a worker at its work shows are those of the mapping it asked
\* about, for every list of mappings the kernel may show.
THEOREM SmapsAreExact == Spec => []SmapsExact
<1>1. ASSUME NEW addr \in 0..(Last(Mappings).end + 1) PROVE addr \in Int
  OBVIOUS
<1>2. SmapsExact
  BY <1>1, SmapsFinds DEF SmapsExact, Hit
<1> QED
  BY <1>2, PTL
=============================================================================
