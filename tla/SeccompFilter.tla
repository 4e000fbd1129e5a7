--------------------------- MODULE SeccompFilter ---------------------------
(***************************************************************************)
(* The worker's seccomp filter (zygote/seccomp.go): the list of allowed    *)
(* names is merged from two lists, translated to system call numbers, and  *)
(* compiled to a classic BPF program by BuildAllowlistFilter; the kernel   *)
(* checks that program and from then on runs it for every system call.     *)
(*                                                                         *)
(* The loops of DefaultPayloadAllowlist and InstallSeccomp take one step   *)
(* per entry, the kernel takes one step per instruction.                   *)
(***************************************************************************)
EXTENDS Integers, Sequences, FiniteSets

CONSTANTS
    NameLists,      \* the lists of names somebody may have written
    Table,          \* x86_64SyscallNumbers: a function from names to numbers
    Errnos,         \* the errno a caller asks for, a uint32
    Calls,          \* the system calls made: [arch, nr]
    X86_64,         \* AUDIT_ARCH_X86_64
    MaxInsns,       \* BPF_MAXINSNS, the kernel's limit on a program
    NoVerdict

Known    == DOMAIN Table
Numbers  == {Table[n] : n \in Known}
Names    == UNION {{l[k] : k \in DOMAIN l} : l \in NameLists} \cup Known

ASSUME ListsAssumption == \A l \in NameLists : l \in Seq(Names)
ASSUME TableAssumption ==
    /\ Numbers \subseteq Nat
    /\ IsFiniteSet(Numbers)
    /\ 2 * Cardinality(Numbers) + 5 <= MaxInsns
ASSUME LimitAssumption == MaxInsns \in Nat /\ MaxInsns < 65536
ASSUME ErrnoAssumption == \A e \in Errnos : e \in Nat /\ e < 4096
ASSUME CallAssumption  == Calls \subseteq [arch : Nat, nr : Nat] /\ X86_64 \in Nat

-----------------------------------------------------------------------------
\* Instructions.  The word a filter returns has the action in its high half and,
\* for ERRNO, the errno in its low one.
Low(word)  == word % 65536
RetAllow   == [act |-> "allow", errno |-> 0]
RetKill    == [act |-> "kill", errno |-> 0]
RetErrno(e) == [act |-> "errno", errno |-> Low(e)]

Load(field)    == [op |-> "ld", field |-> field]
Jeq(k, jt, jf) == [op |-> "jeq", jt |-> jt, jf |-> jf, k |-> k]
Ret(word)      == [op |-> "ret", word |-> word]

Prologue == <<Load("arch"), Jeq(X86_64, 1, 0), Ret(RetKill), Load("nr")>>

\* FAULT: a match jumps over the return that allows it.
EntriesSwapped(ns) ==
    [j \in 1..(2 * Len(ns)) |->
        IF j % 2 = 1 THEN Jeq(ns[(j + 1) \div 2], 1, 0) ELSE Ret(RetAllow)]

\* FAULT: a mismatch jumps as if counted from the instruction itself.
EntriesLong(ns) ==
    [j \in 1..(2 * Len(ns)) |->
        IF j % 2 = 1 THEN Jeq(ns[(j + 1) \div 2], 0, 2) ELSE Ret(RetAllow)]

\* Two instructions for each number: skip the second unless it matches.
Entries(ns) ==
    [j \in 1..(2 * Len(ns)) |->
        IF j % 2 = 1 THEN Jeq(ns[(j + 1) \div 2], 0, 1) ELSE Ret(RetAllow)]

\* FAULT: the last return is forgotten.
BuildWithoutDefault(ns, e) == Prologue \o Entries(ns)

BuildAllowlistFilter(ns, e) ==
    Prologue \o Entries(ns) \o <<Ret(RetErrno(e))>>

\* What the kernel demands of a program before it installs it (bpf_check_classic);
\* the length it is told is the 16 bits of sockFprog.len.
KernelAccepts(p) ==
    LET len == Low(Len(p))
    IN  /\ len \in 1..MaxInsns
        /\ p[len].op = "ret"
        /\ \A j \in 1..len : p[j].op = "jeq" => j + 1 + p[j].jt <= len
                                            /\ j + 1 + p[j].jf <= len

-----------------------------------------------------------------------------
VARIABLES
    defaults, common, errno,   \* config's list, CommonPayloadSyscalls, the errno
    stage,                     \* "merge", "translate", "build", "ready" or "refused"
    i,                         \* the loop's index into common or names
    names,                     \* the list as merged so far
    numbers, unknown,          \* what InstallSeccomp has made of it
    prog,                      \* the program
    call,                      \* the system call being filtered
    ins, acc,                  \* the kernel's instruction pointer (0: idle), accumulator
    verdict                    \* what the last call got

inputs  == <<defaults, common, errno>>
lists   == <<names, numbers, unknown>>
machine == <<call, ins, acc, verdict>>
vars    == <<inputs, stage, i, lists, prog, machine>>

Words == [act : {"allow", "errno", "kill"}, errno : Nat]
Insns == [op : {"ld"}, field : {"arch", "nr"}]
         \cup [op : {"jeq"}, jt : {0, 1}, jf : {0, 1}, k : Nat]
         \cup [op : {"ret"}, word : Words]

TypeOK ==
    /\ defaults \in NameLists /\ common \in NameLists /\ errno \in Errnos
    /\ stage \in {"merge", "translate", "build", "ready", "refused"}
    /\ i \in Nat \ {0}
    /\ names \in Seq(Names)
    /\ numbers \in Seq(Numbers)
    /\ unknown \in Seq(Names \ Known)
    /\ prog \in Seq(Insns)
    /\ call \in Calls
    /\ ins \in Nat /\ acc \in Nat
    /\ verdict \in Words \cup {NoVerdict}

Init ==
    /\ defaults \in NameLists /\ common \in NameLists /\ errno \in Errnos
    /\ stage = "merge" /\ i = 1
    /\ names = defaults
    /\ numbers = <<>> /\ unknown = <<>> /\ prog = <<>>
    /\ call \in Calls
    /\ ins = 0 /\ acc = 0 /\ verdict = NoVerdict

Elements(s) == {s[k] : k \in DOMAIN s}

\* DefaultPayloadAllowlist: the second loop.
Merge ==
    /\ stage = "merge" /\ i <= Len(common)
    /\ names' = IF common[i] \in Elements(names) THEN names ELSE Append(names, common[i])
    /\ i' = i + 1
    /\ UNCHANGED <<inputs, stage, numbers, unknown, prog, machine>>

MergeDone ==
    /\ stage = "merge" /\ i > Len(common)
    /\ stage' = "translate" /\ i' = 1
    /\ UNCHANGED <<inputs, lists, prog, machine>>

\* FAULT: repeated numbers are kept.
TakeEveryNumber ==
    /\ stage = "translate" /\ i <= Len(names)
    /\ names[i] \in Known
    /\ numbers' = Append(numbers, Table[names[i]])
    /\ i' = i + 1
    /\ UNCHANGED <<inputs, stage, names, unknown, prog, machine>>

\* InstallSeccomp: the loop over names.
SkipUnknown ==
    /\ stage = "translate" /\ i <= Len(names)
    /\ names[i] \notin Known
    /\ unknown' = Append(unknown, names[i])
    /\ i' = i + 1
    /\ UNCHANGED <<inputs, stage, names, numbers, prog, machine>>

TakeNumber ==
    /\ stage = "translate" /\ i <= Len(names)
    /\ names[i] \in Known
    /\ numbers' = IF Table[names[i]] \in Elements(numbers) THEN numbers
                  ELSE Append(numbers, Table[names[i]])
    /\ i' = i + 1
    /\ UNCHANGED <<inputs, stage, names, unknown, prog, machine>>

TranslateDone ==
    /\ stage = "translate" /\ i > Len(names)
    /\ prog' = BuildAllowlistFilter(numbers, errno)
    /\ stage' = "build"
    /\ UNCHANGED <<inputs, i, lists, machine>>

Install ==
    /\ stage = "build"
    /\ stage' = IF KernelAccepts(prog) THEN "ready" ELSE "refused"
    /\ UNCHANGED <<inputs, i, lists, prog, machine>>

-----------------------------------------------------------------------------
\* A system call of the filtered thread, and the kernel's interpreter.
Call ==
    /\ stage = "ready" /\ ins = 0
    /\ call' \in Calls
    /\ ins' = 1 /\ acc' = 0 /\ verdict' = NoVerdict
    /\ UNCHANGED <<inputs, stage, i, lists, prog>>

ExecLoad ==
    /\ ins # 0 /\ prog[ins].op = "ld"
    /\ acc' = IF prog[ins].field = "arch" THEN call.arch ELSE call.nr
    /\ ins' = ins + 1
    /\ UNCHANGED <<inputs, stage, i, lists, prog, call, verdict>>

ExecJeq ==
    /\ ins # 0 /\ prog[ins].op = "jeq"
    /\ ins' = ins + 1 + IF acc = prog[ins].k THEN prog[ins].jt ELSE prog[ins].jf
    /\ UNCHANGED <<inputs, stage, i, lists, prog, call, acc, verdict>>

ExecRet ==
    /\ ins # 0 /\ prog[ins].op = "ret"
    /\ verdict' = prog[ins].word
    /\ ins' = 0
    /\ UNCHANGED <<inputs, stage, i, lists, prog, call, acc>>

Next ==
    \/ Merge \/ MergeDone \/ SkipUnknown \/ TakeNumber \/ TranslateDone \/ Install
    \/ Call \/ ExecLoad \/ ExecJeq \/ ExecRet

Spec == Init /\ [][Next]_vars

-----------------------------------------------------------------------------
(* What the filter is for, said without the program. *)

Listed == {n \in Elements(defaults) \cup Elements(common) : n \in Known}

Decision(c) ==
    IF c.arch # X86_64 THEN RetKill
    ELSE IF \E n \in Listed : Table[n] = c.nr THEN RetAllow
    ELSE [act |-> "errno", errno |-> errno]

\* Every system call gets what the lists say: killed on another architecture,
\* allowed if a listed name stands for it, otherwise refused with the very errno
\* asked for.  It takes both loops, the offsets of all jumps and the two halves of
\* the returned word to be right (BuildAllowlistFilter, InstallSeccomp).
DecisionRight == ins = 0 /\ verdict # NoVerdict => verdict = Decision(call)

\* Whatever the lists, the kernel takes the program: its length fits, no jump leaves
\* it, it ends with a return.  A refusal would end the worker before its payload.
NeverRefused == stage # "refused"

\* What InstallSeccomp reports to worker-init: every name that means nothing is
\* named, and the count is that of the system calls allowed, not of names.
ReportRight ==
    stage = "ready" =>
        /\ Elements(unknown) = (Elements(defaults) \cup Elements(common)) \ Known
        /\ Len(numbers) = Cardinality({Table[n] : n \in Listed})

=============================================================================
