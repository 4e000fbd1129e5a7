------------------------ MODULE SeccompFilterProofs ------------------------
(***************************************************************************)
(* Proofs about SeccompFilter, for all lists, any table and any errno that *)
(* fits in a system call's result.                                         *)
(***************************************************************************)
EXTENDS SeccompFilter, FiniteSetTheorems, TLAPS

-----------------------------------------------------------------------------
(* Lists and programs. *)

LEMMA ElementsOfAppend ==
    ASSUME NEW S, NEW s \in Seq(S), NEW e
    PROVE  Elements(Append(s, e)) = Elements(s) \cup {e}
<1>1. Elements(Append(s, e)) \subseteq Elements(s) \cup {e}
  BY DEF Elements
<1>2. \A k \in DOMAIN s : k \in DOMAIN Append(s, e) /\ Append(s, e)[k] = s[k]
  OBVIOUS
<1>3. Len(s) + 1 \in DOMAIN Append(s, e) /\ Append(s, e)[Len(s) + 1] = e
  OBVIOUS
<1> QED
  BY <1>1, <1>2, <1>3 DEF Elements

LEMMA ElementsOfSeq ==
    ASSUME NEW S, NEW s \in Seq(S)
    PROVE  Elements(s) \subseteq S
BY DEF Elements

\* The places of two and of three sequences in their concatenation.
LEMMA TwoParts ==
    ASSUME NEW S, NEW a \in Seq(S), NEW b \in Seq(S)
    PROVE  /\ a \o b \in Seq(S)
           /\ Len(a \o b) = Len(a) + Len(b)
           /\ \A k \in 1..Len(a) : (a \o b)[k] = a[k]
           /\ \A k \in 1..Len(b) : (a \o b)[Len(a) + k] = b[k]
OBVIOUS

LEMMA ThreeParts ==
    ASSUME NEW S, NEW a \in Seq(S), NEW b \in Seq(S), NEW c \in Seq(S)
    PROVE  /\ a \o b \o c \in Seq(S)
           /\ Len(a \o b \o c) = Len(a) + Len(b) + Len(c)
           /\ \A k \in 1..Len(a) : (a \o b \o c)[k] = a[k]
           /\ \A k \in 1..Len(b) : (a \o b \o c)[Len(a) + k] = b[k]
           /\ \A k \in 1..Len(c) : (a \o b \o c)[Len(a) + Len(b) + k] = c[k]
<1> DEFINE ab == a \o b
           abc == ab \o c
<1>1. /\ ab \in Seq(S) /\ Len(ab) = Len(a) + Len(b)
      /\ \A k \in 1..Len(a) : ab[k] = a[k]
      /\ \A k \in 1..Len(b) : ab[Len(a) + k] = b[k]
  BY TwoParts
<1> HIDE DEF ab
<1>2. /\ abc \in Seq(S) /\ Len(abc) = Len(ab) + Len(c)
      /\ \A k \in 1..Len(ab) : abc[k] = ab[k]
      /\ \A k \in 1..Len(c) : abc[Len(ab) + k] = c[k]
  <2>1. ab \in Seq(S) /\ c \in Seq(S)
    BY <1>1
  <2> QED
    BY <2>1, TwoParts
<1> HIDE DEF abc
<1>3. Len(a) \in Nat /\ Len(b) \in Nat
  OBVIOUS
<1>4. \A k \in 1..Len(a) : k \in 1..Len(ab)
  BY <1>1, <1>3
<1>5. \A k \in 1..Len(b) : Len(a) + k \in 1..Len(ab)
  BY <1>1, <1>3
<1>6. /\ abc \in Seq(S) /\ Len(abc) = Len(a) + Len(b) + Len(c)
      /\ \A k \in 1..Len(a) : abc[k] = a[k]
      /\ \A k \in 1..Len(b) : abc[Len(a) + k] = b[k]
      /\ \A k \in 1..Len(c) : abc[Len(a) + Len(b) + k] = c[k]
  BY <1>1, <1>2, <1>4, <1>5
<1> QED
  BY <1>6 DEF abc, ab

\* The instructions of the list: two for each number.
LEMMA EntriesShape ==
    ASSUME NEW ns \in Seq(Numbers)
    PROVE  /\ Entries(ns) \in Seq(Insns)
           /\ Len(Entries(ns)) = 2 * Len(ns)
           /\ \A j \in 1..Len(ns) : /\ Entries(ns)[2 * j - 1] = Jeq(ns[j], 0, 1)
                                    /\ Entries(ns)[2 * j] = Ret(RetAllow)
<1>1. Len(ns) \in Nat /\ 2 * Len(ns) \in Nat
  OBVIOUS
<1>2. \A j \in 1..Len(ns) : ns[j] \in Nat
  <2>1. \A j \in 1..Len(ns) : ns[j] \in Numbers
    OBVIOUS
  <2> QED
    BY <2>1, TableAssumption
<1>3. \A j \in 1..(2 * Len(ns)) : j % 2 = 1 => (j + 1) \div 2 \in 1..Len(ns)
  BY <1>1
<1>4. \A k \in Nat : Jeq(k, 0, 1) \in Insns
  BY DEF Jeq, Insns
<1>5. Ret(RetAllow) \in Insns
  BY DEF Ret, RetAllow, Insns, Words
<1>6. \A j \in 1..(2 * Len(ns)) :
        Entries(ns)[j] = IF j % 2 = 1 THEN Jeq(ns[(j + 1) \div 2], 0, 1) ELSE Ret(RetAllow)
  BY DEF Entries
<1>7. \A j \in 1..(2 * Len(ns)) : Entries(ns)[j] \in Insns
  BY <1>2, <1>3, <1>4, <1>5, <1>6
<1>8. Entries(ns) \in [1..(2 * Len(ns)) -> Insns]
  BY <1>7 DEF Entries
<1>9. Entries(ns) \in Seq(Insns) /\ Len(Entries(ns)) = 2 * Len(ns)
  BY <1>8, <1>1
<1>10. \A j \in 1..Len(ns) :
         /\ 2 * j - 1 \in 1..(2 * Len(ns)) /\ 2 * j \in 1..(2 * Len(ns))
         /\ (2 * j - 1) % 2 = 1 /\ ((2 * j - 1) + 1) \div 2 = j /\ (2 * j) % 2 # 1
  BY <1>1
<1>11. \A j \in 1..Len(ns) : /\ Entries(ns)[2 * j - 1] = Jeq(ns[j], 0, 1)
                              /\ Entries(ns)[2 * j] = Ret(RetAllow)
  BY <1>6, <1>10
<1> QED
  BY <1>9, <1>11

\* A number's two instructions stand at fixed places of the program.
LEMMA ProgramShape ==
    ASSUME NEW ns \in Seq(Numbers), NEW e \in Nat
    PROVE  LET p == BuildAllowlistFilter(ns, e)
           IN  /\ p \in Seq(Insns)
               /\ Len(p) = 2 * Len(ns) + 5
               /\ p[1] = Load("arch") /\ p[2] = Jeq(X86_64, 1, 0)
               /\ p[3] = Ret(RetKill) /\ p[4] = Load("nr")
               /\ \A j \in 1..Len(ns) : /\ p[2 * j + 3] = Jeq(ns[j], 0, 1)
                                        /\ p[2 * j + 4] = Ret(RetAllow)
               /\ p[2 * Len(ns) + 5] = Ret(RetErrno(e))
<1> DEFINE p == BuildAllowlistFilter(ns, e)
           last == <<Ret(RetErrno(e))>>
<1>1. /\ Load("arch") \in Insns /\ Jeq(X86_64, 1, 0) \in Insns
      /\ Ret(RetKill) \in Insns /\ Load("nr") \in Insns
  BY CallAssumption DEF Load, Jeq, Ret, RetKill, Insns, Words
<1>2. Ret(RetErrno(e)) \in Insns
  <2>1. Low(e) \in Nat
    BY SMT DEF Low
  <2> QED
    BY <2>1 DEF Ret, RetErrno, Insns, Words
<1>3. Prologue \in Seq(Insns) /\ Len(Prologue) = 4
  BY <1>1 DEF Prologue
<1>4. last \in Seq(Insns) /\ Len(last) = 1 /\ last[1] = Ret(RetErrno(e))
  BY <1>2
<1>5. p = Prologue \o Entries(ns) \o last
  BY DEF BuildAllowlistFilter
<1>6. /\ Prologue[1] = Load("arch") /\ Prologue[2] = Jeq(X86_64, 1, 0)
      /\ Prologue[3] = Ret(RetKill) /\ Prologue[4] = Load("nr")
  BY DEF Prologue
<1>7. Len(ns) \in Nat
  OBVIOUS
<1> DEFINE mid == Entries(ns)
<1>8. mid \in Seq(Insns) /\ Len(mid) = 2 * Len(ns)
  BY EntriesShape
<1> HIDE DEF p, last, mid
<1>9. /\ p \in Seq(Insns)
      /\ Len(p) = Len(Prologue) + Len(mid) + Len(last)
      /\ \A k \in 1..Len(Prologue) : p[k] = Prologue[k]
      /\ \A k \in 1..Len(mid) : p[Len(Prologue) + k] = mid[k]
      /\ \A k \in 1..Len(last) : p[Len(Prologue) + Len(mid) + k] = last[k]
  <2>1. p = Prologue \o mid \o last
    BY <1>5 DEF mid
  <2>2. Prologue \in Seq(Insns) /\ mid \in Seq(Insns) /\ last \in Seq(Insns)
    BY <1>3, <1>4, <1>8
  <2> DEFINE q == Prologue \o mid \o last
  <2>3. /\ q \in Seq(Insns)
        /\ Len(q) = Len(Prologue) + Len(mid) + Len(last)
        /\ \A k \in 1..Len(Prologue) : q[k] = Prologue[k]
        /\ \A k \in 1..Len(mid) : q[Len(Prologue) + k] = mid[k]
        /\ \A k \in 1..Len(last) : q[Len(Prologue) + Len(mid) + k] = last[k]
    BY <2>2, ThreeParts
  <2>4. p = q
    BY <2>1
  <2> HIDE DEF q
  <2> QED
    BY <2>3, <2>4, Zenon
<1>10. \A k \in 1..(2 * Len(ns)) : p[4 + k] = Entries(ns)[k]
  BY <1>3, <1>8, <1>9 DEF mid
<1>11. \A k \in 1..1 : p[4 + 2 * Len(ns) + k] = last[k]
  BY <1>3, <1>4, <1>8, <1>9
<1>12. ASSUME NEW j \in 1..Len(ns)
       PROVE  p[2 * j + 3] = Jeq(ns[j], 0, 1) /\ p[2 * j + 4] = Ret(RetAllow)
  <2>1. 2 * j - 1 \in 1..(2 * Len(ns)) /\ 2 * j \in 1..(2 * Len(ns))
    BY <1>7
  <2>2. 4 + (2 * j - 1) = 2 * j + 3 /\ 4 + 2 * j = 2 * j + 4
    OBVIOUS
  <2>3. p[2 * j + 3] = Entries(ns)[2 * j - 1] /\ p[2 * j + 4] = Entries(ns)[2 * j]
    BY <2>1, <2>2, <1>10
  <2> QED
    BY <2>3, EntriesShape
<1>13. 2 * Len(ns) + 5 = 4 + 2 * Len(ns) + 1 /\ 1 \in 1..1
  BY <1>7
<1> QED
  <2>1. p[2 * Len(ns) + 5] = Ret(RetErrno(e))
    BY <1>11, <1>13, <1>4
  <2>2. Len(p) = 2 * Len(ns) + 5
    BY <1>3, <1>4, <1>7, <1>8, <1>9
  <2>3. /\ p[1] = Load("arch") /\ p[2] = Jeq(X86_64, 1, 0)
        /\ p[3] = Ret(RetKill) /\ p[4] = Load("nr")
    BY <1>3, <1>6, <1>9
  <2> QED
    BY <1>9, <1>12, <2>1, <2>2, <2>3 DEF p

\* An errno that is a result of a system call is not cut by the 16 bits.
LEMMA LowIsWhole ==
    ASSUME NEW x \in Nat, x < 65536
    PROVE  Low(x) = x
BY SMT DEF Low

LEMMA ErrnoFits ==
    ASSUME NEW e \in Errnos
    PROVE  RetErrno(e) = [act |-> "errno", errno |-> e]
<1>1. e \in Nat /\ e < 65536
  BY ErrnoAssumption, SMT
<1>2. Low(e) = e
  BY <1>1, LowIsWhole
<1> QED
  BY <1>2 DEF RetErrno

\* Numbers without repetition are no more than the table has, so the program fits.
LEMMA Accepted ==
    ASSUME NEW ns \in Seq(Numbers), NEW e \in Nat,
           \A j, k \in DOMAIN ns : ns[j] = ns[k] => j = k
    PROVE  KernelAccepts(BuildAllowlistFilter(ns, e))
<1> DEFINE p == BuildAllowlistFilter(ns, e)
<1>1. ns \in Injection(1..Len(ns), Numbers)
  BY DEF Injection, IsInjective
<1>2. Cardinality(1..Len(ns)) <= Cardinality(Numbers)
  BY <1>1, TableAssumption, FS_Injection
<1>3. Cardinality(1..Len(ns)) = Len(ns)
  <2>1. Len(ns) \in Nat
    OBVIOUS
  <2>2. Cardinality(1..Len(ns)) = IF 1 > Len(ns) THEN 0 ELSE Len(ns) - 1 + 1
    BY <2>1, FS_Interval
  <2> QED
    BY <2>1, <2>2
<1>4. Cardinality(Numbers) \in Nat
  BY TableAssumption, FS_CardinalityType
<1>5. 2 * Len(ns) + 5 \in 1..MaxInsns
  BY <1>2, <1>3, <1>4, TableAssumption, LimitAssumption
<1>6. /\ p[1] = Load("arch") /\ p[2] = Jeq(X86_64, 1, 0)
      /\ p[3] = Ret(RetKill) /\ p[4] = Load("nr")
      /\ \A j \in 1..Len(ns) : /\ p[2 * j + 3] = Jeq(ns[j], 0, 1)
                               /\ p[2 * j + 4] = Ret(RetAllow)
      /\ p[2 * Len(ns) + 5] = Ret(RetErrno(e))
      /\ Len(p) = 2 * Len(ns) + 5
  BY ProgramShape
<1> HIDE DEF p
<1>7. Len(p) \in 1..MaxInsns /\ Low(Len(p)) = Len(p)
  <2>1. Len(p) \in 1..MaxInsns
    BY <1>5, <1>6
  <2>2. Len(p) \in Nat /\ Len(p) < 65536
    BY <2>1, LimitAssumption, SMT
  <2> QED
    BY <2>1, <2>2, LowIsWhole
<1>8. p[Len(p)].op = "ret"
  <2>1. p[Len(p)] = Ret(RetErrno(e))
    BY <1>6, Zenon
  <2> QED
    BY <2>1 DEF Ret
<1>9. ASSUME NEW j \in 1..Len(p), p[j].op = "jeq"
      PROVE  j + 1 + p[j].jt <= Len(p) /\ j + 1 + p[j].jf <= Len(p)
  <2>1. Len(ns) \in Nat
    OBVIOUS
  <2>2. j # 1 /\ j # 3 /\ j # 4 /\ j # Len(p)
    BY <1>6, <1>8, <1>9 DEF Load, Ret
  <2>3. CASE j = 2
    BY <2>1, <2>3, <1>6 DEF Jeq
  <2>4. CASE j > 4
    <3> DEFINE k == (j - 3) \div 2
    <3>1. j \in Nat /\ j - 3 \in 2..(2 * Len(ns) + 1)
      <4>1. j \in 1..(2 * Len(ns) + 5) /\ j # 2 * Len(ns) + 5
        BY <2>2, <1>6
      <4> QED
        BY <4>1, <2>1, <2>4
    <3>2. k \in 1..Len(ns) /\ (j = 2 * k + 3 \/ j = 2 * k + 4)
      BY <2>1, <3>1
    <3> HIDE DEF k
    <3>3. CASE j = 2 * k + 3
      <4>1. p[j] = Jeq(ns[k], 0, 1)
        BY <3>2, <3>3, <1>6, Zenon
      <4>2. p[j].jt = 0 /\ p[j].jf = 1
        BY <4>1 DEF Jeq
      <4> QED
        BY <4>2, <3>1, <3>2, <3>3, <2>1, <1>6
    <3>4. CASE j = 2 * k + 4
      BY <3>2, <3>4, <1>6, <1>9 DEF Ret
    <3> QED
      BY <3>2, <3>3, <3>4
  <2> QED
    BY <2>2, <2>3, <2>4
<1> QED
  BY <1>7, <1>8, <1>9 DEF KernelAccepts, p

-----------------------------------------------------------------------------
(* The inductive invariant: what the loops have done so far, and what the   *)
(* kernel knows of a call by the instruction it has come to.  Types belong  *)
(* to it, since an instruction has fields only inside the program.          *)

Done(s, k) == {s[j] : j \in 1..(k - 1)}

ListsInv ==
    /\ stage = "merge" => /\ i <= Len(common) + 1
                          /\ Elements(names) = Elements(defaults) \cup Done(common, i)
                          /\ numbers = <<>> /\ unknown = <<>>
    /\ stage # "merge" => Elements(names) = Elements(defaults) \cup Elements(common)
    /\ stage = "translate" => /\ i <= Len(names) + 1
                              /\ Elements(numbers) = {Table[n] : n \in Done(names, i) \cap Known}
                              /\ Elements(unknown) = Done(names, i) \ Known
    /\ \A j, k \in DOMAIN numbers : numbers[j] = numbers[k] => j = k

ProgramInv ==
    stage \in {"build", "ready", "refused"} =>
        /\ prog = BuildAllowlistFilter(numbers, errno)
        /\ Elements(numbers) = {Table[n] : n \in Listed}
        /\ Elements(unknown) = (Elements(defaults) \cup Elements(common)) \ Known

MachineInv ==
    ins # 0 =>
        /\ stage = "ready"
        /\ ins <= 2 * Len(numbers) + 5
        /\ ins = 2 => acc = call.arch
        /\ ins = 3 => call.arch # X86_64
        /\ ins >= 4 => call.arch = X86_64
        /\ ins >= 5 => acc = call.nr
        /\ \A j \in 1..Len(numbers) : /\ ins > 2 * j + 4 => numbers[j] # call.nr
                                      /\ ins = 2 * j + 4 => numbers[j] = call.nr

IInv == TypeOK /\ ListsInv /\ ProgramInv /\ MachineInv /\ NeverRefused /\ DecisionRight

\* The instruction the kernel has come to.
LEMMA CurrentInsn ==
    ASSUME IInv, ins # 0
    PROVE  /\ ins \in 1..Len(prog)
           /\ prog[ins].op = "ld" => prog[ins] \in [op : {"ld"}, field : {"arch", "nr"}]
           /\ prog[ins].op = "jeq" => prog[ins] \in [op : {"jeq"}, jt : {0, 1}, jf : {0, 1}, k : Nat]
           /\ prog[ins].op = "ret" => prog[ins] \in [op : {"ret"}, word : Words]
<1>1. numbers \in Seq(Numbers) /\ errno \in Nat /\ ins \in Nat \ {0} /\ prog \in Seq(Insns)
  BY ErrnoAssumption DEF IInv, TypeOK
<1>2. prog = BuildAllowlistFilter(numbers, errno) /\ ins <= 2 * Len(numbers) + 5
  BY DEF IInv, ProgramInv, MachineInv
<1>3. Len(prog) = 2 * Len(numbers) + 5
  BY <1>1, <1>2, ProgramShape
<1>4. ins \in 1..Len(prog)
  BY <1>1, <1>2, <1>3
<1>5. prog[ins] \in Insns
  BY <1>1, <1>4
<1> QED
  BY <1>4, <1>5 DEF Insns

\* Types are kept.
LEMMA TypeStep ==
    ASSUME IInv, [Next]_vars
    PROVE  TypeOK'
<1> USE DEF IInv
<1>1. CASE Merge
  <2>1. common \in Seq(Names)
    BY ListsAssumption DEF TypeOK
  <2>2. common[i] \in Names
    BY <1>1, <2>1 DEF Merge, TypeOK
  <2> QED
    BY <1>1, <2>2 DEF Merge, TypeOK, inputs, machine
<1>2. CASE MergeDone
  BY <1>2 DEF MergeDone, TypeOK, inputs, lists, machine
<1>3. CASE SkipUnknown
  <2>1. names[i] \in Names \ Known
    BY <1>3 DEF SkipUnknown, TypeOK
  <2> QED
    BY <1>3, <2>1 DEF SkipUnknown, TypeOK, inputs, machine
<1>4. CASE TakeNumber
  <2>1. Table[names[i]] \in Numbers
    BY <1>4 DEF TakeNumber, Numbers
  <2> QED
    BY <1>4, <2>1 DEF TakeNumber, TypeOK, inputs, machine
<1>5. CASE TranslateDone
  <2>1. errno \in Nat /\ numbers \in Seq(Numbers)
    BY ErrnoAssumption DEF TypeOK
  <2>2. BuildAllowlistFilter(numbers, errno) \in Seq(Insns)
    BY <2>1, ProgramShape
  <2> QED
    BY <1>5, <2>2 DEF TranslateDone, TypeOK, inputs, lists, machine
<1>6. CASE Install
  BY <1>6 DEF Install, TypeOK, inputs, lists, machine
<1>7. CASE Call
  BY <1>7 DEF Call, TypeOK, inputs, lists
<1>8. CASE ExecLoad
  <2>1. call.arch \in Nat /\ call.nr \in Nat
    BY CallAssumption DEF TypeOK
  <2> QED
    BY <1>8, <2>1 DEF ExecLoad, TypeOK, inputs, lists
<1>9. CASE ExecJeq
  <2>1. prog[ins].jt \in {0, 1} /\ prog[ins].jf \in {0, 1}
    BY <1>9, CurrentInsn DEF ExecJeq
  <2> QED
    BY <1>9, <2>1 DEF ExecJeq, TypeOK, inputs, lists
<1>10. CASE ExecRet
  <2>1. prog[ins].word \in Words
    BY <1>10, CurrentInsn DEF ExecRet
  <2> QED
    BY <1>10, <2>1 DEF ExecRet, TypeOK, inputs, lists
<1>11. CASE UNCHANGED vars
  BY <1>11 DEF vars, inputs, lists, machine, TypeOK
<1> QED
  BY <1>1, <1>2, <1>3, <1>4, <1>5, <1>6, <1>7, <1>8, <1>9, <1>10, <1>11 DEF Next

LEMMA DoneGrows ==
    ASSUME NEW S, NEW s \in Seq(S), NEW k \in Nat \ {0}, k <= Len(s)
    PROVE  Done(s, k + 1) = Done(s, k) \cup {s[k]}
<1>1. 1..((k + 1) - 1) = 1..(k - 1) \cup {k}
  OBVIOUS
<1> QED
  BY <1>1 DEF Done

LEMMA DoneAll ==
    ASSUME NEW S, NEW s \in Seq(S), NEW k \in Nat \ {0}, k > Len(s), k <= Len(s) + 1
    PROVE  Done(s, k) = Elements(s)
<1>1. 1..(k - 1) = DOMAIN s
  OBVIOUS
<1> QED
  BY <1>1 DEF Done, Elements

\* The lists: no entry is lost, none is added, no number twice.
LEMMA ListsStep ==
    ASSUME IInv, [Next]_vars
    PROVE  ListsInv'
<1> USE DEF IInv
<1>0. /\ names \in Seq(Names) /\ numbers \in Seq(Numbers) /\ common \in Seq(Names)
      /\ unknown \in Seq(Names \ Known) /\ i \in Nat \ {0}
  BY ListsAssumption DEF TypeOK
<1>1. CASE Merge
  <2>1. /\ stage = "merge" /\ i <= Len(common) /\ stage' = stage /\ i' = i + 1
        /\ names' = IF common[i] \in Elements(names) THEN names ELSE Append(names, common[i])
        /\ UNCHANGED <<defaults, common, numbers, unknown>>
    BY <1>1 DEF Merge, inputs
  <2>2. Elements(names') = Elements(names) \cup {common[i]}
    BY <2>1, <1>0, ElementsOfAppend
  <2>3. Done(common, i + 1) = Done(common, i) \cup {common[i]}
    BY <2>1, <1>0, DoneGrows
  <2>4. Elements(names') = Elements(defaults) \cup Done(common, i + 1)
    BY <2>1, <2>2, <2>3 DEF ListsInv
  <2> QED
    BY <2>1, <2>4, <1>0 DEF ListsInv
<1>2. CASE MergeDone
  <2>1. /\ stage = "merge" /\ i > Len(common) /\ stage' = "translate" /\ i' = 1
        /\ UNCHANGED <<defaults, common, names, numbers, unknown>>
    BY <1>2 DEF MergeDone, inputs, lists
  <2>2. Elements(names) = Elements(defaults) \cup Elements(common)
    BY <2>1, <1>0, DoneAll DEF ListsInv
  <2>3. Done(names, 1) = {} /\ Elements(numbers) = {} /\ Elements(unknown) = {}
    BY <2>1 DEF Done, Elements, ListsInv
  <2> QED
    BY <2>1, <2>2, <2>3, <1>0 DEF ListsInv
<1>3. CASE SkipUnknown
  <2>1. /\ stage = "translate" /\ i <= Len(names) /\ names[i] \notin Known
        /\ unknown' = Append(unknown, names[i]) /\ i' = i + 1
        /\ UNCHANGED <<defaults, common, stage, names, numbers>>
    BY <1>3 DEF SkipUnknown, inputs
  <2>2. Elements(unknown') = Elements(unknown) \cup {names[i]}
    BY <2>1, <1>0, ElementsOfAppend
  <2>3. Done(names, i + 1) = Done(names, i) \cup {names[i]}
    BY <2>1, <1>0, DoneGrows
  <2>4. /\ Elements(unknown') = Done(names, i + 1) \ Known
        /\ Done(names, i + 1) \cap Known = Done(names, i) \cap Known
    BY <2>1, <2>2, <2>3 DEF ListsInv
  <2>5. Elements(numbers) = {Table[n] : n \in Done(names, i + 1) \cap Known}
    BY <2>1, <2>4 DEF ListsInv
  <2> QED
    BY <2>1, <2>4, <2>5, <1>0 DEF ListsInv
<1>4. CASE TakeNumber
  <2>1. /\ stage = "translate" /\ i <= Len(names) /\ names[i] \in Known /\ i' = i + 1
        /\ numbers' = IF Table[names[i]] \in Elements(numbers) THEN numbers
                      ELSE Append(numbers, Table[names[i]])
        /\ UNCHANGED <<defaults, common, stage, names, unknown>>
    BY <1>4 DEF TakeNumber, inputs
  <2>2. Elements(numbers') = Elements(numbers) \cup {Table[names[i]]}
    BY <2>1, <1>0, ElementsOfAppend
  <2>3. Done(names, i + 1) = Done(names, i) \cup {names[i]}
    BY <2>1, <1>0, DoneGrows
  <2>4. /\ Elements(unknown) = Done(names, i + 1) \ Known
        /\ Done(names, i + 1) \cap Known = (Done(names, i) \cap Known) \cup {names[i]}
    BY <2>1, <2>3 DEF ListsInv
  <2>5. Elements(numbers') = {Table[n] : n \in Done(names, i + 1) \cap Known}
    BY <2>1, <2>2, <2>4 DEF ListsInv
  <2>6. \A j, k \in DOMAIN numbers' : numbers'[j] = numbers'[k] => j = k
    <3>1. CASE Table[names[i]] \in Elements(numbers)
      BY <2>1, <3>1 DEF ListsInv
    <3>2. CASE Table[names[i]] \notin Elements(numbers)
      <4> DEFINE x == Table[names[i]]
      <4>1. numbers' = Append(numbers, x) /\ \A j \in DOMAIN numbers : numbers[j] # x
        BY <2>1, <3>2 DEF Elements
      <4> HIDE DEF x
      <4>2. \A j \in DOMAIN numbers' : \/ j \in DOMAIN numbers /\ numbers'[j] = numbers[j]
                                       \/ j = Len(numbers) + 1 /\ numbers'[j] = x
        BY <4>1, <1>0
      <4> QED
        BY <4>1, <4>2 DEF ListsInv
    <3> QED
      BY <3>1, <3>2
  <2> QED
    BY <2>1, <2>4, <2>5, <2>6, <1>0 DEF ListsInv
<1>5. CASE TranslateDone
  BY <1>5 DEF TranslateDone, ListsInv, inputs, lists
<1>6. CASE Install
  BY <1>6 DEF Install, ListsInv, inputs, lists
<1>7. CASE Call \/ ExecLoad \/ ExecJeq \/ ExecRet \/ UNCHANGED vars
  <2>1. UNCHANGED <<defaults, common, stage, i, names, numbers, unknown>>
    BY <1>7 DEF Call, ExecLoad, ExecJeq, ExecRet, vars, inputs, lists
  <2> QED
    BY <2>1 DEF ListsInv
<1> QED
  BY <1>1, <1>2, <1>3, <1>4, <1>5, <1>6, <1>7 DEF Next

\* The program is built from complete lists, and the kernel takes it.
LEMMA ProgramStep ==
    ASSUME IInv, [Next]_vars
    PROVE  ProgramInv' /\ NeverRefused'
<1> USE DEF IInv
<1>0. names \in Seq(Names) /\ i \in Nat \ {0} /\ numbers \in Seq(Numbers) /\ errno \in Nat
  BY ErrnoAssumption DEF TypeOK
<1>1. CASE TranslateDone
  <2>1. /\ stage = "translate" /\ i > Len(names) /\ stage' = "build"
        /\ prog' = BuildAllowlistFilter(numbers, errno)
        /\ UNCHANGED <<defaults, common, errno, names, numbers, unknown>>
    BY <1>1 DEF TranslateDone, inputs, lists
  <2>2. Done(names, i) = Elements(defaults) \cup Elements(common)
    BY <2>1, <1>0, DoneAll DEF ListsInv
  <2>3. Done(names, i) \cap Known = Listed
    BY <2>2 DEF Listed
  <2>4. /\ Elements(numbers) = {Table[n] : n \in Listed}
        /\ Elements(unknown) = (Elements(defaults) \cup Elements(common)) \ Known
    BY <2>1, <2>2, <2>3 DEF ListsInv
  <2> QED
    BY <2>1, <2>4 DEF ProgramInv, NeverRefused, Listed
<1>2. CASE Install
  <2>1. /\ stage = "build" /\ stage' = (IF KernelAccepts(prog) THEN "ready" ELSE "refused")
        /\ UNCHANGED <<defaults, common, errno, numbers, unknown, prog>>
    BY <1>2 DEF Install, inputs, lists
  <2>2. prog = BuildAllowlistFilter(numbers, errno)
    BY <2>1 DEF ProgramInv
  <2>3. KernelAccepts(BuildAllowlistFilter(numbers, errno))
    BY <1>0, Accepted DEF ListsInv
  <2> QED
    BY <2>1, <2>2, <2>3 DEF ProgramInv, NeverRefused, Listed
<1>3. CASE Merge \/ MergeDone \/ SkipUnknown \/ TakeNumber
  BY <1>3 DEF Merge, MergeDone, SkipUnknown, TakeNumber, ProgramInv, NeverRefused
<1>4. CASE Call \/ ExecLoad \/ ExecJeq \/ ExecRet \/ UNCHANGED vars
  <2>1. UNCHANGED <<defaults, common, errno, stage, names, numbers, unknown, prog>>
    BY <1>4 DEF Call, ExecLoad, ExecJeq, ExecRet, vars, inputs, lists
  <2> QED
    BY <2>1 DEF ProgramInv, NeverRefused, Listed
<1> QED
  BY <1>1, <1>2, <1>3, <1>4 DEF Next

\* An instruction shows its kind.
LEMMA Opcodes ==
    /\ \A f : Load(f).op = "ld"
    /\ \A k, jt, jf : Jeq(k, jt, jf).op = "jeq"
    /\ \A w : Ret(w).op = "ret"
BY DEF Load, Jeq, Ret

\* What stands at the instruction the kernel has come to: one of the four of the
\* prologue, the two of number k, or the last return.
LEMMA Position ==
    ASSUME IInv, ins # 0
    PROVE  \/ ins = 1 /\ prog[ins] = Load("arch")
           \/ ins = 2 /\ prog[ins] = Jeq(X86_64, 1, 0)
           \/ ins = 3 /\ prog[ins] = Ret(RetKill)
           \/ ins = 4 /\ prog[ins] = Load("nr")
           \/ \E k \in 1..Len(numbers) : ins = 2 * k + 3 /\ prog[ins] = Jeq(numbers[k], 0, 1)
           \/ \E k \in 1..Len(numbers) : ins = 2 * k + 4 /\ prog[ins] = Ret(RetAllow)
           \/ ins = 2 * Len(numbers) + 5 /\ prog[ins] = Ret(RetErrno(errno))
<1>1. numbers \in Seq(Numbers) /\ errno \in Nat /\ ins \in Nat \ {0}
  BY ErrnoAssumption DEF IInv, TypeOK
<1>2. prog = BuildAllowlistFilter(numbers, errno) /\ ins <= 2 * Len(numbers) + 5
  BY DEF IInv, ProgramInv, MachineInv
<1>3. /\ prog[1] = Load("arch") /\ prog[2] = Jeq(X86_64, 1, 0)
      /\ prog[3] = Ret(RetKill) /\ prog[4] = Load("nr")
      /\ \A j \in 1..Len(numbers) : /\ prog[2 * j + 3] = Jeq(numbers[j], 0, 1)
                                    /\ prog[2 * j + 4] = Ret(RetAllow)
      /\ prog[2 * Len(numbers) + 5] = Ret(RetErrno(errno))
  BY <1>1, <1>2, ProgramShape
<1>4. Len(numbers) \in Nat
  BY <1>1
<1>5. CASE ins \in 1..4
  BY <1>5, <1>3
<1>6. CASE ins = 2 * Len(numbers) + 5
  BY <1>6, <1>3
<1>7. CASE ins > 4 /\ ins # 2 * Len(numbers) + 5
  <2> DEFINE k == (ins - 3) \div 2
  <2>1. ins \in Nat /\ ins - 3 \in 2..(2 * Len(numbers) + 1)
    BY <1>1, <1>2, <1>4, <1>7
  <2>2. k \in 1..Len(numbers) /\ (ins = 2 * k + 3 \/ ins = 2 * k + 4)
    BY <1>4, <2>1
  <2> HIDE DEF k
  <2>3. CASE ins = 2 * k + 3
    <3>1. prog[ins] = Jeq(numbers[k], 0, 1)
      BY <2>2, <2>3, <1>3, Zenon
    <3> QED
      BY <2>2, <2>3, <3>1, Zenon
  <2>4. CASE ins = 2 * k + 4
    <3>1. prog[ins] = Ret(RetAllow)
      BY <2>2, <2>4, <1>3, Zenon
    <3> QED
      BY <2>2, <2>4, <3>1, Zenon
  <2> QED
    BY <2>2, <2>3, <2>4
<1> QED
  BY <1>1, <1>5, <1>6, <1>7

\* The same for each kind of instruction.
LEMMA AtLoad ==
    ASSUME IInv, ins # 0, prog[ins].op = "ld"
    PROVE  \/ ins = 1 /\ prog[ins] = Load("arch")
           \/ ins = 4 /\ prog[ins] = Load("nr")
<1>1. \A k, jt, jf : prog[ins] # Jeq(k, jt, jf)
  BY Opcodes
<1>2. \A w : prog[ins] # Ret(w)
  BY Opcodes
<1> QED
  BY <1>1, <1>2, Position

LEMMA AtJump ==
    ASSUME IInv, ins # 0, prog[ins].op = "jeq"
    PROVE  \/ ins = 2 /\ prog[ins] = Jeq(X86_64, 1, 0)
           \/ \E k \in 1..Len(numbers) : ins = 2 * k + 3 /\ prog[ins] = Jeq(numbers[k], 0, 1)
<1>1. \A f : prog[ins] # Load(f)
  BY Opcodes
<1>2. \A w : prog[ins] # Ret(w)
  BY Opcodes
<1> QED
  BY <1>1, <1>2, Position

LEMMA AtReturn ==
    ASSUME IInv, ins # 0, prog[ins].op = "ret"
    PROVE  \/ ins = 3 /\ prog[ins] = Ret(RetKill)
           \/ \E k \in 1..Len(numbers) : ins = 2 * k + 4 /\ prog[ins] = Ret(RetAllow)
           \/ ins = 2 * Len(numbers) + 5 /\ prog[ins] = Ret(RetErrno(errno))
<1>1. \A f : prog[ins] # Load(f)
  BY Opcodes
<1>2. \A k, jt, jf : prog[ins] # Jeq(k, jt, jf)
  BY Opcodes
<1> QED
  BY <1>1, <1>2, Position

\* A load leaves the field in the accumulator, a jump what the test has shown.
LEMMA MachineStep ==
    ASSUME IInv, [Next]_vars
    PROVE  MachineInv'
<1>0. /\ numbers \in Seq(Numbers) /\ Len(numbers) \in Nat /\ ins \in Nat
      /\ \A j \in 1..Len(numbers) : numbers[j] \in Nat
  <2>1. numbers \in Seq(Numbers) /\ ins \in Nat
    BY DEF IInv, TypeOK
  <2>2. \A j \in 1..Len(numbers) : numbers[j] \in Numbers
    BY <2>1
  <2>3. \A j \in 1..Len(numbers) : numbers[j] \in Nat
    BY <2>2, TableAssumption
  <2> QED
    BY <2>1, <2>3
<1>1. CASE Call
  BY <1>1, <1>0 DEF Call, MachineInv, lists
<1>2. CASE ExecLoad
  <2>1. /\ ins # 0 /\ prog[ins].op = "ld" /\ ins' = ins + 1
        /\ acc' = (IF prog[ins].field = "arch" THEN call.arch ELSE call.nr)
        /\ UNCHANGED <<stage, numbers, call>>
    BY <1>2 DEF ExecLoad, lists
  <2>2. \/ ins = 1 /\ prog[ins] = Load("arch")
        \/ ins = 4 /\ prog[ins] = Load("nr")
    BY <2>1, AtLoad
  <2>3. \/ ins' = 2 /\ acc' = call.arch
        \/ ins' = 5 /\ acc' = call.nr /\ call.arch = X86_64
    <3>1. CASE ins = 1 /\ prog[ins] = Load("arch")
      BY <3>1, <2>1 DEF Load
    <3>2. CASE ins = 4 /\ prog[ins] = Load("nr")
      BY <3>2, <2>1 DEF Load, IInv, MachineInv
    <3> QED
      BY <2>2, <3>1, <3>2
  <2>4. stage = "ready"
    BY <2>1 DEF IInv, MachineInv
  <2> QED
    BY <2>1, <2>3, <2>4, <1>0 DEF MachineInv
<1>3. CASE ExecJeq
  <2>1. /\ ins # 0 /\ prog[ins].op = "jeq"
        /\ ins' = ins + 1 + IF acc = prog[ins].k THEN prog[ins].jt ELSE prog[ins].jf
        /\ UNCHANGED <<stage, numbers, call, acc>>
    BY <1>3 DEF ExecJeq, lists
  <2>2. stage = "ready"
    BY <2>1 DEF IInv, MachineInv
  <2>3. CASE ins = 2 /\ prog[ins] = Jeq(X86_64, 1, 0)
    <3>1. acc = call.arch
      BY <2>3 DEF IInv, MachineInv
    <3>2. prog[ins].k = X86_64 /\ prog[ins].jt = 1 /\ prog[ins].jf = 0
      BY <2>3 DEF Jeq
    <3>3. \/ ins' = 4 /\ call.arch = X86_64
          \/ ins' = 3 /\ call.arch # X86_64
      BY <2>1, <2>3, <3>1, <3>2
    <3> QED
      BY <2>1, <2>2, <3>3, <1>0 DEF MachineInv
  <2>4. ASSUME NEW k \in 1..Len(numbers), ins = 2 * k + 3, prog[ins] = Jeq(numbers[k], 0, 1)
        PROVE  MachineInv'
    <3>1. /\ acc = call.nr /\ call.arch = X86_64
          /\ \A j \in 1..Len(numbers) : ins > 2 * j + 4 => numbers[j] # call.nr
      BY <2>1, <2>4, <1>0 DEF IInv, MachineInv
    <3>2. prog[ins].k = numbers[k] /\ prog[ins].jt = 0 /\ prog[ins].jf = 1
      BY <2>4 DEF Jeq
    <3>3. \/ ins' = 2 * k + 4 /\ numbers[k] = call.nr
          \/ ins' = 2 * k + 5 /\ numbers[k] # call.nr
      BY <2>1, <2>4, <3>1, <3>2
    <3>4. \A j \in 1..Len(numbers) : j < k => numbers[j] # call.nr
      BY <2>4, <3>1
    <3>5. ASSUME NEW j \in 1..Len(numbers)
          PROVE  /\ ins' > 2 * j + 4 => numbers[j] # call.nr
                 /\ ins' = 2 * j + 4 => numbers[j] = call.nr
      <4>1. CASE j < k
        BY <4>1, <3>3, <3>4, <1>0
      <4>2. CASE j = k
        BY <4>2, <3>3, <1>0
      <4>3. CASE j > k
        BY <4>3, <3>3, <1>0
      <4> QED
        BY <4>1, <4>2, <4>3, <1>0
    <3>6. ins' >= 6 /\ ins' <= 2 * Len(numbers) + 5
      BY <3>3, <1>0
    <3> QED
      BY <2>1, <2>2, <3>1, <3>5, <3>6 DEF MachineInv
  <2> QED
    BY <2>1, <2>3, <2>4, AtJump
<1>4. CASE ExecRet
  BY <1>4 DEF ExecRet, MachineInv
<1>5. CASE Merge \/ MergeDone \/ SkipUnknown \/ TakeNumber \/ TranslateDone \/ Install
  <2>1. stage # "ready" /\ ins' = ins
    BY <1>5 DEF Merge, MergeDone, SkipUnknown, TakeNumber, TranslateDone, Install, machine
  <2> QED
    BY <2>1 DEF IInv, MachineInv
<1>6. CASE UNCHANGED vars
  BY <1>6 DEF IInv, MachineInv, vars, lists, machine
<1> QED
  BY <1>1, <1>2, <1>3, <1>4, <1>5, <1>6 DEF Next

\* The return that is reached is the right one.
LEMMA DecisionStep ==
    ASSUME IInv, [Next]_vars
    PROVE  DecisionRight'
<1>1. CASE ExecRet
  <2>1. /\ ins # 0 /\ prog[ins].op = "ret" /\ verdict' = prog[ins].word
        /\ UNCHANGED <<defaults, common, errno, call>>
    BY <1>1 DEF ExecRet, inputs
  <2>2. Elements(numbers) = {Table[n] : n \in Listed} /\ numbers \in Seq(Numbers)
    BY <2>1 DEF IInv, TypeOK, MachineInv, ProgramInv
  <2>3. /\ ins = 3 => call.arch # X86_64
        /\ ins >= 4 => call.arch = X86_64
        /\ \A j \in 1..Len(numbers) : /\ ins > 2 * j + 4 => numbers[j] # call.nr
                                      /\ ins = 2 * j + 4 => numbers[j] = call.nr
    BY <2>1 DEF IInv, MachineInv
  <2>4. verdict' = Decision(call)
    <3>1. CASE ins = 3 /\ prog[ins] = Ret(RetKill)
      BY <2>1, <2>3, <3>1 DEF Ret, Decision
    <3>2. ASSUME NEW k \in 1..Len(numbers), ins = 2 * k + 4, prog[ins] = Ret(RetAllow)
          PROVE  verdict' = Decision(call)
      <4>1. call.arch = X86_64 /\ numbers[k] = call.nr
        BY <2>3, <3>2
      <4>2. \E n \in Listed : Table[n] = call.nr
        BY <2>2, <4>1 DEF Elements
      <4> QED
        BY <2>1, <3>2, <4>1, <4>2 DEF Ret, Decision
    <3>3. CASE ins = 2 * Len(numbers) + 5 /\ prog[ins] = Ret(RetErrno(errno))
      <4>1. Len(numbers) \in Nat
        BY <2>2
      <4>2. call.arch = X86_64 /\ \A j \in 1..Len(numbers) : numbers[j] # call.nr
        BY <2>3, <3>3, <4>1
      <4>3. ~ \E n \in Listed : Table[n] = call.nr
        <5>1. call.nr \notin Elements(numbers)
          BY <2>2, <4>2 DEF Elements
        <5>2. \A n \in Listed : Table[n] \in Elements(numbers)
          BY <2>2
        <5> QED
          BY <5>1, <5>2
      <4>4. RetErrno(errno) = [act |-> "errno", errno |-> errno]
        BY ErrnoFits DEF IInv, TypeOK
      <4> QED
        BY <2>1, <3>3, <4>2, <4>3, <4>4 DEF Ret, Decision
    <3> QED
      BY <2>1, <3>1, <3>2, <3>3, AtReturn
  <2>5. Decision(call)' = Decision(call)
    BY <2>1 DEF Decision, Listed
  <2> QED
    BY <2>4, <2>5 DEF DecisionRight
<1>2. CASE Call \/ ExecLoad \/ ExecJeq
  <2>1. ins' # 0
    <3>1. CASE Call
      BY <3>1 DEF Call
    <3>2. CASE ExecLoad
      BY <3>2 DEF ExecLoad, IInv, TypeOK
    <3>3. CASE ExecJeq
      <4>1. prog[ins].jt \in {0, 1} /\ prog[ins].jf \in {0, 1}
        BY <3>3, CurrentInsn DEF ExecJeq
      <4> QED
        BY <3>3, <4>1 DEF ExecJeq, IInv, TypeOK
    <3> QED
      BY <1>2, <3>1, <3>2, <3>3
  <2> QED
    BY <2>1 DEF DecisionRight
<1>3. CASE \/ Merge \/ MergeDone \/ SkipUnknown \/ TakeNumber \/ TranslateDone \/ Install
           \/ UNCHANGED vars
  <2>1. UNCHANGED <<defaults, common, errno, call, ins, verdict>>
    BY <1>3 DEF Merge, MergeDone, SkipUnknown, TakeNumber, TranslateDone, Install,
                vars, inputs, machine
  <2> QED
    BY <2>1 DEF IInv, DecisionRight, Decision, Listed
<1> QED
  BY <1>1, <1>2, <1>3 DEF Next

-----------------------------------------------------------------------------
(* Theorems. *)

LEMMA FilterInvariant == Spec => []IInv
<1>1. Init => IInv
  <2> SUFFICES ASSUME Init PROVE IInv
    OBVIOUS
  <2>1. TypeOK
    <3>1. names \in Seq(Names)
      BY ListsAssumption DEF Init
    <3> QED
      BY <3>1 DEF Init, TypeOK
  <2>2. ListsInv
    <3>1. common \in Seq(Names)
      BY ListsAssumption DEF Init
    <3>2. Done(common, 1) = {}
      BY DEF Done
    <3> QED
      BY <3>1, <3>2 DEF Init, ListsInv
  <2> QED
    BY <2>1, <2>2 DEF Init, IInv, ProgramInv, MachineInv, NeverRefused, DecisionRight
<1>2. IInv /\ [Next]_vars => IInv'
  <2> SUFFICES ASSUME IInv, [Next]_vars PROVE IInv'
    OBVIOUS
  <2>1. TypeOK' /\ ListsInv' /\ MachineInv'
    BY TypeStep, ListsStep, MachineStep
  <2>2. ProgramInv' /\ NeverRefused' /\ DecisionRight'
    BY ProgramStep, DecisionStep
  <2> QED
    BY <2>1, <2>2 DEF IInv
<1> QED
  BY <1>1, <1>2, PTL DEF Spec

\* Every variable keeps its type.
THEOREM FilterTypeCorrect == Spec => []TypeOK
<1>1. IInv => TypeOK
  BY DEF IInv
<1> QED
  BY <1>1, FilterInvariant, PTL

\* Whatever the lists, each system call gets what they say.
THEOREM VerdictsAreRight == Spec => []DecisionRight
<1>1. IInv => DecisionRight
  BY DEF IInv
<1> QED
  BY <1>1, FilterInvariant, PTL

\* The kernel takes every program BuildAllowlistFilter can make of the table.
THEOREM ProgramIsAccepted == Spec => []NeverRefused
<1>1. IInv => NeverRefused
  BY DEF IInv
<1> QED
  BY <1>1, FilterInvariant, PTL

\* InstallSeccomp counts numbers and names what it does not know.
THEOREM ReportIsRight == Spec => []ReportRight
<1>1. IInv => ReportRight
  <2> SUFFICES ASSUME IInv, stage = "ready" PROVE ReportRight
    BY DEF ReportRight
  <2>1. /\ Elements(numbers) = {Table[n] : n \in Listed}
        /\ Elements(unknown) = (Elements(defaults) \cup Elements(common)) \ Known
    BY DEF IInv, ProgramInv
  <2>2. numbers \in Seq(Numbers) /\ Len(numbers) \in Nat
    BY DEF IInv, TypeOK
  <2>3. numbers \in Bijection(1..Len(numbers), Elements(numbers))
    <3>1. \A j, k \in 1..Len(numbers) : numbers[j] = numbers[k] => j = k
      BY <2>2 DEF IInv, ListsInv
    <3>2. numbers \in [1..Len(numbers) -> Elements(numbers)]
      BY <2>2 DEF Elements
    <3>3. \A x \in Elements(numbers) : \E j \in 1..Len(numbers) : numbers[j] = x
      BY <2>2 DEF Elements
    <3> QED
      BY <3>1, <3>2, <3>3 DEF Bijection, Injection, Surjection, IsInjective
  <2>4. Cardinality(Elements(numbers)) = Cardinality(1..Len(numbers))
    <3>1. ExistsBijection(1..Len(numbers), Elements(numbers))
      BY <2>3 DEF ExistsBijection
    <3>2. IsFiniteSet(1..Len(numbers))
      BY <2>2, FS_Interval
    <3> QED
      BY <3>1, <3>2, FS_Bijection
  <2>5. Cardinality(1..Len(numbers)) = IF 1 > Len(numbers) THEN 0 ELSE Len(numbers) - 1 + 1
    BY <2>2, FS_Interval
  <2>6. Cardinality(Elements(numbers)) = Len(numbers)
    BY <2>2, <2>4, <2>5
  <2> QED
    BY <2>1, <2>6 DEF ReportRight
<1> QED
  BY <1>1, FilterInvariant, PTL

\* While a call is filtered, the interpreter is at an instruction of the program,
\* and one it knows.
InProgram == ins # 0 => ins \in 1..Len(prog) /\ prog[ins].op \in {"ld", "jeq", "ret"}

\* It never goes back: after each instruction it is further on, or done.
OnlyForward == [][ins # 0 => ins' > ins \/ ins' = 0]_vars

\* No jump leaves the program or goes round in it, so every system call gets its
\* verdict after at most Len(prog) instructions, a limit the kernel counts on.
THEOREM CallsComeToEnd == Spec => []InProgram /\ OnlyForward
<1>1. IInv => InProgram
  <2> SUFFICES ASSUME IInv, ins # 0
               PROVE  ins \in 1..Len(prog) /\ prog[ins].op \in {"ld", "jeq", "ret"}
    BY DEF InProgram
  <2>1. ins \in 1..Len(prog) /\ prog \in Seq(Insns)
    BY CurrentInsn DEF IInv, TypeOK
  <2>2. prog[ins] \in Insns
    BY <2>1
  <2> QED
    BY <2>1, <2>2 DEF Insns
<1>2. IInv /\ [Next]_vars => [ins # 0 => ins' > ins \/ ins' = 0]_vars
  <2> SUFFICES ASSUME IInv, Next, ins # 0 PROVE ins' > ins \/ ins' = 0
    OBVIOUS
  <2>0. ins \in Nat
    BY DEF IInv, TypeOK
  <2>1. CASE ExecLoad
    BY <2>0, <2>1 DEF ExecLoad
  <2>2. CASE ExecJeq
    <3>1. prog[ins].jt \in {0, 1} /\ prog[ins].jf \in {0, 1}
      BY <2>2, CurrentInsn DEF ExecJeq
    <3> QED
      BY <2>0, <2>2, <3>1 DEF ExecJeq
  <2>3. CASE ExecRet
    BY <2>3 DEF ExecRet
  <2>4. stage = "ready"
    BY DEF IInv, MachineInv
  <2>5. CASE Merge \/ MergeDone \/ SkipUnknown \/ TakeNumber \/ TranslateDone \/ Install \/ Call
    BY <2>4, <2>5
    DEF Merge, MergeDone, SkipUnknown, TakeNumber, TranslateDone, Install, Call
  <2> QED
    BY <2>1, <2>2, <2>3, <2>5 DEF Next
<1> QED
  BY <1>1, <1>2, FilterInvariant, PTL DEF Spec, OnlyForward
=============================================================================
