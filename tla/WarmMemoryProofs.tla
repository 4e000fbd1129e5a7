-------------------------- MODULE WarmMemoryProofs --------------------------
(***************************************************************************)
(* What the warm memory and the search of smaps compute, proved for every  *)
(* size, every chunk, every magic and every list of mappings.              *)
(*                                                                         *)
(* Both are loops of the code, written as folds.  Induction is done on     *)
(* sets: a set of numbers that holds 0 and every successor of a member     *)
(* holds every number (SetInduction).  With it a fold over 1..n is shown   *)
(* to exist (FoldExists), its partial results become a sequence that the   *)
(* steps of the loop link (MemfdFold, SmapsFold), and the loop's           *)
(* invariant is an induction along that sequence.                          *)
(***************************************************************************)
EXTENDS WarmMemory, WellFoundedInduction, SequenceTheorems, TLAPS

-----------------------------------------------------------------------------
(* Induction and folds.                                                    *)

\* A nonempty set of natural numbers has a least element.
LEMMA LeastElement ==
  ASSUME NEW T \in SUBSET Nat, T # {}
  PROVE  \E n \in T : \A k \in T : n <= k
<1> DEFINE R == {p \in Nat \X Nat : p[1] < p[2]}
<1>1. OpToRel(<, Nat) = R
  BY Zenon DEF OpToRel
<1>2. IsWellFoundedOn(R, Nat)
  BY NatLessThanWellFounded, <1>1, Zenon
<1>3. PICK n \in T : \A k \in T : ~(<<k, n>> \in R)
  <2> HIDE DEF R
  <2> QED BY <1>2, WFMin, Zenon
<1>4. ASSUME NEW k \in T PROVE n <= k
  <2>1. <<k, n>> \in Nat \X Nat
    OBVIOUS
  <2>2. ~(k < n)
    BY <1>3, <2>1
  <2> QED
    BY <2>2
<1> QED
  BY <1>4

\* Induction: a set that holds 0 and the successor of each of its members holds
\* every natural number.
LEMMA SetInduction ==
  ASSUME NEW S, 0 \in S, \A n \in Nat : n \in S => n + 1 \in S
  PROVE  Nat \subseteq S
<1>1. SUFFICES ASSUME Nat \ S # {} PROVE FALSE
  OBVIOUS
<1>2. PICK n \in Nat \ S : \A k \in Nat \ S : n <= k
  BY <1>1, LeastElement
<1>3. n - 1 \in Nat /\ n - 1 \notin Nat \ S
  BY <1>2
<1> QED
  BY <1>2, <1>3

\* The maximum of a nonempty set of indices is in it, and bounds it.
LEMMA MaxOfInterval ==
  ASSUME NEW n \in Nat, NEW s \in SUBSET (1..n), s # {}
  PROVE  Max(s) \in s /\ \A i \in s : i <= Max(s)
<1> DEFINE T == {k \in Nat : n - k \in s}
<1>1. T # {} /\ T \in SUBSET Nat
  <2>1. PICK i \in s : TRUE
    OBVIOUS
  <2>2. n - i \in Nat /\ n - (n - i) = i
    BY <2>1
  <2> QED
    BY <2>2
<1>2. PICK k \in T : \A j \in T : k <= j
  <2> HIDE DEF T
  <2> QED BY <1>1, LeastElement
<1>3. ASSUME NEW i \in s PROVE i <= n - k
  <2>1. n - i \in Nat /\ n - (n - i) = i
    OBVIOUS
  <2>2. k <= n - i
    BY <2>1, <1>2
  <2> QED
    BY <2>2, <1>2
<1>4. n - k \in s /\ \A i \in s : n - k >= i
  BY <1>2, <1>3
<1> QED
  <2>1. \E x \in s : \A y \in s : x >= y
    BY <1>4
  <2>2. Max(s) \in s /\ \A y \in s : Max(s) >= y
    BY <2>1, Zenon DEF Max
  <2> QED
    BY <2>2

\* The left-to-right fold of step over 1..n from base, as a function of the
\* set of indices folded.
IsFold(g, n, base, step) ==
    \A s \in SUBSET (1..n) : g[s] = IF s = {} THEN base ELSE step[Max(s)][g[s \ {Max(s)}]]

\* A fold exists for every n: the function that folds sets of indices below n
\* is extended to the sets that hold n.
LEMMA FoldExists ==
  ASSUME NEW V, NEW base \in V, NEW step \in [Nat -> [V -> V]]
  PROVE  \A n \in Nat : \E g \in [SUBSET (1..n) -> V] : IsFold(g, n, base, step)
<1> DEFINE Folds(n, g) == IsFold(g, n, base, step)
           S == {n \in Nat : \E g \in [SUBSET (1..n) -> V] : Folds(n, g)}
<1> USE DEF IsFold
<1>1. 0 \in S
  <2>1. 1..0 = {}
    OBVIOUS
  <2>2. [s \in SUBSET (1..0) |-> base] \in [SUBSET (1..0) -> V]
    OBVIOUS
  <2>3. Folds(0, [s \in SUBSET (1..0) |-> base])
    BY <2>1
  <2> HIDE DEF Folds
  <2> QED
    BY <2>2, <2>3
<1>2. ASSUME NEW n \in Nat, n \in S PROVE n + 1 \in S
  <2>1. PICK g \in [SUBSET (1..n) -> V] : Folds(n, g)
    BY <1>2
  <2> DEFINE h == [s \in SUBSET (1..(n + 1)) |->
                     IF n + 1 \in s THEN step[n + 1][g[s \ {n + 1}]] ELSE g[s]]
  <2>2. ASSUME NEW s \in SUBSET (1..(n + 1))
        PROVE  s \ {n + 1} \in SUBSET (1..n) /\ (n + 1 \notin s => s \in SUBSET (1..n))
    BY <1>2
  <2>3. h \in [SUBSET (1..(n + 1)) -> V]
    BY <2>2, <1>2
  <2>4. ASSUME NEW s \in SUBSET (1..(n + 1))
        PROVE  h[s] = IF s = {} THEN base ELSE step[Max(s)][h[s \ {Max(s)}]]
    <3>1. CASE s = {}
      BY <3>1, <2>1, <2>2
    <3>2. CASE s # {} /\ n + 1 \in s
      <4>1. Max(s) = n + 1
        <5> HIDE DEF h, Folds, S
        <5>1. n + 1 \in Nat
          OBVIOUS
        <5>2. Max(s) \in s /\ \A i \in s : i <= Max(s)
          BY <5>1, <3>2, MaxOfInterval, Zenon
        <5>3. Max(s) \in 1..(n + 1)
          BY <5>2
        <5> QED
          BY <5>2, <5>3, <3>2
      <4>2. h[s \ {n + 1}] = g[s \ {n + 1}]
        BY <2>2
      <4> QED
        BY <3>2, <4>1, <4>2
    <3>3. CASE s # {} /\ n + 1 \notin s
      <4>1. s \in SUBSET (1..n) /\ Max(s) \in s
        BY <2>2, <3>3, MaxOfInterval
      <4>2. g[s] = step[Max(s)][g[s \ {Max(s)}]]
        BY <4>1, <3>3, <2>1
      <4>3. h[s] = g[s] /\ h[s \ {Max(s)}] = g[s \ {Max(s)}]
        <5>1. s \ {Max(s)} \in SUBSET (1..(n + 1)) /\ n + 1 \notin s \ {Max(s)}
          BY <3>3
        <5> QED
          BY <5>1, <3>3
      <4> QED
        BY <3>3, <4>2, <4>3
    <3> QED
      BY <3>1, <3>2, <3>3
  <2>5. Folds(n + 1, h)
    BY <2>4
  <2> HIDE DEF h, Folds
  <2> QED
    BY <2>3, <2>5, <1>2
<1>3. Nat \subseteq S
  <2> HIDE DEF S
  <2> QED BY <1>1, <1>2, SetInduction
<1> QED
  BY <1>3

\* The last index of a prefix, and what is left without it.
LEMMA PrefixMax ==
  ASSUME NEW k \in Nat \ {0}
  PROVE  1..k # {} /\ Max(1..k) = k /\ (1..k) \ {k} = 1..(k - 1)
<1>1. 1..k # {} /\ (1..k) \ {k} = 1..(k - 1) /\ k \in 1..k
  OBVIOUS
<1>2. Max(1..k) \in 1..k /\ \A i \in 1..k : i <= Max(1..k)
  BY <1>1, MaxOfInterval
<1> QED
  BY <1>1, <1>2

-----------------------------------------------------------------------------
(* CreateWarmMemfd and VerifyWarmPattern.                                  *)

\* The number of writes.
Writes(size) == (size + Chunk - 1) \div Chunk

\* The writes cover the size, and each starts before its end.
LEMMA WritesCover ==
  ASSUME NEW size \in Nat
  PROVE  /\ Writes(size) \in Nat
         /\ size <= Writes(size) * Chunk
         /\ \A k \in 1..Writes(size) : (k - 1) * Chunk < size
<1>1. Chunk \in Nat /\ Chunk > 0
  BY ChunkAssumption
<1> DEFINE a == size + Chunk - 1
<1>2. a \in Nat
  BY <1>1
<1> HIDE DEF a
<1>3. a \div Chunk \in Nat /\ Chunk * (a \div Chunk) <= a /\ a < Chunk * (a \div Chunk) + Chunk
  BY <1>1, <1>2
<1>4. Writes(size) \in Nat /\ size <= Writes(size) * Chunk /\ Writes(size) * Chunk <= size + Chunk - 1
  BY <1>1, <1>3 DEF Writes, a
<1>5. ASSUME NEW k \in 1..Writes(size) PROVE (k - 1) * Chunk < size
  <2>1. (k - 1) * Chunk <= (Writes(size) - 1) * Chunk
    BY <1>1, <1>4
  <2>2. (Writes(size) - 1) * Chunk = Writes(size) * Chunk - Chunk
    BY <1>1, <1>4
  <2>3. (k - 1) * Chunk \in Int /\ Writes(size) * Chunk \in Int
    BY <1>1, <1>4
  <2> QED
    BY <1>1, <1>4, <2>1, <2>2, <2>3
<1> QED
  BY <1>4, <1>5

\* The fold that appends pieces, as the definition of FoldLeft asks for it.
LEMMA AppendExists ==
  ASSUME NEW n \in Nat, NEW piece \in [Nat -> Seq(Nat)]
  PROVE  \E g : g = [s \in SUBSET (1..n) |->
                       IF s = {} THEN <<>> ELSE g[s \ {Max(s)}] \o piece[Max(s)]]
<1> DEFINE V == Seq(Nat)
           step == [k \in Nat |-> [out \in V |-> out \o piece[k]]]
<1>1. <<>> \in V /\ step \in [Nat -> [V -> V]]
  OBVIOUS
<1>2. PICK g \in [SUBSET (1..n) -> V] : IsFold(g, n, <<>>, step)
  <2> HIDE DEF step, V
  <2> QED
    BY <1>1, FoldExists
<1>3. ASSUME NEW s \in SUBSET (1..n), s # {}
      PROVE  step[Max(s)][g[s \ {Max(s)}]] = g[s \ {Max(s)}] \o piece[Max(s)]
  <2>1. Max(s) \in Nat
    <3>1. Max(s) \in 1..n
      BY <1>3, MaxOfInterval
    <3> QED
      BY <3>1
  <2>2. s \ {Max(s)} \in SUBSET (1..n)
    OBVIOUS
  <2>3. g[s \ {Max(s)}] \in V
    <3> HIDE DEF V, step
    <3> QED BY <2>2
  <2> QED
    BY <2>1, <2>3
<1>4. g = [s \in SUBSET (1..n) |-> IF s = {} THEN <<>> ELSE g[s \ {Max(s)}] \o piece[Max(s)]]
  <2> HIDE DEF step, V
  <2> QED BY <1>2, <1>3 DEF IsFold
<1> QED
  BY <1>4

\* A chunk is a sequence of bytes, whatever it starts at.
LEMMA ChunkType ==
  ASSUME NEW written \in Int, NEW size \in Nat
  PROVE  ChunkAt(written, size) \in Seq(Nat)
<1> DEFINE m == IF size - written > Chunk THEN Chunk ELSE size - written
<1>1. m \in Int
  BY ChunkAssumption
<1>2. ASSUME NEW i \in 1..m PROVE WarmPatternByte(written + i - 1) \in Nat
  BY <1>1 DEF WarmPatternByte
<1>3. CASE m < 0
  <2>1. 1..m = {} /\ 1..0 = {}
    BY <1>1, <1>3
  <2>2. ChunkAt(written, size) = [i \in 1..0 |-> WarmPatternByte(written + i - 1)]
    BY <2>1 DEF ChunkAt
  <2> QED
    BY <2>1, <2>2
<1>4. CASE m >= 0
  <2>1. ChunkAt(written, size) = [i \in 1..m |-> WarmPatternByte(written + i - 1)]
    BY DEF ChunkAt
  <2> HIDE DEF m
  <2> QED
    BY <1>1, <1>2, <1>4, <2>1
<1> QED
  BY <1>1, <1>3, <1>4

\* CreateWarmMemfd's loop: what has been written after each write.
LEMMA MemfdFold ==
  ASSUME NEW size \in Nat
  PROVE  \E w :
           /\ w[0] = <<>>
           /\ \A k \in 1..Writes(size) : w[k] = w[k - 1] \o ChunkAt((k - 1) * Chunk, size)
           /\ CreateWarmMemfd(size) = WarmMagic \o <<size>> \o w[Writes(size)]
<1> DEFINE N == Writes(size)
           seq == [k \in 1..N |-> k - 1]
           piece == [k \in Nat |-> ChunkAt((k - 1) * Chunk, size)]
           body(g) == [s \in SUBSET (1..N) |->
                         IF s = {} THEN <<>>
                         ELSE g[s \ {Max(s)}] \o ChunkAt(seq[Max(s)] * Chunk, size)]
           iter == CHOOSE g : g = body(g)
<1>1. N \in Nat /\ Chunk \in Nat
  BY WritesCover, ChunkAssumption
<1>2. piece \in [Nat -> Seq(Nat)]
  <2>1. ASSUME NEW k \in Nat PROVE ChunkAt((k - 1) * Chunk, size) \in Seq(Nat)
    <3>1. (k - 1) * Chunk \in Int
      BY <1>1
    <3> QED
      BY <3>1, ChunkType
  <2> QED
    BY <2>1
<1>3. \E g : g = body(g)
  <2>1. PICK g : g = [s \in SUBSET (1..N) |->
                        IF s = {} THEN <<>> ELSE g[s \ {Max(s)}] \o piece[Max(s)]]
    <3> HIDE DEF piece, N
    <3> QED BY <1>1, <1>2, AppendExists
  <2>2. ASSUME NEW s \in SUBSET (1..N), s # {}
        PROVE  piece[Max(s)] = ChunkAt(seq[Max(s)] * Chunk, size)
    <3>1. Max(s) \in 1..N
      BY <2>2, <1>1, MaxOfInterval
    <3> QED
      BY <3>1, <1>1
  <2>3. g = body(g)
    <3> HIDE DEF piece, seq
    <3> QED BY <2>1, <2>2
  <2> HIDE DEF body
  <2> QED
    BY <2>3
<1>4. iter = body(iter)
  <2> HIDE DEF body
  <2> QED BY <1>3
<1>5. FoldLeft(LAMBDA out, k : out \o ChunkAt(k * Chunk, size), <<>>, seq) = iter[1..N]
  BY DEF FoldLeft, MapThenFoldSet
<1> DEFINE w == [k \in 0..N |-> iter[1..k]]
<1>6. w[0] = <<>>
  <2>1. 1..0 = {}
    OBVIOUS
  <2> HIDE DEF iter
  <2> QED BY <1>1, <1>4, <2>1
<1>7. ASSUME NEW k \in 1..N
      PROVE  w[k] = w[k - 1] \o ChunkAt((k - 1) * Chunk, size)
  <2> HIDE DEF iter
  <2>1. 1..k # {} /\ Max(1..k) = k /\ (1..k) \ {k} = 1..(k - 1) /\ 1..k \in SUBSET (1..N)
    BY <1>1, PrefixMax
  <2>2. seq[k] = k - 1
    OBVIOUS
  <2>3. iter[1..k] = iter[1..(k - 1)] \o ChunkAt((k - 1) * Chunk, size)
    <3> HIDE DEF seq, N
    <3> QED BY <1>4, <2>1, <2>2
  <2>4. w[k] = iter[1..k] /\ w[k - 1] = iter[1..(k - 1)]
    BY <1>1
  <2> HIDE DEF w
  <2> QED BY <2>3, <2>4
<1>8. CreateWarmMemfd(size) = WarmMagic \o <<size>> \o w[N]
  <2> HIDE DEF iter
  <2>1. w[N] = iter[1..N]
    BY <1>1
  <2> QED BY <1>5, <2>1 DEF CreateWarmMemfd, Writes
<1> HIDE DEF w
<1> QED
  BY <1>6, <1>7, <1>8

\* The first m bytes of the pattern.
Pattern(m) == [i \in 1..m |-> WarmPatternByte(i - 1)]

\* The pattern as a sequence.
LEMMA PatternType ==
  ASSUME NEW m \in Nat
  PROVE  /\ Pattern(m) \in Seq(Nat) /\ Len(Pattern(m)) = m
         /\ \A i \in 1..m : Pattern(m)[i] = WarmPatternByte(i - 1)
<1>1. ASSUME NEW i \in 1..m PROVE WarmPatternByte(i - 1) \in Nat
  BY DEF WarmPatternByte
<1> QED
  BY <1>1 DEF Pattern

\* The loop's step: a chunk continues the pattern exactly where it stands, and
\* the last chunk stops at the size.
LEMMA ChunkAppends ==
  ASSUME NEW size \in Nat, NEW m \in 0..size
  PROVE  Pattern(m) \o ChunkAt(m, size) =
           Pattern(IF size - m > Chunk THEN m + Chunk ELSE size)
<1> DEFINE d == IF size - m > Chunk THEN Chunk ELSE size - m
<1>1. d \in Nat /\ m \in Nat /\ m + d \in Nat
  BY ChunkAssumption
<1>2. ChunkAt(m, size) \in Seq(Nat) /\ Len(ChunkAt(m, size)) = d
  <2>1. ChunkAt(m, size) \in Seq(Nat)
    BY ChunkType
  <2>2. DOMAIN ChunkAt(m, size) = 1..d
    BY DEF ChunkAt
  <2> HIDE DEF d
  <2> QED BY <1>1, <2>1, <2>2
<1>3. ASSUME NEW i \in 1..d PROVE ChunkAt(m, size)[i] = WarmPatternByte(m + i - 1)
  BY DEF ChunkAt
<1> HIDE DEF d
<1>4. Pattern(m) \o ChunkAt(m, size) = Pattern(m + d)
  <2> DEFINE s == Pattern(m)
             t == ChunkAt(m, size)
  <2>1. s \in Seq(Nat) /\ Len(s) = m /\ \A i \in 1..m : s[i] = WarmPatternByte(i - 1)
    BY <1>1, PatternType
  <2>2. t \in Seq(Nat) /\ Len(t) = d /\ \A i \in 1..d : t[i] = WarmPatternByte(m + i - 1)
    BY <1>2, <1>3
  <2>3. Pattern(m + d) \in Seq(Nat) /\ Len(Pattern(m + d)) = m + d
        /\ \A i \in 1..(m + d) : Pattern(m + d)[i] = WarmPatternByte(i - 1)
    BY <1>1, PatternType
  <2> HIDE DEF s, t
  <2>4. /\ s \o t \in Seq(Nat) /\ Len(s \o t) = m + d
        /\ \A i \in 1..(m + d) : (s \o t)[i] = IF i <= m THEN s[i] ELSE t[i - m]
    BY <2>1, <2>2, ConcatProperties
  <2>5. ASSUME NEW i \in 1..(m + d) PROVE (s \o t)[i] = WarmPatternByte(i - 1)
    <3>1. CASE i <= m
      BY <3>1, <1>1, <2>1, <2>4
    <3>2. CASE ~(i <= m)
      <4>1. i - m \in 1..d /\ m + (i - m) - 1 = i - 1
        BY <3>2, <1>1
      <4>2. (s \o t)[i] = t[i - m]
        BY <3>2, <1>1, <2>4
      <4>3. t[i - m] = WarmPatternByte(m + (i - m) - 1)
        BY <4>1, <2>2
      <4> QED
        BY <4>1, <4>2, <4>3
    <3> QED
      BY <3>1, <3>2
  <2>6. s \o t = Pattern(m + d)
    <3> DEFINE p == Pattern(m + d)
               q == s \o t
    <3>1. /\ p \in Seq(Nat) /\ q \in Seq(Nat) /\ Len(p) = Len(q)
          /\ \A i \in 1..Len(q) : q[i] = p[i]
      BY <2>3, <2>4, <2>5
    <3> HIDE DEF p, q
    <3>2. q = p
      BY <3>1, SeqEqual
    <3> QED
      BY <3>2 DEF p, q
  <2> QED
    BY <2>6 DEF s, t
<1> QED
  BY <1>4, <1>1 DEF d

\* What CreateWarmMemfd has written is the header and the pattern, whatever the
\* size of a write: no byte is skipped, doubled or shifted at a chunk's edge.
LEMMA MemfdIsPattern ==
  ASSUME NEW size \in Nat
  PROVE  CreateWarmMemfd(size) = WarmMagic \o <<size>> \o Pattern(size)
<1> DEFINE N == Writes(size)
           upto(k) == IF k * Chunk < size THEN k * Chunk ELSE size
<1>1. PICK w : /\ w[0] = <<>>
               /\ \A k \in 1..N : w[k] = w[k - 1] \o ChunkAt((k - 1) * Chunk, size)
               /\ CreateWarmMemfd(size) = WarmMagic \o <<size>> \o w[N]
  BY MemfdFold
<1>2. N \in Nat /\ Chunk \in Nat /\ size <= N * Chunk /\ \A k \in 1..N : (k - 1) * Chunk < size
  BY WritesCover, ChunkAssumption
<1> DEFINE S == {k \in Nat : k <= N => w[k] = Pattern(upto(k))}
<1> HIDE DEF N
<1>3. 0 \in S
  <2>1. upto(0) = 0
    BY <1>2
  <2>2. Pattern(0) = <<>>
    BY DEF Pattern
  <2> QED
    BY <2>1, <2>2, <1>1
<1>4. ASSUME NEW k \in Nat, k \in S PROVE k + 1 \in S
  <2>1. SUFFICES ASSUME k + 1 <= N PROVE w[k + 1] = Pattern(upto(k + 1))
    OBVIOUS
  <2>2. k + 1 \in 1..N /\ (k + 1) - 1 = k
    BY <2>1, <1>2
  <2>3. k * Chunk < size
    BY <2>2, <1>2
  <2>4. k * Chunk \in Nat /\ (k + 1) * Chunk = k * Chunk + Chunk
    BY <1>2
  <2>5. w[k] = Pattern(k * Chunk)
    BY <1>4, <2>1, <2>3, <1>2
  <2>6. w[k + 1] = w[k] \o ChunkAt(k * Chunk, size)
    BY <1>1, <2>2
  <2> DEFINE m == k * Chunk
  <2>7. Pattern(m) \o ChunkAt(m, size) = Pattern(IF size - m > Chunk THEN m + Chunk ELSE size)
    <3>1. m \in 0..size
      BY <2>3, <2>4
    <3> HIDE DEF m
    <3> QED BY <3>1, ChunkAppends
  <2>8. upto(k + 1) = IF size - m > Chunk THEN m + Chunk ELSE size
    BY <2>3, <2>4, <1>2
  <2> QED
    BY <2>5, <2>6, <2>7, <2>8
<1>5. w[N] = Pattern(size)
  <2>1. N \in S
    <3> HIDE DEF S
    <3> QED BY <1>2, <1>3, <1>4, SetInduction
  <2>2. upto(N) = size
    BY <1>2
  <2> QED
    BY <2>1, <2>2, <1>2
<1> QED
  BY <1>1, <1>5 DEF N


\* The magic and the header that holds it.
LEMMA MagicType ==
  /\ WarmMagic \in Seq(Nat) /\ Len(WarmMagic) \in Nat
  /\ HeaderSize \in Nat /\ HeaderSize >= 1 /\ Len(WarmMagic) = HeaderSize - 1
BY MagicAssumption DEF HeaderSize

\* What a memfd of the mother is made of, cell by cell.
LEMMA MemfdCells ==
  ASSUME NEW size \in Nat
  PROVE  LET region == CreateWarmMemfd(size)
         IN  /\ region \in Seq(Nat) /\ Len(region) = HeaderSize + size
             /\ SubSeq(region, 1, Len(WarmMagic)) = WarmMagic
             /\ region[HeaderSize] = size
             /\ \A i \in 0..(size - 1) : region[HeaderSize + 1 + i] = WarmPatternByte(i)
<1> DEFINE p == Pattern(size)
           region == WarmMagic \o <<size>> \o p
<1>1. /\ p \in Seq(Nat) /\ Len(p) = size
      /\ \A i \in 1..size : p[i] = WarmPatternByte(i - 1)
  BY PatternType
<1>2. WarmMagic \in Seq(Nat) /\ Len(WarmMagic) \in Nat
  BY MagicType
<1>3. <<size>> \in Seq(Nat) /\ Len(<<size>>) = 1 /\ <<size>>[1] = size
  OBVIOUS
<1> HIDE DEF p
<1> DEFINE head == WarmMagic \o <<size>>
<1>4. /\ head \in Seq(Nat) /\ Len(head) = HeaderSize
      /\ \A i \in 1..Len(WarmMagic) : head[i] = WarmMagic[i]
      /\ head[HeaderSize] = size
  <2> DEFINE one == <<size>>
  <2>1. one \in Seq(Nat) /\ Len(one) = 1 /\ one[1] = size
    BY <1>3
  <2> HIDE DEF one
  <2>2. /\ WarmMagic \o one \in Seq(Nat) /\ Len(WarmMagic \o one) = Len(WarmMagic) + 1
        /\ \A i \in 1..(Len(WarmMagic) + 1) : (WarmMagic \o one)[i] =
              IF i <= Len(WarmMagic) THEN WarmMagic[i] ELSE one[i - Len(WarmMagic)]
    <3>1. /\ WarmMagic \o one \in Seq(Nat) /\ Len(WarmMagic \o one) = Len(WarmMagic) + Len(one)
          /\ \A i \in 1..(Len(WarmMagic) + Len(one)) : (WarmMagic \o one)[i] =
                IF i <= Len(WarmMagic) THEN WarmMagic[i] ELSE one[i - Len(WarmMagic)]
      <4> HIDE DEF head, region
      <4> QED BY <1>2, <2>1, ConcatProperties
    <3> QED
      BY <3>1, <2>1
  <2>3. (WarmMagic \o one)[Len(WarmMagic) + 1] = size
    BY <1>2, <2>1, <2>2
  <2>4. \A i \in 1..Len(WarmMagic) : (WarmMagic \o one)[i] = WarmMagic[i]
    BY <1>2, <2>2
  <2> QED
    BY <2>2, <2>3, <2>4 DEF HeaderSize, one
<1>5. HeaderSize \in Nat /\ HeaderSize >= 1 /\ Len(WarmMagic) = HeaderSize - 1
  BY MagicType
<1> HIDE DEF head, region
<1>6. /\ head \o p \in Seq(Nat) /\ Len(head \o p) = HeaderSize + size
      /\ \A i \in 1..(HeaderSize + size) : (head \o p)[i] =
            IF i <= HeaderSize THEN head[i] ELSE p[i - HeaderSize]
  <2>1. /\ head \o p \in Seq(Nat) /\ Len(head \o p) = Len(head) + Len(p)
        /\ \A i \in 1..(Len(head) + Len(p)) : (head \o p)[i] =
              IF i <= Len(head) THEN head[i] ELSE p[i - Len(head)]
    BY <1>1, <1>4, ConcatProperties
  <2> QED
    BY <2>1, <1>1, <1>4
<1>7. region = head \o p
  BY DEF head, region
<1>8. \A i \in 0..(size - 1) : (head \o p)[HeaderSize + 1 + i] = WarmPatternByte(i)
  <2> TAKE i \in 0..(size - 1)
  <2>1. /\ HeaderSize + 1 + i \in 1..(HeaderSize + size) /\ ~(HeaderSize + 1 + i <= HeaderSize)
        /\ (HeaderSize + 1 + i) - HeaderSize = i + 1
        /\ i + 1 \in 1..size /\ (i + 1) - 1 = i
    BY <1>5
  <2>2. (head \o p)[HeaderSize + 1 + i] = p[i + 1]
    BY <2>1, <1>6
  <2>3. p[i + 1] = WarmPatternByte(i)
    BY <2>1, <1>1
  <2> QED
    BY <2>2, <2>3
<1>9. (head \o p)[HeaderSize] = size
  BY <1>4, <1>5, <1>6
<1>10. SubSeq(head \o p, 1, Len(WarmMagic)) = WarmMagic
  <2> DEFINE q == head \o p
  <2>1. /\ q \in Seq(Nat) /\ Len(q) = HeaderSize + size
        /\ \A i \in 1..Len(WarmMagic) : q[i] = WarmMagic[i]
    BY <1>4, <1>5, <1>6
  <2> HIDE DEF q
  <2>2. /\ SubSeq(q, 1, Len(WarmMagic)) \in Seq(Nat)
        /\ Len(SubSeq(q, 1, Len(WarmMagic))) = Len(WarmMagic)
        /\ \A i \in 1..Len(WarmMagic) : SubSeq(q, 1, Len(WarmMagic))[i] = q[i]
    BY <2>1, <1>2, <1>5
  <2>3. SubSeq(q, 1, Len(WarmMagic)) = WarmMagic
    BY <1>2, <2>1, <2>2, SeqEqual
  <2> QED
    BY <2>3 DEF q
<1>11. CreateWarmMemfd(size) = head \o p
  BY <1>7, MemfdIsPattern DEF p, region
<1> QED
  BY <1>6, <1>8, <1>9, <1>10, <1>11

\* VerifyWarmPattern tells a payload that matches from one that does not, and
\* returns the first offset that differs: every region, not only what
\* CreateWarmMemfd has written, as far as it goes and its header says.
THEOREM VerifyFindsFirst ==
  ASSUME NEW held \in Nat, NEW size \in Nat, NEW region, NEW compared \in Nat,
         Len(region) = HeaderSize + held, WarmPayloadSize(region) = size,
         compared = IF held < size THEN held ELSE size
  PROVE  LET wrong == {i \in 0..(compared - 1) :
                         region[HeaderSize + 1 + i] # WarmPatternByte(i)}
         IN  /\ wrong = {} => VerifyWarmPattern(region) = -1
             /\ wrong # {} => /\ VerifyWarmPattern(region) \in wrong
                              /\ \A j \in wrong : VerifyWarmPattern(region) <= j
<1> DEFINE wrong == {i \in 0..(compared - 1) :
                       region[HeaderSize + 1 + i] # WarmPatternByte(i)}
<1>1. HeaderSize \in Nat
  BY MagicType
<1>2. Len(region) - HeaderSize = held
  BY <1>1
<1>3. VerifyWarmPattern(region) =
        IF wrong = {} THEN -1 ELSE CHOOSE i \in wrong : \A j \in wrong : i <= j
  <2> DEFINE rest  == Len(region) - HeaderSize
             upTo  == IF rest < WarmPayloadSize(region) THEN rest
                      ELSE WarmPayloadSize(region)
  <2>1. upTo = compared
    BY <1>2
  <2>2. VerifyWarmPattern(region) =
          LET differ == {i \in 0..(upTo - 1) :
                           region[HeaderSize + 1 + i] # WarmPatternByte(i)}
          IN  IF differ = {} THEN -1 ELSE CHOOSE i \in differ : \A j \in differ : i <= j
    BY DEF VerifyWarmPattern
  <2> HIDE DEF upTo
  <2> QED
    BY <2>1, <2>2
<1>4. wrong \in SUBSET Nat
  OBVIOUS
<1> HIDE DEF wrong
<1>5. ASSUME wrong # {}
      PROVE  VerifyWarmPattern(region) \in wrong /\ \A j \in wrong : VerifyWarmPattern(region) <= j
  <2>1. \E i \in wrong : \A j \in wrong : i <= j
    BY <1>4, <1>5, LeastElement
  <2> QED
    BY <1>3, <1>5, <2>1, Zenon
<1>6. wrong = {} => VerifyWarmPattern(region) = -1
  BY <1>3
<1> QED
  BY <1>5, <1>6 DEF wrong

\* What CreateWarmMemfd writes MapWarm accepts and VerifyWarmPattern passes, and
\* a wrong byte anywhere in the payload is found where it is: for every size,
\* every chunk and every magic.
THEOREM WarmRoundTrip ==
  ASSUME NEW size \in Nat
  PROVE  LET region == CreateWarmMemfd(size)
         IN  /\ Mappable(region) /\ Len(region) = HeaderSize + size
             /\ WarmPayloadSize(region) = size /\ VerifyWarmPattern(region) = -1
             /\ \A i \in 0..(size - 1), b \in Nat : b # WarmPatternByte(i) =>
                  VerifyWarmPattern([region EXCEPT ![HeaderSize + 1 + i] = b]) = i
<1> DEFINE region == CreateWarmMemfd(size)
<1>1. /\ region \in Seq(Nat) /\ Len(region) = HeaderSize + size
      /\ SubSeq(region, 1, Len(WarmMagic)) = WarmMagic
      /\ region[HeaderSize] = size
      /\ \A i \in 0..(size - 1) : region[HeaderSize + 1 + i] = WarmPatternByte(i)
  BY MemfdCells
<1> HIDE DEF region
<1>2. Mappable(region) /\ WarmPayloadSize(region) = size
  BY <1>1, MagicType DEF Mappable, WarmPayloadSize
<1>3. VerifyWarmPattern(region) = -1
  BY <1>1, <1>2, VerifyFindsFirst
<1>4. ASSUME NEW i \in 0..(size - 1), NEW b \in Nat, b # WarmPatternByte(i)
      PROVE  VerifyWarmPattern([region EXCEPT ![HeaderSize + 1 + i] = b]) = i
  <2> DEFINE other == [region EXCEPT ![HeaderSize + 1 + i] = b]
             wrong == {j \in 0..(size - 1) : other[HeaderSize + 1 + j] # WarmPatternByte(j)}
  <2>1. HeaderSize \in Nat /\ HeaderSize >= 1
    BY MagicType
  <2>2. DOMAIN region = 1..(HeaderSize + size)
    BY <1>1
  <2>3. /\ Len(other) = HeaderSize + size /\ other[HeaderSize] = size
        /\ \A j \in 0..(size - 1) :
             other[HeaderSize + 1 + j] = IF j = i THEN b ELSE WarmPatternByte(j)
    <3>1. other \in Seq(Nat) /\ Len(other) = HeaderSize + size
      <4>1. HeaderSize + 1 + i \in 1..Len(region)
        BY <1>1, <2>1
      <4> QED
        BY <1>1, <4>1, ExceptSeq
    <3>2. other[HeaderSize] = size
      BY <1>1, <2>1, <2>2
    <3>3. ASSUME NEW j \in 0..(size - 1)
          PROVE  other[HeaderSize + 1 + j] = IF j = i THEN b ELSE WarmPatternByte(j)
      <4>1. HeaderSize + 1 + j \in DOMAIN region /\ (HeaderSize + 1 + j = HeaderSize + 1 + i => j = i)
        BY <2>1, <2>2
      <4> QED
        BY <4>1, <1>1
    <3> QED
      BY <3>1, <3>2, <3>3
  <2> HIDE DEF other
  <2>4. wrong = {i}
    BY <1>4, <2>3
  <2>5. WarmPayloadSize(other) = size
    BY <2>3 DEF WarmPayloadSize
  <2>6. VerifyWarmPattern(other) \in wrong
    BY <2>3, <2>4, <2>5, VerifyFindsFirst
  <2> QED
    BY <2>4, <2>6 DEF other
<1> QED
  BY <1>1, <1>2, <1>3, <1>4 DEF region

-----------------------------------------------------------------------------

(* SmapsForAddr.                                                           *)

\* The lines of one mapping, and the line that stands at a place of the list.
Block(i) == <<Mappings[i], Field("Rss", i), Field("Shared_Dirty", i)>>
Line(l) == Block((l + 2) \div 3)[((l + 2) % 3) + 1]

\* The lines of one mapping.
LEMMA LineOf ==
  ASSUME NEW i \in Nat \ {0}
  PROVE  /\ Line(3 * i - 2) = Mappings[i]
         /\ Line(3 * i - 1) = Field("Rss", i)
         /\ Line(3 * i) = Field("Shared_Dirty", i)
<1>1. /\ (3 * i - 2 + 2) \div 3 = i /\ (3 * i - 2 + 2) % 3 = 0
      /\ (3 * i - 1 + 2) \div 3 = i /\ (3 * i - 1 + 2) % 3 = 1
      /\ (3 * i + 2) \div 3 = i /\ (3 * i + 2) % 3 = 2
  OBVIOUS
<1> QED
  BY <1>1 DEF Line, Block

\* The lines of the first i mappings.
LinesUpTo(i) == [l \in 1..(3 * i) |-> Line(l)]

\* The lines of a mapping follow those of the mappings before it.
LEMMA BlockAppends ==
  ASSUME NEW i \in Nat \ {0}
  PROVE  LinesUpTo(i) = IF i = 1 THEN Block(1) ELSE LinesUpTo(i - 1) \o Block(i)
<1> DEFINE V == {Line(l) : l \in Nat}
           s == LinesUpTo(i - 1)
           t == Block(i)
           q == LinesUpTo(i)
<1>1. /\ s \in Seq(V) /\ Len(s) = 3 * (i - 1) /\ \A l \in 1..(3 * (i - 1)) : s[l] = Line(l)
      /\ q \in Seq(V) /\ Len(q) = 3 * i /\ \A l \in 1..(3 * i) : q[l] = Line(l)
  BY DEF LinesUpTo
<1>2. /\ t \in Seq(V) /\ Len(t) = 3
      /\ t[1] = Line(3 * i - 2) /\ t[2] = Line(3 * i - 1) /\ t[3] = Line(3 * i)
  <2>1. t[1] = Line(3 * i - 2) /\ t[2] = Line(3 * i - 1) /\ t[3] = Line(3 * i)
    BY LineOf DEF Block
  <2>2. t = <<Line(3 * i - 2), Line(3 * i - 1), Line(3 * i)>>
    BY LineOf DEF Block
  <2>3. Line(3 * i - 2) \in V /\ Line(3 * i - 1) \in V /\ Line(3 * i) \in V
    OBVIOUS
  <2> HIDE DEF V
  <2>4. t \in Seq(V) /\ Len(t) = 3
    BY <2>2, <2>3
  <2> QED
    BY <2>1, <2>4
<1> HIDE DEF s, t, q, V
<1>3. CASE i = 1
  <2>1. \A l \in 1..Len(q) : q[l] = t[l]
    <3>1. \A l \in 1..3 : l = 1 \/ l = 2 \/ l = 3
      OBVIOUS
    <3> QED
      BY <1>1, <1>2, <1>3, <3>1
  <2>2. q = t
    BY <1>1, <1>2, <1>3, <2>1, SeqEqual
  <2> QED
    BY <1>3, <2>2 DEF q, t
<1>4. CASE i # 1
  <2>1. /\ s \o t \in Seq(V) /\ Len(s \o t) = Len(s) + Len(t)
        /\ \A l \in 1..(Len(s) + Len(t)) : (s \o t)[l] =
              IF l <= Len(s) THEN s[l] ELSE t[l - Len(s)]
    BY <1>1, <1>2, ConcatProperties
  <2>2. Len(s \o t) = Len(q)
    BY <2>1, <1>1, <1>2
  <2>3. ASSUME NEW l \in 1..Len(q) PROVE q[l] = (s \o t)[l]
    <3>1. q[l] = Line(l) /\ l \in 1..(Len(s) + Len(t))
      BY <1>1, <1>2
    <3>2. CASE l <= 3 * (i - 1)
      BY <3>1, <3>2, <2>1, <1>1
    <3>3. CASE ~(l <= 3 * (i - 1))
      <4>1. /\ (s \o t)[l] = t[l - 3 * (i - 1)]
        BY <3>1, <3>3, <2>1, <1>1
      <4>2. \/ l - 3 * (i - 1) = 1 /\ l = 3 * i - 2
            \/ l - 3 * (i - 1) = 2 /\ l = 3 * i - 1
            \/ l - 3 * (i - 1) = 3 /\ l = 3 * i
        BY <3>3, <1>1
      <4> QED
        BY <3>1, <4>1, <4>2, <1>2
    <3> QED
      BY <3>2, <3>3
  <2> DEFINE r == s \o t
  <2>4. r \in Seq(V) /\ Len(r) = Len(q) /\ \A l \in 1..Len(q) : q[l] = r[l]
    BY <2>1, <2>2, <2>3
  <2> HIDE DEF r
  <2>5. q = r
    BY <1>1, <2>4, SeqEqual
  <2> QED
    BY <1>4, <2>5 DEF q, r, s, t
<1> QED
  BY <1>3, <1>4

\* What smaps lists, line by line.
LEMMA SmapsLines ==
  Smaps = LinesUpTo(Len(Mappings))
<1> DEFINE n == Len(Mappings)
           blocks == [i \in DOMAIN Mappings |-> Block(i)]
           body(f) == [i \in 1..Len(blocks) |-> IF i = 1 THEN blocks[i] ELSE f[i - 1] \o blocks[i]]
           flatten == CHOOSE f : f = body(f)
<1>1. n \in Nat \ {0} /\ DOMAIN Mappings = 1..n
  BY MappingsAssumption
<1> HIDE DEF n
<1>2. Len(blocks) = n /\ \A i \in 1..n : blocks[i] = Block(i)
  BY <1>1
<1>3. FlattenSeq(blocks) = flatten[n]
  <2>1. FlattenSeq(blocks) = flatten[Len(blocks)]
    <3>1. Len(blocks) # 0
      BY <1>1, <1>2
    <3> HIDE DEF blocks
    <3> QED BY <3>1 DEF FlattenSeq
  <2> HIDE DEF flatten
  <2> QED BY <1>2, <2>1
<1> HIDE DEF blocks
<1>4. \E f : f = body(f)
  <2> DEFINE f == [i \in 1..n |-> LinesUpTo(i)]
  <2>1. ASSUME NEW i \in 1..n
        PROVE  f[i] = IF i = 1 THEN blocks[i] ELSE f[i - 1] \o blocks[i]
    <3>1. i \in Nat \ {0} /\ (i # 1 => i - 1 \in 1..n)
      BY <1>1
    <3>2. f[i] = LinesUpTo(i) /\ (i # 1 => f[i - 1] = LinesUpTo(i - 1))
      BY <3>1
    <3> HIDE DEF f
    <3>3. LinesUpTo(i) = IF i = 1 THEN Block(1) ELSE LinesUpTo(i - 1) \o Block(i)
      BY <3>1, BlockAppends
    <3> QED
      BY <3>2, <3>3, <1>2
  <2>2. f = [i \in 1..n |-> f[i]]
    OBVIOUS
  <2> HIDE DEF f
  <2>3. f = body(f)
    BY <1>2, <2>1, <2>2
  <2> HIDE DEF body
  <2> QED BY <2>3
<1>5. flatten = body(flatten)
  <2> HIDE DEF body
  <2> QED BY <1>4
<1> HIDE DEF flatten
<1>6. \A i \in 1..n : flatten[i] = IF i = 1 THEN Block(i) ELSE flatten[i - 1] \o Block(i)
  BY <1>2, <1>5
<1> HIDE DEF body
<1> DEFINE S == {k \in Nat : k + 1 <= n => flatten[k + 1] = LinesUpTo(k + 1)}
<1>7. 0 \in S
  <2>1. LinesUpTo(1) = Block(1) /\ flatten[1] = Block(1)
    BY <1>1, <1>6, BlockAppends
  <2> QED
    BY <2>1
<1>8. ASSUME NEW k \in Nat, k \in S PROVE k + 1 \in S
  <2>1. SUFFICES ASSUME k + 2 <= n PROVE flatten[k + 2] = LinesUpTo(k + 2)
    OBVIOUS
  <2>2. k + 2 \in 1..n /\ k + 2 # 1 /\ (k + 2) - 1 = k + 1 /\ k + 2 \in Nat \ {0}
    BY <1>1, <2>1
  <2>3. flatten[k + 2] = flatten[k + 1] \o Block(k + 2)
    BY <1>6, <2>2
  <2>4. flatten[k + 1] = LinesUpTo(k + 1)
    BY <1>8, <1>1, <2>1
  <2>5. LinesUpTo(k + 2) = LinesUpTo(k + 1) \o Block(k + 2)
    BY <2>2, BlockAppends
  <2> QED
    BY <2>3, <2>4, <2>5
<1>9. flatten[n] = LinesUpTo(n)
  <2>1. n - 1 \in S
    <3> HIDE DEF S
    <3> QED BY <1>1, <1>7, <1>8, SetInduction
  <2> QED
    BY <2>1, <1>1
<1>10. Smaps = FlattenSeq(blocks)
  BY DEF Smaps, Block, blocks
<1> QED
  BY <1>3, <1>9, <1>10 DEF n

\* The scan before it has read a line.
Start == [found |-> FALSE, done |-> FALSE, fields |-> {}]

\* An index, the prefix that ends there, and a set without it.
LEMMA IndexIn ==
  ASSUME NEW n \in Nat, NEW k \in 1..n
  PROVE  /\ k \in Nat \ {0} /\ k \in Nat /\ 1..k \in SUBSET (1..n)
         /\ \A s \in SUBSET (1..n) : s \ {k} \in SUBSET (1..n)
OBVIOUS

\* A sequence of n lines.
Listed(lines, n) == lines = [l \in 1..n |-> lines[l]]

\* What SmapsForAddr's loop holds after each line.
IsScan(c, lines, n, addr) ==
    /\ c[0] = Start
    /\ \A l \in 1..n : c[l] = SmapsLine(c[l - 1], lines[l], addr)
    /\ SmapsForAddr(lines, addr) = c[n]

\* The fold that SmapsForAddr is goes line by line.
LEMMA SmapsFold ==
  ASSUME NEW n \in Nat, NEW lines, NEW addr, Listed(lines, n)
  PROVE  \E c : IsScan(c, lines, n, addr)
<1> DEFINE V == [found : BOOLEAN, done : BOOLEAN, fields : SUBSET {lines[l] : l \in 1..n}]
           step == [l \in Nat |-> [cur \in V |->
                      IF l \in 1..n THEN SmapsLine(cur, lines[l], addr) ELSE cur]]
           body(g) == [s \in SUBSET (1..n) |->
                         IF s = {} THEN Start ELSE SmapsLine(g[s \ {Max(s)}], lines[Max(s)], addr)]
           iter == CHOOSE g : g = body(g)
<1>1. Start \in V
  BY DEF Start
<1>2. step \in [Nat -> [V -> V]]
  <2>1. ASSUME NEW l \in 1..n, NEW cur \in V PROVE SmapsLine(cur, lines[l], addr) \in V
    BY DEF SmapsLine, IsHead, Holds
  <2> HIDE DEF V
  <2> QED BY <2>1
<1>3. \E g : g = body(g)
  <2>1. PICK g \in [SUBSET (1..n) -> V] : IsFold(g, n, Start, step)
    <3> HIDE DEF step, V
    <3> QED BY <1>1, <1>2, FoldExists
  <2>2. ASSUME NEW s \in SUBSET (1..n), s # {}
        PROVE  step[Max(s)][g[s \ {Max(s)}]] = SmapsLine(g[s \ {Max(s)}], lines[Max(s)], addr)
    <3> HIDE DEF V, step, body, iter
    <3>1. Max(s) \in 1..n
      BY <2>2, MaxOfInterval
    <3>2. s \ {Max(s)} \in SUBSET (1..n) /\ Max(s) \in Nat
      BY <3>1, IndexIn
    <3>3. g[s \ {Max(s)}] \in V
      BY <3>2
    <3> QED
      BY <3>1, <3>2, <3>3 DEF step
  <2>3. g = body(g)
    <3> HIDE DEF step, V
    <3> QED BY <2>1, <2>2 DEF IsFold
  <2> HIDE DEF body
  <2> QED
    BY <2>3
<1>4. iter = body(iter)
  <2> HIDE DEF body
  <2> QED BY <1>3
<1>5. SmapsForAddr(lines, addr) = iter[1..n]
  <2>1. DOMAIN lines = 1..n
    BY DEF Listed
  <2> QED
    BY <2>1 DEF SmapsForAddr, FoldLeft, MapThenFoldSet, Start
<1> HIDE DEF iter
<1> DEFINE c == [l \in 0..n |-> iter[1..l]]
<1>6. c[0] = Start
  <2>1. 1..0 = {}
    OBVIOUS
  <2> QED BY <1>4, <2>1
<1>7. ASSUME NEW l \in 1..n
      PROVE  c[l] = SmapsLine(c[l - 1], lines[l], addr)
  <2>1. 1..l # {} /\ Max(1..l) = l /\ (1..l) \ {l} = 1..(l - 1) /\ 1..l \in SUBSET (1..n)
    <3>1. l \in Nat \ {0} /\ 1..l \in SUBSET (1..n)
      BY IndexIn
    <3> HIDE DEF c, body, step, V
    <3> QED BY <3>1, PrefixMax
  <2>2. iter[1..l] = SmapsLine(iter[1..(l - 1)], lines[l], addr)
    BY <1>4, <2>1
  <2>3. c[l] = iter[1..l] /\ c[l - 1] = iter[1..(l - 1)]
    OBVIOUS
  <2> HIDE DEF c
  <2> QED BY <2>2, <2>3
<1>8. SmapsForAddr(lines, addr) = c[n]
  <2>1. c[n] = iter[1..n]
    OBVIOUS
  <2> QED BY <1>5, <2>1
<1> HIDE DEF c
<1>9. IsScan(c, lines, n, addr)
  BY <1>6, <1>7, <1>8 DEF IsScan
<1> QED
  BY <1>9

\* The mappings that hold an address.
Hit(addr) == {i \in DOMAIN Mappings : Holds(Mappings[i], addr)}

\* The scan inside the mapping it has found, and past it.
Open(h)   == [found |-> TRUE, done |-> FALSE, fields |-> FieldsOf(h)]
Closed(h) == [found |-> TRUE, done |-> TRUE, fields |-> FieldsOf(h)]

\* What the scan has after the lines of the first i mappings.
Scanned(cur, i, addr) ==
    \/ (\A h \in Hit(addr) : h > i) /\ cur = Start
    \/ i \in Hit(addr) /\ cur = Open(i)
    \/ \E h \in Hit(addr) : h < i /\ cur = Closed(h)

\* The mappings as a sequence of records.
LEMMA MappingsType ==
  /\ Len(Mappings) \in Nat \ {0} /\ DOMAIN Mappings = 1..Len(Mappings)
  /\ \A h \in 1..Len(Mappings) :
       /\ DOMAIN Mappings[h] = {"start", "end"}
       /\ Mappings[h].start \in Nat /\ Mappings[h].end \in Nat
<1> DEFINE R == [start : Nat, end : Nat]
<1> HIDE DEF R
<1>1. Mappings \in Seq(R) /\ Mappings # <<>>
  BY MappingsAssumption DEF R
<1>2. Len(Mappings) \in Nat \ {0} /\ DOMAIN Mappings = 1..Len(Mappings)
  BY <1>1, EmptySeq, LenProperties
<1>3. ASSUME NEW h \in 1..Len(Mappings) PROVE Mappings[h] \in R
  BY <1>1, ElementOfSeq
<1>4. ASSUME NEW r \in R
      PROVE  DOMAIN r = {"start", "end"} /\ r.start \in Nat /\ r.end \in Nat
  BY DEF R
<1> QED
  BY <1>2, <1>3, <1>4

\* At most one mapping holds an address.
LEMMA HitType ==
  ASSUME NEW addr \in Int
  PROVE  /\ Hit(addr) \subseteq 1..Len(Mappings) /\ Len(Mappings) \in Nat
         /\ \A h, k \in Hit(addr) : h = k
<1>1. /\ Len(Mappings) \in Nat /\ DOMAIN Mappings = 1..Len(Mappings)
      /\ \A h \in DOMAIN Mappings : Mappings[h].start \in Nat /\ Mappings[h].end \in Nat
  BY MappingsType
<1>2. ASSUME NEW h \in Hit(addr), NEW k \in Hit(addr) PROVE ~(h < k)
  BY <1>1, <1>2, MappingsAssumption DEF Hit, Holds
<1> QED
  BY <1>1, <1>2 DEF Hit

\* A mapping's line is told from a field's.
LEMMA HeadLines ==
  ASSUME NEW i \in 1..Len(Mappings)
  PROVE  IsHead(Mappings[i]) /\ ~IsHead(Field("Rss", i)) /\ ~IsHead(Field("Shared_Dirty", i))
BY MappingsType DEF IsHead, Field

\* One line of the scan, for each state it can be in.
LEMMA LineAfterClose ==
  ASSUME NEW F, NEW line, NEW addr
  PROVE  SmapsLine([found |-> TRUE, done |-> TRUE, fields |-> F], line, addr)
           = [found |-> TRUE, done |-> TRUE, fields |-> F]
BY DEF SmapsLine

LEMMA HeadAfterOpen ==
  ASSUME NEW F, NEW line, NEW addr, IsHead(line)
  PROVE  SmapsLine([found |-> TRUE, done |-> FALSE, fields |-> F], line, addr)
           = [found |-> TRUE, done |-> TRUE, fields |-> F]
BY DEF SmapsLine

LEMMA FieldAfterOpen ==
  ASSUME NEW F, NEW line, NEW addr, ~IsHead(line)
  PROVE  SmapsLine([found |-> TRUE, done |-> FALSE, fields |-> F], line, addr)
           = [found |-> TRUE, done |-> FALSE, fields |-> F \cup {line}]
BY DEF SmapsLine

LEMMA HeadAfterStart ==
  ASSUME NEW line, NEW addr, IsHead(line)
  PROVE  SmapsLine(Start, line, addr) = [Start EXCEPT !.found = Holds(line, addr)]
<1>1. ~Start.done /\ ~Start.found
  BY DEF Start
<1> QED
  BY <1>1 DEF SmapsLine

LEMMA FieldAfterStart ==
  ASSUME NEW line, NEW addr, ~IsHead(line)
  PROVE  SmapsLine(Start, line, addr) = Start
<1>1. ~Start.done /\ ~Start.found
  BY DEF Start
<1> QED
  BY <1>1 DEF SmapsLine

\* The loop's step: the lines of one mapping take the scan past that mapping.
LEMMA ScanBlock ==
  ASSUME NEW addr \in Int, NEW i \in 1..Len(Mappings), NEW c0, NEW c1, NEW c2, NEW c3,
         Scanned(c0, i - 1, addr),
         c1 = SmapsLine(c0, Mappings[i], addr),
         c2 = SmapsLine(c1, Field("Rss", i), addr),
         c3 = SmapsLine(c2, Field("Shared_Dirty", i), addr)
  PROVE  Scanned(c3, i, addr)
<1>1. IsHead(Mappings[i]) /\ ~IsHead(Field("Rss", i)) /\ ~IsHead(Field("Shared_Dirty", i))
  BY HeadLines
<1>2. /\ i \in Nat /\ Hit(addr) \subseteq Nat /\ \A h, k \in Hit(addr) : h = k
      /\ (Holds(Mappings[i], addr) <=> i \in Hit(addr))
  BY HitType, MappingsType DEF Hit
<1>3. ASSUME NEW h \in Hit(addr), h < i, c0 = Open(h) \/ c0 = Closed(h)
      PROVE  Scanned(c3, i, addr)
  <2>1. c1 = Closed(h)
    <3>1. SmapsLine(Open(h), Mappings[i], addr) = Closed(h)
      BY <1>1, HeadAfterOpen DEF Open, Closed
    <3>2. SmapsLine(Closed(h), Mappings[i], addr) = Closed(h)
      BY LineAfterClose DEF Closed
    <3> QED
      BY <1>3, <3>1, <3>2
  <2>2. c2 = Closed(h)
    BY <2>1, LineAfterClose DEF Closed
  <2>3. c3 = Closed(h)
    BY <2>2, LineAfterClose DEF Closed
  <2> QED
    BY <1>3, <2>3 DEF Scanned
<1>4. ASSUME \A h \in Hit(addr) : h > i - 1, c0 = Start
      PROVE  Scanned(c3, i, addr)
  <2>1. c1 = [Start EXCEPT !.found = Holds(Mappings[i], addr)]
    BY <1>1, <1>4, HeadAfterStart
  <2>2. CASE i \in Hit(addr)
    <3>1. Holds(Mappings[i], addr) = TRUE
      BY <1>2, <2>2 DEF Holds
    <3>2. c1 = [found |-> TRUE, done |-> FALSE, fields |-> {}]
      BY <2>1, <3>1 DEF Start
    <3>3. c2 = [found |-> TRUE, done |-> FALSE, fields |-> {} \cup {Field("Rss", i)}]
      BY <1>1, <3>2, FieldAfterOpen
    <3>4. c3 = [found |-> TRUE, done |-> FALSE,
                fields |-> ({} \cup {Field("Rss", i)}) \cup {Field("Shared_Dirty", i)}]
      BY <1>1, <3>3, FieldAfterOpen
    <3>5. ({} \cup {Field("Rss", i)}) \cup {Field("Shared_Dirty", i)} = FieldsOf(i)
      BY DEF FieldsOf
    <3>6. c3 = Open(i)
      BY <3>4, <3>5 DEF Open
    <3> QED
      BY <2>2, <3>6 DEF Scanned
  <2>3. CASE i \notin Hit(addr)
    <3>1. Holds(Mappings[i], addr) = FALSE
      BY <1>2, <2>3 DEF Holds
    <3>2. c1 = Start
      BY <2>1, <3>1 DEF Start
    <3>3. c2 = Start
      BY <1>1, <3>2, FieldAfterStart
    <3>4. c3 = Start
      BY <1>1, <3>3, FieldAfterStart
    <3>5. \A h \in Hit(addr) : h > i
      BY <1>2, <1>4, <2>3
    <3> QED
      BY <3>4, <3>5 DEF Scanned
  <2> QED
    BY <2>2, <2>3
<1> QED
  <2>1. \/ (\A h \in Hit(addr) : h > i - 1) /\ c0 = Start
        \/ \E h \in Hit(addr) : h < i /\ (c0 = Open(h) \/ c0 = Closed(h))
    BY <1>2 DEF Scanned
  <2> QED
    BY <1>3, <1>4, <2>1

\* SmapsForAddr finds the mapping that holds the address, and its fields and no
\* other's; for an address no mapping holds it finds none.
THEOREM SmapsFinds ==
  ASSUME NEW addr \in Int
  PROVE  /\ SmapsForAddr(Smaps, addr).found <=> Hit(addr) # {}
         /\ SmapsForAddr(Smaps, addr).fields = UNION {FieldsOf(i) : i \in Hit(addr)}
<1> DEFINE n == Len(Mappings)
<1>1. n \in Nat /\ Hit(addr) \subseteq 1..n /\ \A h, k \in Hit(addr) : h = k
  BY HitType
<1>2. Smaps = [l \in 1..(3 * n) |-> Smaps[l]] /\ \A l \in 1..(3 * n) : Smaps[l] = Line(l)
  BY <1>1, SmapsLines DEF LinesUpTo
<1>3. PICK c : /\ c[0] = Start
               /\ \A l \in 1..(3 * n) : c[l] = SmapsLine(c[l - 1], Smaps[l], addr)
               /\ SmapsForAddr(Smaps, addr) = c[3 * n]
  <2> DEFINE m == 3 * n
  <2>1. m \in Nat /\ Listed(Smaps, m)
    BY <1>1, <1>2 DEF Listed
  <2> HIDE DEF m
  <2>2. PICK c : IsScan(c, Smaps, m, addr)
    BY <2>1, SmapsFold
  <2> QED BY <2>2 DEF m, IsScan
<1> HIDE DEF n
<1> DEFINE S == {k \in Nat : k <= n => Scanned(c[3 * k], k, addr)}
<1>4. 0 \in S
  <2>1. \A h \in Hit(addr) : h > 0
    BY <1>1
  <2> QED
    BY <2>1, <1>3 DEF Scanned
<1>5. ASSUME NEW k \in Nat, k \in S PROVE k + 1 \in S
  <2>1. SUFFICES ASSUME k + 1 <= n PROVE Scanned(c[3 * (k + 1)], k + 1, addr)
    OBVIOUS
  <2> DEFINE i == k + 1
  <2>2. /\ i \in 1..n /\ i \in Nat \ {0} /\ i - 1 = k
        /\ 3 * i - 2 \in 1..(3 * n) /\ 3 * i - 1 \in 1..(3 * n) /\ 3 * i \in 1..(3 * n)
        /\ (3 * i - 2) - 1 = 3 * k /\ (3 * i - 1) - 1 = 3 * i - 2
    BY <1>1, <2>1
  <2>3. Scanned(c[3 * k], i - 1, addr)
    BY <1>5, <1>1, <2>1, <2>2
  <2> HIDE DEF i, S
  <2>4. c[3 * i - 2] = SmapsLine(c[3 * k], Mappings[i], addr)
    BY <1>2, <1>3, <2>2, LineOf
  <2>5. c[3 * i - 1] = SmapsLine(c[3 * i - 2], Field("Rss", i), addr)
    BY <1>2, <1>3, <2>2, LineOf
  <2>6. c[3 * i] = SmapsLine(c[3 * i - 1], Field("Shared_Dirty", i), addr)
    BY <1>2, <1>3, <2>2, LineOf
  <2>7. Scanned(c[3 * i], i, addr)
    BY <2>2, <2>3, <2>4, <2>5, <2>6, ScanBlock DEF n
  <2> QED
    BY <2>7 DEF i
<1>6. Scanned(c[3 * n], n, addr)
  <2>1. n \in S
    <3> HIDE DEF S
    <3> QED BY <1>1, <1>4, <1>5, SetInduction
  <2> QED
    BY <2>1, <1>1
<1> DEFINE entry == SmapsForAddr(Smaps, addr)
<1>7. entry = c[3 * n]
  BY <1>3
<1> HIDE DEF entry
<1>8. CASE Hit(addr) = {}
  <2>1. entry = Start
    BY <1>6, <1>7, <1>8 DEF Scanned
  <2>2. UNION {FieldsOf(i) : i \in Hit(addr)} = {}
    BY <1>8
  <2> QED
    BY <1>8, <2>1, <2>2 DEF Start, entry
<1>9. ASSUME NEW h \in Hit(addr)
      PROVE  entry.found = TRUE /\ entry.fields = FieldsOf(h)
  <2>1. entry = Open(h) \/ entry = Closed(h)
    <3>1. ~(h > n)
      BY <1>1
    <3> QED
      BY <1>6, <1>7, <1>1, <3>1 DEF Scanned
  <2> QED
    BY <2>1 DEF Open, Closed
<1>10. ASSUME NEW h \in Hit(addr)
       PROVE  UNION {FieldsOf(i) : i \in Hit(addr)} = FieldsOf(h)
  BY <1>1
<1> QED
  BY <1>8, <1>9, <1>10 DEF entry
=============================================================================
