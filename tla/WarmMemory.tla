----------------------------- MODULE WarmMemory -----------------------------
(***************************************************************************)
(* The memory a mother warms up and its workers map (zygote/warm.go): the  *)
(* layout CreateWarmMemfd writes, what MapWarm accepts, the check of the   *)
(* pattern, and the search of /proc/self/smaps for one mapping.  A memfd   *)
(* is a sequence of bytes; a line of smaps is a record.  The memfd is not  *)
(* sealed, so whoever holds it may write to it.                            *)
(***************************************************************************)
EXTENDS Integers, Sequences, Folds, SequencesExt

CONSTANTS
    Chunk,          \* the bytes of one write of CreateWarmMemfd
    WarmMagic,      \* the bytes of the magic
    OtherSize,      \* what somebody has written in place of the size
    Mappings        \* the mappings of a process, in the order smaps lists them

ASSUME ChunkAssumption == Chunk \in Nat \ {0}
ASSUME MagicAssumption == WarmMagic \in Seq(Nat)
ASSUME OtherSizeAssumption == OtherSize \in Nat
\* The kernel lists the mappings of a process by address, and none overlaps.
ASSUME MappingsAssumption ==
    /\ Mappings \in Seq([start : Nat, end : Nat]) \ {<<>>}
    /\ \A i, j \in DOMAIN Mappings : i < j => Mappings[i].end <= Mappings[j].start

\* WarmPatternByte: byte(off*31 + 7).
WarmPatternByte(off) == (off * 31 + 7) % 256

\* The header holds the magic and the size, each in 8 bytes; the size stands
\* in one cell here, so the header is one cell longer than the magic.
HeaderSize == Len(WarmMagic) + 1

\* CreateWarmMemfd: whole chunks, then what is left of the last.
ChunkAt(written, size) ==
    [i \in 1..(IF size - written > Chunk THEN Chunk ELSE size - written)
        |-> WarmPatternByte(written + i - 1)]
CreateWarmMemfd(size) ==
    WarmMagic \o <<size>>
    \o FoldLeft(LAMBDA out, k : out \o ChunkAt(k * Chunk, size), <<>>,
                [k \in 1..((size + Chunk - 1) \div Chunk) |-> k - 1])

\* A memfd some cells of which hold something else than the mother has written.
Rewritten(memfd, cells) ==
    [i \in 1..Len(memfd) |-> IF i \notin cells THEN memfd[i]
                             ELSE IF i = HeaderSize THEN OtherSize
                             ELSE (memfd[i] + 1) % 256]

\* What MapWarm maps: nothing shorter than a header, nothing without the magic.
Mappable(memfd) ==
    Len(memfd) >= HeaderSize /\ SubSeq(memfd, 1, Len(WarmMagic)) = WarmMagic

WarmPayloadSize(region) == region[HeaderSize]

\* FAULT: the whole region, header included, is compared with the pattern.
VerifyWarmPatternWhole(region) ==
    LET wrong == {i \in 1..Len(region) : region[i] # WarmPatternByte(i - 1)}
    IN  IF wrong = {} THEN -1 ELSE (CHOOSE i \in wrong : \A j \in wrong : i <= j) - 1

\* VerifyWarmPattern: the first offset of the payload that differs, or -1; a
\* region shorter than its header says is compared as far as it goes.
VerifyWarmPattern(region) ==
    LET held  == Len(region) - HeaderSize
        size  == IF held < WarmPayloadSize(region) THEN held ELSE WarmPayloadSize(region)
        wrong == {i \in 0..(size - 1) : region[HeaderSize + 1 + i] # WarmPatternByte(i)}
    IN  IF wrong = {} THEN -1 ELSE CHOOSE i \in wrong : \A j \in wrong : i <= j

-----------------------------------------------------------------------------
(* SmapsForAddr.  A line is the head of a mapping [start, end), or a field  *)
(* [key, val] of the mapping above it.                                     *)

IsHead(line) == "start" \in DOMAIN line
Holds(line, addr) == line.start <= addr /\ addr < line.end

\* FAULT: the fields of the mappings that follow are collected too.
SmapsLineOn(cur, line, addr) ==
    IF IsHead(line) THEN [cur EXCEPT !.found = @ \/ Holds(line, addr)]
    ELSE IF cur.found THEN [cur EXCEPT !.fields = @ \cup {line}]
    ELSE cur

\* One line: the scan ends at the first head after the mapping was found.
SmapsLine(cur, line, addr) ==
    IF cur.done \/ (IsHead(line) /\ cur.found) THEN [cur EXCEPT !.done = TRUE]
    ELSE IF IsHead(line) THEN [cur EXCEPT !.found = Holds(line, addr)]
    ELSE IF cur.found THEN [cur EXCEPT !.fields = @ \cup {line}]
    ELSE cur

SmapsForAddr(lines, addr) ==
    FoldLeft(LAMBDA cur, line : SmapsLine(cur, line, addr),
             [found |-> FALSE, done |-> FALSE, fields |-> {}], lines)

\* What /proc/self/smaps says of the mappings: a head and two fields for each.
Field(k, i) == [key |-> k, val |-> i]
FieldsOf(i) == {Field("Rss", i), Field("Shared_Dirty", i)}
Smaps == FlattenSeq([i \in DOMAIN Mappings |->
             <<Mappings[i], Field("Rss", i), Field("Shared_Dirty", i)>>])
=============================================================================
