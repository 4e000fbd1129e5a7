-------------------------- MODULE MCSeccompFilter --------------------------
(* Instances of SeccompFilter: short lists over four names, of which one is *)
(* unknown and two mean the same number.                                    *)
EXTENDS SeccompFilter, TLC

CONSTANTS read, stat, newstat, typo

MCTable == (read :> 0) @@ (stat :> 4) @@ (newstat :> 4)
MCNames == {read, stat, newstat, typo}
MCNameLists == UNION {[1..n -> MCNames] : n \in 0..2}

\* The two architectures by the machine number in their audit value; numbers that
\* are listed, not listed, equal to the architecture's, and of the x32 kind.
MCX86_64 == 62
MCCalls == [arch : {MCX86_64, 3}, nr : {0, 4, 7, 62, 1073741824}]
=============================================================================
