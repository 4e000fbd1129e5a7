--------------------------- MODULE MCZygoteMother ---------------------------
(* Instances of ZygoteMother: r1 and r2 ask for the same id (a retry, or two *)
(* users), r3 for none.                                                      *)
EXTENDS ZygoteMother, TLC

CONSTANTS r1, r2, r3, a, p1, p2, m1, m2

MCWorkerId == [r \in Requests |-> IF r \in {r1, r2} THEN a ELSE None]

\* r1 and r2 are interchangeable, and so are the pids and the mothers.
MCSymmetry ==
    Permutations(Requests \ {r3}) \cup Permutations(Pids) \cup Permutations(Mothers)
=============================================================================
