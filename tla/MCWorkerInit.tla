---------------------------- MODULE MCWorkerInit ----------------------------
(* Instances of WorkerInit: workers of one rootfs, two threads each. *)
EXTENDS WorkerInit, TLC

CONSTANTS w1, w2, t1, t2

\* Every system call can fail, but for the detach of the former root, whose
\* error the code does not look at.
MCFallible == (RootfsSteps \ {"detach"}) \cup CapSteps \cup {"nnp", "seccomp", "exec"}

\* The letters of the magic, as bytes.
MCMagic == <<65, 78, 79, 76, 73, 88, 87, 77>>

\* A letter of the magic, the size, the last byte of the first chunk, the last byte.
MCTouched == {1, HeaderSize, HeaderSize + Chunk, HeaderSize + WarmSize}

\* Two mappings that adjoin, a gap, and a third.
MCMappings == <<[start |-> 1, end |-> 3], [start |-> 3, end |-> 4], [start |-> 6, end |-> 8]>>
=============================================================================
