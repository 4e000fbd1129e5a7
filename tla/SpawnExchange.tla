---------------------------- MODULE SpawnExchange ----------------------------
(***************************************************************************)
(* What one connection between a spawn client and the mother promises: the *)
(* mother gets the whole request or none, answers it at most once, with a  *)
(* pid only if she got it, and the client gets that answer, whole, or      *)
(* knows that it has none.                                                 *)
(***************************************************************************)
CONSTANT None

VARIABLES
    request,   \* at the mother: "awaited", "handed" or "refused"
    answer,    \* the answer given: "pid", "error", or None
    outcome    \* at the client: "waiting", "pid", "error" or "failed"

vars == <<request, answer, outcome>>

Init == request = "awaited" /\ answer = None /\ outcome = "waiting"

HandOver ==
    /\ request = "awaited"
    /\ request' = "handed"
    /\ UNCHANGED <<answer, outcome>>

Refuse ==
    /\ request = "awaited"
    /\ request' = "refused"
    /\ UNCHANGED <<answer, outcome>>

Answer ==
    /\ request # "awaited" /\ answer = None
    /\ answer' \in (IF request = "handed" THEN {"pid", "error"} ELSE {"error"})
    /\ UNCHANGED <<request, outcome>>

Receive ==
    /\ outcome = "waiting" /\ answer # None
    /\ outcome' = answer
    /\ UNCHANGED <<request, answer>>

Fail ==
    /\ outcome = "waiting"
    /\ outcome' = "failed"
    /\ UNCHANGED <<request, answer>>

Next == HandOver \/ Refuse \/ Answer \/ Receive \/ Fail

Spec == Init /\ [][Next]_vars

=============================================================================
