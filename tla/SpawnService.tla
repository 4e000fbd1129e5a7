---------------------------- MODULE SpawnService ----------------------------
(***************************************************************************)
(* What the zygote promises its clients, with no connection, goroutine,    *)
(* cgroup or pid in sight: each request gets at most one worker and at     *)
(* most one answer; the answer tells the truth about the worker; and, when *)
(* workers are fenced, no two running workers carry the same name.         *)
(***************************************************************************)
CONSTANTS
    Requests,    \* the requests
    Name,        \* the worker name of each request
    Exclusive    \* a name belongs to one running worker at a time (--cgroup)

VARIABLES
    worker,      \* "none", "running" or "ended"
    answer       \* "none", "pid" or "error"

vars == <<worker, answer>>

Init ==
    /\ worker = [r \in Requests |-> "none"]
    /\ answer = [r \in Requests |-> "none"]

\* A worker is born only for a request that has none and no answer yet.
Spawn(r) ==
    /\ worker[r] = "none" /\ answer[r] = "none"
    /\ Exclusive => \A q \in Requests : Name[q] = Name[r] => worker[q] # "running"
    /\ worker' = [worker EXCEPT ![r] = "running"]
    /\ UNCHANGED answer

End(r) ==
    /\ worker[r] = "running"
    /\ worker' = [worker EXCEPT ![r] = "ended"]
    /\ UNCHANGED answer

\* A pid for a request that has, or had, a worker; an error for one that has not.
Reply(r) ==
    /\ answer[r] = "none"
    /\ answer' = [answer EXCEPT ![r] = IF worker[r] = "none" THEN "error" ELSE "pid"]
    /\ UNCHANGED worker

Next == \E r \in Requests : Spawn(r) \/ End(r) \/ Reply(r)

Spec == Init /\ [][Next]_vars
=============================================================================
