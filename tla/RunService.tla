----------------------------- MODULE RunService -----------------------------
(***************************************************************************)
(* What cmd/anolix promises whoever starts it, with no bundle, goroutine,  *)
(* zombie or exit code in the making in sight: a command starts a runtime  *)
(* once and not after it was cancelled, tells it to stop only when         *)
(* cancelled, and returns once with an answer that is true of the runtime. *)
(***************************************************************************)
EXTENDS Integers

CONSTANTS
    Runs,        \* the commands
    Ids,         \* container ids
    Id,          \* the id each command asks for
    Codes,       \* exit codes
    SigTerm,     \* wait statuses below 0, for a runtime that dies of a signal
    SigKill,
    None

\* The exit code a shell shows for a wait status.
Shown(s) == IF s < 0 THEN 128 - s ELSE s
Killed   == Shown(SigKill)

VARIABLES
    proc,        \* a command's runtime: "none", "starting", "running" or "over"
    last,        \* its wait status
    owner,       \* the command whose container has an id
    cancelled,   \* the commands that are to stop
    told,        \* the commands whose runtime was told so
    answer       \* how the command ended: its exit code, and whether it failed

vars == <<proc, last, owner, cancelled, told, answer>>

Answer(e, c, f) == [end |-> e, code |-> c, failed |-> f]
Pending == Answer("pending", 0, FALSE)
Lost    == Answer("lost", 0, FALSE)

Init ==
    /\ proc      = [l \in Runs |-> "none"]
    /\ last      = [l \in Runs |-> None]
    /\ owner     = [i \in Ids |-> None]
    /\ cancelled = {}
    /\ told      = {}
    /\ answer    = [l \in Runs |-> Pending]

Cancel(l) ==
    /\ answer[l] = Pending
    /\ cancelled' = cancelled \cup {l}
    /\ UNCHANGED <<proc, last, owner, told, answer>>

Start(l) ==
    /\ answer[l] = Pending /\ proc[l] = "none" /\ l \notin cancelled
    /\ proc' = [proc EXCEPT ![l] = "starting"]
    /\ UNCHANGED <<last, owner, cancelled, told, answer>>

\* The container is made under an id nobody has.
Create(l) ==
    /\ proc[l] = "starting" /\ owner[Id[l]] = None
    /\ proc'  = [proc EXCEPT ![l] = "running"]
    /\ owner' = [owner EXCEPT ![Id[l]] = l]
    /\ UNCHANGED <<last, cancelled, told, answer>>

Tell(l) ==
    /\ answer[l] = Pending /\ l \in cancelled /\ proc[l] # "none"
    /\ told' = told \cup {l}
    /\ UNCHANGED <<proc, last, owner, cancelled, answer>>

\* The runtime ends.  It takes its own container with it if it ends by
\* itself, and no other.
Exit(l) ==
    /\ proc[l] \in {"starting", "running"}
    /\ proc' = [proc EXCEPT ![l] = "over"]
    /\ last'[l] \in Codes \cup {SigTerm, SigKill}
    /\ last' = [last EXCEPT ![l] = last'[l]]
    /\ last'[l] = SigTerm => l \in told /\ proc[l] = "starting"
    /\ owner' = IF proc[l] = "running" /\ last'[l] >= 0 /\ owner[Id[l]] = l
                THEN [owner EXCEPT ![Id[l]] = None] ELSE owner
    /\ UNCHANGED <<cancelled, told, answer>>

\* A command that was cancelled, or whose runtime never started, frees its
\* id, before it returns and with no runtime of its own.
Free(l) ==
    /\ answer[l] = Pending
    /\ proc[l] = "none" \/ (proc[l] = "over" /\ l \in cancelled)
    /\ owner' = [owner EXCEPT ![Id[l]] = None]
    /\ UNCHANGED <<proc, last, cancelled, told, answer>>

\* The command returns: a failure with code 1 if no runtime was started.
\* Otherwise with the runtime's code; only a clean end of a runtime that was
\* told to stop may be shown as Killed.  It fails if the runtime was told to
\* stop, and then it was cancelled.  If it does not fail, its container is
\* gone, or somebody has killed the runtime.
Return(l) ==
    /\ answer[l] = Pending
    /\ \/ proc[l] = "none" /\ answer' = [answer EXCEPT ![l] = Answer("returned", 1, TRUE)]
       \/ /\ proc[l] = "over"
          /\ \E c \in {Shown(last[l]), Killed}, f \in BOOLEAN :
               /\ c = Shown(last[l]) \/ (last[l] = 0 /\ l \in told)
               /\ l \in told => f
               /\ f => l \in cancelled
               /\ ~f => owner[Id[l]] # l \/ last[l] = SigKill
               /\ answer' = [answer EXCEPT ![l] = Answer("returned", c, f)]
    /\ UNCHANGED <<proc, last, owner, cancelled, told>>

\* The command is killed.  Its runtime goes on.
Lose(l) ==
    /\ answer[l] = Pending
    /\ answer' = [answer EXCEPT ![l] = Lost]
    /\ UNCHANGED <<proc, last, owner, cancelled, told>>

Next == \E l \in Runs :
    \/ Cancel(l) \/ Start(l) \/ Create(l) \/ Tell(l)
    \/ Exit(l) \/ Free(l) \/ Return(l) \/ Lose(l)

Spec == Init /\ [][Next]_vars
=============================================================================
