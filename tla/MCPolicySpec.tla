---------------------------- MODULE MCPolicySpec ----------------------------
(* Instances of PolicySpec: every combination of seccomp knobs with a few    *)
(* limits, every combination of limits at their boundaries with a few        *)
(* seccomp blocks, from a file or from another program.                      *)
EXTENDS PolicySpec

MCEntries == {[word |-> w, blanks |-> {}] : w \in {"read", "write", "typo"}}
             \cup {[word |-> "read", blanks |-> {b}] : b \in {"space", "tab", "newline"}}
             \cup {[word |-> Unset, blanks |-> {}]}
MCLists == {{}} \cup {{e} : e \in MCEntries}
           \cup {{e, [word |-> "read", blanks |-> {}]} : e \in MCEntries}

MCSeccomps ==
    [enabled : BOOLEAN, action : [word : Spelling, untidy : {TRUE}] \cup {NoAction},
     errnoRet : {0, 1, 4095, 4096}, allowed : MCLists]
MCResources ==
    [memory : {-1, 0, 64}, pids : {-1, 0, 20, 4194305},
     quota : {-1, 0, 999, 1000, 1500000001}, period : {0, 999, 1000, 1000000, 1000001}]

Block(enabled, word, list) ==
    [enabled |-> enabled, action |-> [word |-> word, untidy |-> FALSE],
     errnoRet |-> 0, allowed |-> list]
NoLimits == [memory |-> 0, pids |-> 0, quota |-> 0, period |-> 0]
SomeLimits == [memory |-> 64, pids |-> 0, quota |-> 1000, period |-> 0]

MCPolicies ==
    [seccomp : MCSeccomps, resources : {NoLimits, SomeLimits}]
    \cup [seccomp : {Block(FALSE, "empty", {}), Block(TRUE, "KILL", {})}, resources : MCResources]

\* A lax file is one the strict decoder refuses.
MCFiles == [strict : {TRUE}, policy : MCPolicies] \cup [strict : {FALSE}, policy : {Default}]
MCApiPolicies == [seccomp : MCSeccomps, resources : {NoLimits}]
=============================================================================
