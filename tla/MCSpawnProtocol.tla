-------------------------- MODULE MCSpawnProtocol ---------------------------
(* An instance of SpawnProtocol: requests within the limit, beyond it, and   *)
(* long enough to make the length field wrap; and streams of other clients,  *)
(* one of which is a frame as well.                                          *)
EXTENDS SpawnProtocol

Stray(magic, announced, body, json) ==
    [magic |-> magic, announced |-> announced, body |-> body, json |-> json, spawn |-> FALSE]

MCRequests ==
    {RequestFrame(n) : n \in {1, 3, 4, 9}}
    \cup {Stray(FALSE, 2, 2, TRUE), Stray(TRUE, 3, 1, TRUE), Stray(TRUE, 1, 3, TRUE),
          Stray(TRUE, 2, 2, FALSE), Stray(TRUE, 3, 3, TRUE)}
=============================================================================
