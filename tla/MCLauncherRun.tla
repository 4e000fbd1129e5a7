--------------------------- MODULE MCLauncherRun ---------------------------
EXTENDS LauncherRun, TLC

CONSTANTS l1, l2, i1, i2, b

\* Both are given the same --id, or each has one of its own.
MCIdOne == l1 :> i1 @@ l2 :> i1
MCIdOwn == l1 :> i1 @@ l2 :> i2
=============================================================================
