\* What spawn.go says of a failed spawn, against an empty binary.
CONSTANTS
    r1 = r1
    r2 = r2
    r3 = r3
    a = a
    p1 = p1
    p2 = p2
    m1 = m1
    m2 = m2
    None = None
    Err = Err
    Requests = {r1, r3}
    Ids = {a}
    WorkerId <- MCWorkerId
    EmptyBinary = {r1}
    Pids = {p1, p2}
    CgEnable = TRUE
    SpuriousBusy = FALSE
    SweepUnderMother = FALSE
    Mothers = {m1}
    Overlap = FALSE
SPECIFICATION Spec
INVARIANT FailedSpawnLeavesNoLeaf
