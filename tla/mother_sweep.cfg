\* Two requests for one id; leaves swept under a mother told to stop, rmdir reliable.
CONSTANTS
    r1 = r1
    r2 = r2
    r3 = r3
    a = a
    p1 = p1
    p2 = p2
    m1 = m1
    m2 = m2
    None = None
    Err = Err
    Requests = {r1, r2}
    Ids = {a}
    WorkerId <- MCWorkerId
    EmptyBinary = {}
    Pids = {p1, p2}
    CgEnable = TRUE
    SpuriousBusy = FALSE
    SweepUnderMother = TRUE
    Mothers = {m1}
    Overlap = FALSE
SPECIFICATION FairSpec
INVARIANTS
    WorkerFenced
    LeavesAccounted
PROPERTIES
    ImplementsService
    ZombiesReaped
    HandlersFinish
    LeafReclaimed
