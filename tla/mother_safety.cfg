\* Two requests for one id, either with an empty binary; two mothers that may overlap.
CONSTANTS
    r1 = r1
    r2 = r2
    r3 = r3
    a = a
    p1 = p1
    p2 = p2
    m1 = m1
    m2 = m2
    None = None
    Err = Err
    Requests = {r1, r2}
    Ids = {a}
    WorkerId <- MCWorkerId
    EmptyBinary = {r1, r2}
    Pids = {p1, p2}
    CgEnable = TRUE
    SpuriousBusy = TRUE
    SweepUnderMother = FALSE
    Mothers = {m1, m2}
    Overlap = TRUE
SPECIFICATION Spec
INVARIANTS
    TypeOK
    LeafHeld
    ErrorMeansNoWorker
    ReplyNamesWorker
    Reachable
    OneWorkerPerId
SYMMETRY MCSymmetry
