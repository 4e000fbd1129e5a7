\* cmd/worker spawned without an init installs its own filter on whatever thread it is.
CONSTANTS
    w1 = w1
    w2 = w2
    t1 = t1
    t2 = t2
    Workers = {w1}
    Kinds = {"init", "direct"}
    Hardened = {}
    Threads = {t1, t2}
    Leader = t1
    Fallible = {}
    MigrateEarly = FALSE
    MayKill = FALSE
    WarmSize = 12
    Chunk = 5
    OtherSize = 5
    Touched <- MCTouched
    MaskedFiles = {"kcore"}
    MaskedDirs = {"firmware"}
    WarmMagic <- MCMagic
    Mappings <- MCMappings
SPECIFICATION Spec
INVARIANTS
    WorkFiltered
