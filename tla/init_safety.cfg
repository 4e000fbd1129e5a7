\* Workers of every kind share one rootfs; anything may fail, threads move.
CONSTANTS
    w1 = w1
    w2 = w2
    t1 = t1
    t2 = t2
    Workers = {w1, w2}
    Kinds = {"init", "stray", "direct", "bare"}
    Hardened = {w1}
    Threads = {t1, t2}
    Leader = t1
    Fallible <- MCFallible
    MigrateEarly = TRUE
    MayKill = TRUE
    WarmSize = 12
    Chunk = 5
    OtherSize = 5
    Touched <- MCTouched
    MaskedFiles = {"kcore"}
    MaskedDirs = {"firmware"}
    WarmMagic <- MCMagic
    Mappings <- MCMappings
SPECIFICATION Spec
INVARIANTS
    TypeOK
    PayloadConfined
    PutOldStays
    OrderWorks
    HostUntouched
    HardenWhole
    SmapsExact
PROPERTIES
    WarmReadsBack
