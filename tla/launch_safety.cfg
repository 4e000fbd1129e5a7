\* Two runs with one --id, each with a temporary bundle or both with one --bundle.
CONSTANTS
    l1 = l1
    l2 = l2
    i1 = i1
    i2 = i2
    b = b
    None = None
    Runs = {l1, l2}
    Ids = {i1, i2}
    Id <- MCIdOne
    Dirs = {b}
    KeepBundle = {l2}
    ExitCodes = {0, 3}
SPECIFICATION FairSpec
CHECK_DEADLOCK FALSE
INVARIANTS
    TypeOK
    BundleLifetime
    OwnConfig
    CodeRelayed
    NoContainerLeft
PROPERTIES
    ContainerSpared
    ImplementsRunService
    CancelTerminates
