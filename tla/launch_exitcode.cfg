\* README.md on the exit code, against a clean exit after SIGTERM.
CONSTANTS
    l1 = l1
    l2 = l2
    i1 = i1
    i2 = i2
    b = b
    None = None
    Runs = {l1, l2}
    Ids = {i1, i2}
    Id <- MCIdOwn
    Dirs = {}
    KeepBundle = {}
    ExitCodes = {0, 3}
SPECIFICATION Spec
CHECK_DEADLOCK FALSE
INVARIANT ExitCodeFaithful
