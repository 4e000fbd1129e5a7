\* Any two lists of at most two of four names; every number on both architectures.
CONSTANTS
    read = read
    stat = stat
    newstat = newstat
    typo = typo
    Table <- MCTable
    NameLists <- MCNameLists
    Errnos = {1, 38}
    Calls <- MCCalls
    X86_64 <- MCX86_64
    MaxInsns = 9
    NoVerdict = NoVerdict
SPECIFICATION Spec
INVARIANTS
    TypeOK
    DecisionRight
    NeverRefused
    ReportRight
