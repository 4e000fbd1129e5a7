\* All policies of the instance under both runtimes, with and without root, full and
\* minimal mounts.
CONSTANTS
    Entries <- MCEntries
    DefaultAllowedSyscalls = {"read", "write", "exit"}
    Known = {"read", "write", "exit", "mount"}
    Files <- MCFiles
    ApiPolicies <- MCApiPolicies
    KernelPidsMax = 4194305
    KernelMaxQuota = 1500000000
    Unset = Unset
SPECIFICATION Spec
INVARIANTS
    TypeOK
    EnforcedAsWritten
    NothingIgnored
    RefusalsExplained
