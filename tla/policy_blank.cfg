\* The same instance: does a list with a blank in an entry get as far as a container?
CONSTANTS
    Entries <- MCEntries
    DefaultAllowedSyscalls = {"read", "write", "exit"}
    Known = {"read", "write", "exit", "mount"}
    Files <- MCFiles
    ApiPolicies <- MCApiPolicies
    KernelPidsMax = 4194305
    KernelMaxQuota = 1500000000
    Unset = Unset
SPECIFICATION Spec
INVARIANTS
    EntriesClean
