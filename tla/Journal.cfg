SPECIFICATION FairSpec
CONSTANTS
    Homes <- MCHomes
    Mutations <- MCMutations
    LogLen = 6
    MaxTx = 3
    MaxCrashes = 2
    MaxErrors = 1
    FailingPaths = {"Settle"}
INVARIANTS
    AckedIsDurable
    OrderedData
    MountedShowsStore
PROPERTIES
    ImplementsAtomicStore
    ReachesRest
CHECK_DEADLOCK FALSE
