SPECIFICATION Spec
CONSTANTS
    Homes <- MCHomes
    Mutations <- MCMutations
    LogLen = 6
    MaxTx = 3
    MaxCrashes = 2
    MaxErrors = 1
    FailingPaths = {"L6"}
PROPERTIES
    ReleasedStaysUndone
CHECK_DEADLOCK FALSE
