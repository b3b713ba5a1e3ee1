SPECIFICATION Spec
CONSTANTS
    n1 = n1
    n2 = n2
    n3 = n3
    N = 2
    First = n2
    Nodes = {n1, n2, n3}
    Paths <- MCPaths
    Capacity = 1
    Budget = 2
    Deferring = {n2, n3}
    Readers = {0}
    Writers = {1}
    MaxEpoch = 4
    Leavers = {1}
    OfflineFrom = 4
    MaxVersion = 3
INVARIANTS
    NoUseAfterFree
    OnePlace
    BagFits
    ReaderHoldsEpoch
    OneAdvanceWhileRetiring
