SPECIFICATION FairSpec
CONSTANTS
    u = u
    w = w
    k = k
    Nobody = Nobody
    Cpus <- MCCpus
    Boot = 0
    Unmasked = {"User", "LockWait", "Drain"}
    Visitors = {2}
    UserPages = {u, w}
    KernelPages = {k}
    Unmapper <- MCUnmapper
INVARIANTS
    NoStaleTranslation
    NobodyAwaitsStopped
    RequestIsHeard
PROPERTIES
    StopCompletes
CHECK_DEADLOCK FALSE
