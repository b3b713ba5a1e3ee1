SPECIFICATION FairSpec
CONSTANTS
    t1 = t1
    t2 = t2
    N = 2
    Tasks = {t1, t2}
    Kind <- ServiceAndThread
    Movable = {t2}
    Masks = {{0}}
    Hints = {"Normal", "SignalDelivery"}
    Reasons = {"Blocked", "SliceExpired", "UserspaceTrap", "Completed"}
    AgingTurns = 1
    ScanLimit = 8
    Callers <- MCCallers
INVARIANTS
    QueuedIsPhysical
    OneEntry
    AffinityEnforced
    PromotionFindsEntry
PROPERTIES
    ImplementsRunLease
    PreemptedIsPicked
