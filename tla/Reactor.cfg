SPECIFICATION Spec
CONSTANTS
    h1 = h1
    h2 = h2
    t1 = t1
    t2 = t2
    Harts = {h1, h2}
    Tasks = {t1, t2}
    NoTask = NoTask
    NoHart = NoHart
    Home <- MCHome2
    Movable = {t2}
    Callers <- MCCallers2
    OwnerPosts = TRUE
INVARIANTS
    SingleLease
    PinnedWakeNotLost
    PinnedTaskHasOwner
