SPECIFICATION Spec
CONSTANTS
    h1 = h1
    h2 = h2
    t1 = t1
    t2 = t2
    Harts = {h1, h2}
    Tasks = {t1}
    NoTask = NoTask
    NoHart = NoHart
    Home <- MCHome1
    Movable = {t1}
    Callers <- MCCallers1
    OwnerPosts = TRUE
INVARIANTS
    WakeNotLost
