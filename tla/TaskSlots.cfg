SPECIFICATION Spec
CHECK_DEADLOCK FALSE
CONSTANTS
    h1 = h1
    h2 = h2
    Harts = {h1, h2}
    MaxSlots = 2
    LastGen = 1
    MayCancel = TRUE
CONSTRAINTS
    QueueBound
    SecondSlotBound
INVARIANTS
    SinglePoller
    SlotAccounting
PROPERTIES
    OnlyOwnWake
