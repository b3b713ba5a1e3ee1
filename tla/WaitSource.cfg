SPECIFICATION FairSpec
CHECK_DEADLOCK FALSE
CONSTANTS
    w1 = w1
    w2 = w2
    p1 = p1
    in = in
    out = out
    Waiters = {w1, w2}
    Producers = {p1}
    Observing = {w1}
    Bits = {in, out}
    Interest <- BothAndIn
    Bound = 1
    MaxSeq = 1
    MaxNoise = 1
INVARIANTS
    NoLostWake
    OneRowPerWait
PROPERTIES
    ReadyWaiterRuns
