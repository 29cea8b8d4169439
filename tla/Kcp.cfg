\* Two segments before the wrap of the numbers (12, 13), and three across it (14, 15, 0).
SPECIFICATION Spec
CONSTANTS
    Mod = 16
    Bases = {12, 14}
    Far = 12
    Remote0 = 2
    SendBuffer = 1
    InFlight = 2
    RecvWindow = 2
    MaxWrites = 3
    MaxNet = 2
CHECK_DEADLOCK FALSE
CONSTRAINT TwoFromFar
INVARIANTS
    InOrder
    NothingLost
    NeverStuck
    EndIsTrue
