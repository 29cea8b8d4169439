\* Two clients, three requests, one query that fails.
SPECIFICATION Spec
CONSTANTS
    Clients = {c1, c2}
    Pairs = {panel}
    Ports = {p1, p2}
    DefaultPort = p0
    None = None
    MaxId = 5
    MaxRequests = 3
    MaxFaults = 1
SYMMETRY Symm
CHECK_DEADLOCK FALSE
INVARIANTS
    ShownIsUsed
    PairFits
    NothingUndone
