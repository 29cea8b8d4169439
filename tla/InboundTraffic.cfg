SPECIFICATION FairSpec
CONSTANTS
    x = x
    y = y
    p1 = p1
    p2 = p2
    None = None
    Requests = {x, y}
    Ports = {p1, p2}
    MaxId = 2
    Totals = {2}
    MaxTraffic = 2
    MaxRequests = 2
    MaxEvents = 1
INVARIANTS
    TypeOK
    NeverOvercharged
    NothingLost
PROPERTIES
    NoResurrection
    LimitsEnforced
CHECK_DEADLOCK FALSE
