\* One request after another, with two signals and one failure.
SPECIFICATION HTTPSFairSpec
CONSTANTS
    x = x
    Requests = {x}
    MaxRequests = 3
    MaxTimers = 2
    MaxFaults = 1
INVARIANTS
    Restartable
    RolledBack
PROPERTIES
    Reloads
CHECK_DEADLOCK FALSE
