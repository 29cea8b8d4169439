\* Two goroutines, two lines of one key, one rotation, one failure.
SPECIFICATION FairSpec
CONSTANTS
    job = job
    request = request
    none = none
    key1 = key1
    Workers <- MCWorkers
    Job <- job
    NoWorker <- none
    Keys = {key1}
    Times <- MCTimes
    MaxLines = 2
    MaxRotations = 1
    MaxFaults = 1
INVARIANTS
    CountedOncePerRun
    NothingSkipped
    ReportExact
    ClearedStayCleared
PROPERTIES
    Delivered
