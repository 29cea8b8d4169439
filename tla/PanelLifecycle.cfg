\* The panel restarts and ends around one request and one tick at a time.
SPECIFICATION FairLife
CONSTANTS
    main = main
    a1 = a1
    k1 = k1
    q1 = q1
    q2 = q2
    q3 = q3
    good1 = good1
    bad = bad
    Main <- main
    Admins = {main, a1}
    Crons = {k1}
    Procs = {q1, q2}
    Cfgs = {good1}
    ValidCfgs = {good1}
    MaxStray = 0
    NoThread = NoThread
    NoProc = NoProc
    NoCfg = NoCfg
    Partial = Partial
INVARIANTS
    LeftRunningOnlyLate
PROPERTIES
    TermEnds
    HealsAcrossRestarts
CHECK_DEADLOCK FALSE
