SPECIFICATION FairSpec
CONSTANTS
    a1 = a1
    k1 = k1
    k2 = k2
    q1 = q1
    q2 = q2
    q3 = q3
    q4 = q4
    good1 = good1
    good2 = good2
    bad = bad
    Admins = {a1}
    Crons = {k1}
    Procs = {q1, q2}
    Cfgs = {good1, bad}
    ValidCfgs = {good1}
    MaxStray = 0
    NoThread = NoThread
    NoProc = NoProc
    NoCfg = NoCfg
    Partial = Partial
PROPERTIES
    ChangeServed
    SelfHeals
