SPECIFICATION Spec
CONSTANTS
    a1 = a1
    k1 = k1
    k2 = k2
    q1 = q1
    q2 = q2
    q3 = q3
    q4 = q4
    good1 = good1
    good2 = good2
    bad = bad
    Admins = {a1}
    Crons = {k1}
    Procs = {q1, q2, q3}
    Cfgs = {good1, good2, bad}
    ValidCfgs = {good1, good2}
    MaxStray = 1
    NoThread = NoThread
    NoProc = NoProc
    NoCfg = NoCfg
    Partial = Partial
SYMMETRY Symm
INVARIANTS
    NoLostRestart
    FaithfulCurrent
    StrayOnlyFromSpawnRace
    SettledAgrees
PROPERTIES
    Reconciles
