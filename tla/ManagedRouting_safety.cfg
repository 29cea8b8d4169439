SPECIFICATION Spec
CONSTANTS
    x = x
    y = y
    direct = direct
    t1 = t1
    t2 = t2
    o1 = o1
    o2 = o2
    r1 = r1
    r2 = r2
    r3 = r3
    m1 = m1
    m2 = m2
    Requests = {x, y}
    SystemTags = {direct}
    UserTags = {t1, t2}
    Oids = {direct, o1, o2}
    Rids = {r1, r2}
    Matches = {m1, m2}
    AiMatches = {m1}
    BadMatches = {m2}
    None = None
SYMMETRY Symm
VIEW ButAnswer
INVARIANTS
    DanglingOnlyByRenameOrLateAdd
PROPERTIES
    ManagedCommitsAreValid
    TemplateNeverDuplicates
