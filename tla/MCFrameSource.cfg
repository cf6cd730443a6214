SPECIFICATION Spec
CONSTANTS
    Apps = {"a", "b", "home"}
    FasApps = {"a", "b"}
    Procs = {a1, a2, b1}
    AppOf <- MCAppOf
    Keys = {s1, s2}
    None = None
    s1 = s1
    a1 = a1
    a2 = a2
    b1 = b1
    s2 = s2
    RingSize = 2
    History = 2
    Limit = 1
    MinFrames = 1
    Slack = 1
    MaxGap = 1
    Fresh = 1
    Stale = 2
    MaxTime = 4
    Budget = 2
INVARIANTS
    TypeOK
    OwnFrames
PROPERTIES
    NothingTwice
    HandsOverAll
CHECK_DEADLOCK FALSE
SYMMETRY Alike
