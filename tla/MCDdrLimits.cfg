SPECIFICATION Spec
CONSTANTS
    Paths = {1, 2}
    MaxLevel = 3
    Profiles <- MCProfiles
    Curve <- MCCurve
    StartMin = {1}
    StartMax = {3}
    Limit = 2
    Budget = 2
    MaxEdits = 1
    SameStamps = FALSE
INVARIANTS
    CapGivesBack
    CapAboveFloor
PROPERTIES
    CapHolds
    TurnsOff
CHECK_DEADLOCK FALSE
