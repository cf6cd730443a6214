SPECIFICATION Spec
CONSTANTS
    Pids = 1
    Names = {"leader", "engine", "worker"}
    Leader = "leader"
    RoleOf <- MCRoles
    Clusters = {"little"}
    YieldStreak = 2
    ExitEvents = TRUE
    Budget = 2
    None = None
    Full = Full
INVARIANTS TypeOK OnlyForegroundBound
PROPERTIES LatchKept LearningEnds GuardRepairs PauseReleases DeadLatchGoes
CHECK_DEADLOCK FALSE
