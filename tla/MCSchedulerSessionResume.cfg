SPECIFICATION Spec
CONSTANTS
    Pids = 1
    Names = {"leader", "worker"}
    Leader = "leader"
    RoleOf <- MCRoles
    Clusters = {"little", "big"}
    YieldStreak = 2
    ExitEvents = TRUE
    Budget = 2
    None = None
    Full = Full

PROPERTY LockedBinds
CHECK_DEADLOCK FALSE
