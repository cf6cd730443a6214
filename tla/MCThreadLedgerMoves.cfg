SPECIFICATION Spec
CONSTANTS
    Tids = {1, 2}
    Cpus = {0, 1, 2}
    top = top
    bg = bg
    Root = Root
    NoGroup = NoGroup
    Groups <- TwoGroups
    GroupCpus <- NarrowCpus
    Names = {"UnityMain", "Worker"}
    Rule <- Rules
    Clusters <- OneCluster
    OfficialMasks = {{2}}
    Moves = FALSE
    RingSize = 2
    Budget = 6
PROPERTY MovesAreUndone
