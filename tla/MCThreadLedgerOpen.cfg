SPECIFICATION Spec
CONSTANTS
    Tids = {1, 2}
    Cpus = {0, 1, 2}
    top = top
    bg = bg
    Root = Root
    NoGroup = NoGroup
    Groups <- TwoGroups
    GroupCpus <- OpenCpus
    Names = {"UnityMain", "Worker"}
    Rule <- Rules
    Clusters <- OneCluster
    OfficialMasks = {{0, 1}}
    Moves = FALSE
    RingSize = 2
    Budget = 5
INVARIANT NoOrphan
PROPERTY RestoresBaseline
