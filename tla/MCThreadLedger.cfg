SPECIFICATION Spec
CONSTANTS
    Tids = {1, 2}
    Cpus = {0, 1, 2}
    top = top
    bg = bg
    Root = Root
    NoGroup = NoGroup
    Groups <- TwoGroups
    GroupCpus <- NarrowCpus
    Names = {"UnityMain", "Worker"}
    Rule <- TwoRules
    Clusters <- OneCluster
    OfficialMasks = {{2}}
    Moves = TRUE
    RingSize = 2
    Budget = 4
INVARIANTS
    BindingsAreUndoable
    BaselineIsNotOurs
PROPERTY Converges
