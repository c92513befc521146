SPECIFICATION RegistrySpec
CONSTANTS
    n1 = n1
    n2 = n2
    llama = llama
    qwen = qwen
    Absent = Absent
    Nodes <- TwoNodes
    Models <- TwoModels
    Configs <- OneChanges
    Advertised <- LookedUp
    MissedLimit = 2
    MaxDelay = 1
    MaxChanges = 1
    Ahead <- OneLags
INVARIANTS
    FreshAsHeard
    RoutesFollowNews
PROPERTIES
    HeardNodesStay
    NobodyStaysForNothing
    StoppedNodesGo
