SPECIFICATION RegistrySpec
CONSTANTS
    n1 = n1
    n2 = n2
    llama = llama
    qwen = qwen
    Absent = Absent
    Nodes <- TwoNodes
    Models <- TwoModels
    Configs <- OneChanges
    Advertised <- LookedUp
    MissedLimit = 2
    MaxDelay = 0
    MaxChanges = 0
    Ahead <- LagsPastTheWindow
PROPERTIES
    PrunedOnlyIfUnheard
