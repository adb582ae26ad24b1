CONSTANTS
    zero = zero
    one = one
    Block <- MCBlock
    HostPrm <- MCOne
    MAX_KEEP_LIVE_TIME = 1
    Refuses <- MCRefuses
    Garbage <- MCAnyStatus
    FirstIndex = 32
    LastIndex = 34
    Window = 3
    LineCap = 1
    NoIndex = NoIndex
    Sample = Sample
    Noise = Noise
    Worlds <- MCPerfect
SPECIFICATION FairSpec
PROPERTIES
    OfflineIsNoticed
