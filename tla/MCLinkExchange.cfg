CONSTANTS
    zero = zero
    one = one
    Block <- MCBlock
    HostPrm <- MCAlike
    MAX_KEEP_LIVE_TIME = 1
    Refuses <- MCRefuses
    Garbage <- MCAnyStatus
    FirstIndex = 32
    LastIndex = 34
    Window = 3
    LineCap = 2
    NoIndex = NoIndex
    Sample = Sample
    Noise = Noise
    Worlds <- MCWorlds
SPECIFICATION FairSpec
INVARIANTS
    TypeOK
    CheckedStaysEqual
PROPERTIES
    LinkedMeansReady
    RelinkReturns
    LinksAgain
