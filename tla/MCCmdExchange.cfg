CONSTANTS
    tare = tare
    step = step
    Command <- MCCommand
    NoCommand = NoCommand
    FirstIndex = 32
    LastIndex = 34
    Window = 3
    LineCap = 2
    NoIndex = NoIndex
    Sample = Sample
    Noise = Noise
    Worlds <- MCWorlds
SPECIFICATION FairSpec
INVARIANTS
    TypeOK
    IndexIdentifies
    CarriedOutOnce
PROPERTIES
    SuccessMeansExecuted
    Terminates
