CONSTANTS
    tare = tare
    step = step
    Command <- MCCommand
    NoCommand = NoCommand
    FirstIndex = 32
    LastIndex = 34
    Window = 3
    LineCap = 3
    NoIndex = NoIndex
    Sample = Sample
    Noise = Noise
    Worlds <- MCLate
SPECIFICATION Spec
INVARIANTS
    StatusIsOfThisCommand
