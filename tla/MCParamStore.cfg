CONSTANTS
    Area <- AllOfThem
    Bits <- MCBits
    Kept <- MCKept
    Reached <- AllOfThem
    NoWrite = NoWrite
    Tries = 3
    MaxFaults = 2
    DEFAULT_PASSWORD <- MCDefault
    SaveOrders <- MCSaveOrders
    MaxChanges = 1
    MaxMishaps = 1
SPECIFICATION Spec
INVARIANTS
    TypeOK KeptSurvives RestoredIsBackup DatedIsOneState BackupIsOfTheFlash
PROPERTIES
    SavesAreKept StartsUp
