CONSTANTS
    Byte <- MCByte
    Blank = 0
    None = None
    TxBufSize = 3
    RxBufSize = 2
SPECIFICATION FairSpec
INVARIANTS
    TypeOK
    RingsAgree
    NeverStalled
PROPERTIES
    TxIsFifo
    RxIsFifo
    TxProgress
