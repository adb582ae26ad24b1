CONSTANTS
    digit = digit
    enter = enter
    mainCycle = mainCycle
    keyTiming = keyTiming
    Key <- MCKey
    Digit <- MCDigit
    KEY_NONE = KEY_NONE
    Timer <- MCTimer
    Period <- MCPeriod
    MAIN_CYCLE_TIMING <- mainCycle
    KEY_TIMING <- keyTiming
    CTRL_PERIOD = 2
    CONFIRM_KEY_PRESS_CNT = 2
    CONFIRM_KEY_LONG_PRESS_CNT = 3
    CONFIRM_KEY_CONTINUE_PRESS_CNT = 2
    SHORT_PRESS_WAIT_CNT = 1
SPECIFICATION KeySpec
INVARIANTS
    TypeOK
    NeverEarly
    OneTurnPerPeriod
    ReportNamesSeenKey
PROPERTIES
    ReportsArePaced
    HeldKeyRepeats
