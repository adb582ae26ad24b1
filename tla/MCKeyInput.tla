----------------------------- MODULE MCKeyInput -----------------------------
(* Two keys, one of which opens the editor, and periods of a few ticks.     *)
EXTENDS KeyInput

CONSTANTS digit, enter, mainCycle, keyTiming
MCKey == {digit, enter}
MCDigit == {digit}
MCTimer == {mainCycle, keyTiming}
MCPeriod == {1, 2, 3}
=============================================================================
