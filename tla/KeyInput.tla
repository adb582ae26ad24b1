------------------------------ MODULE KeyInput ------------------------------
(***************************************************************************)
(* The keypad: KeyProcessCycle (typewrite.c) as the loops of the pages run *)
(* it, over the soft timers of SoftTimer.  The main page and the force     *)
(* calibration start a turn of their loop when MAIN_CYCLE_TIMING has run   *)
(* down; dialogs and the text editor scan the keypad without waiting.      *)
(* Between any two steps the user may press or release keys and the        *)
(* SysTick interrupt may come.                                             *)
(*                                                                         *)
(* A key is reported for one turn: STATUS_KEY_SHORT_PRESS when it was      *)
(* released in time, STATUS_KEY_LONG_PRESS again and again when not.       *)
(***************************************************************************)
EXTENDS SoftTimer

CONSTANTS Key, KEY_NONE,            \* what GetKey can return
          Digit,                    \* the keys that open the text editor
          MAIN_CYCLE_TIMING, KEY_TIMING,
          CTRL_PERIOD,
          CONFIRM_KEY_PRESS_CNT, CONFIRM_KEY_LONG_PRESS_CNT,
          CONFIRM_KEY_CONTINUE_PRESS_CNT, SHORT_PRESS_WAIT_CNT

ASSUME KeyAssumption ==
    /\ KEY_NONE \notin Key /\ Digit \subseteq Key
    /\ {MAIN_CYCLE_TIMING, KEY_TIMING} \subseteq Timer /\ MAIN_CYCLE_TIMING # KEY_TIMING
    /\ {CTRL_PERIOD, CONFIRM_KEY_PRESS_CNT, CONFIRM_KEY_LONG_PRESS_CNT,
        CONFIRM_KEY_CONTINUE_PRESS_CNT, SHORT_PRESS_WAIT_CNT} \subseteq Period

VARIABLES down,             \* the key whose contacts are closed
          value, recordValue, status,       \* g_key
          putinValue,       \* Putin->value of an editor that is being opened
          pc,               \* where the foreground is in its turn
          turned,           \* history: turns of the main loop begun since its timer expired last
          confirming,       \* history: ticks since the scan that first saw the press
          reported,         \* history: ticks since the last report
          seen              \* history: the keys scans have seen since the press began

keyVars == <<value, recordValue, status, putinValue>>
history == <<turned, confirming, reported, seen>>
vars == <<timerVars, down, keyVars, pc, history>>

Timed == {"WAIT", "PRESS", "SHORT_WAIT", "PRESS_LEAVE"}     \* the states that ask KEY_TIMING
Reported == status \in {"SHORT_PRESS", "LONG_PRESS"}        \* IsPressKey

LongestTime ==      \* bound of the histories
    CONFIRM_KEY_PRESS_CNT + CONFIRM_KEY_LONG_PRESS_CNT + CONFIRM_KEY_CONTINUE_PRESS_CNT
Later(n) == IF n < LongestTime THEN n + 1 ELSE n

InitKeyCheck ==
    /\ value = KEY_NONE /\ recordValue = KEY_NONE /\ status = "NO_PRESS" /\ putinValue = KEY_NONE

Init ==
    /\ s_tTmr = [t \in Timer |->
           IF t = MAIN_CYCLE_TIMING
           THEN [Count |-> CTRL_PERIOD, PreLoad |-> CTRL_PERIOD, Flag |-> 0, Mode |-> "TMR_AUTO_MODE"]
           ELSE [Count |-> 0, PreLoad |-> 0, Flag |-> 0, Mode |-> "TMR_ONCE_MODE"]]
    /\ elapsed = [t \in Timer |-> 0]
    /\ InitKeyCheck
    /\ down = KEY_NONE
    /\ pc = "turn"
    /\ turned = 0 /\ confirming = 0 /\ reported = LongestTime /\ seen = {}

-----------------------------------------------------------------------------
(* The environment.                                                        *)

Tick ==
    /\ SysTick_ISR
    /\ turned' = IF Expires(MAIN_CYCLE_TIMING) THEN 0 ELSE turned
    /\ confirming' = Later(confirming) /\ reported' = Later(reported)
    /\ UNCHANGED <<down, keyVars, pc, seen>>

Contacts(key) ==        \* pressed, released, bouncing
    /\ down # key /\ down' = key
    /\ UNCHANGED <<timerVars, keyVars, pc, history>>

-----------------------------------------------------------------------------
(* One turn of a page's loop.                                              *)

TurnDue ==              \* while (!bsp_CheckTimer(MAIN_CYCLE_TIMING));
    /\ pc = "turn" /\ CheckSees(MAIN_CYCLE_TIMING)
    /\ pc' = "turnDue"
    /\ UNCHANGED <<down, keyVars, history>>

TurnUncleared ==        \* mutant: the flag is left set
    /\ pc = "turnDue" /\ pc' = "scan"
    /\ turned' = IF turned < 2 THEN turned + 1 ELSE turned
    /\ UNCHANGED <<timerVars, down, keyVars, confirming, reported, seen>>

TurnBegins ==
    /\ pc = "turnDue" /\ CheckClears(MAIN_CYCLE_TIMING)
    /\ pc' = "scan"
    /\ turned' = IF turned < 2 THEN turned + 1 ELSE turned
    /\ UNCHANGED <<down, keyVars, confirming, reported, seen>>

ScanRecordsAlways ==    \* mutant: the press is not remembered from its first scan
    /\ pc = "scan" /\ pc' = "switch"
    /\ value' = down /\ recordValue' = down
    /\ seen' = IF down = KEY_NONE THEN seen ELSE IF status = "NO_PRESS" THEN {down} ELSE seen \cup {down}
    /\ UNCHANGED <<timerVars, down, status, putinValue, turned, confirming, reported>>

Scan ==                 \* g_key.value = GetKey()
    /\ pc = "scan" /\ pc' = "switch"
    /\ value' = down
    /\ recordValue' = IF status = "NO_PRESS" /\ down # KEY_NONE THEN down ELSE recordValue
    /\ seen' = IF down = KEY_NONE THEN seen ELSE IF status = "NO_PRESS" THEN {down} ELSE seen \cup {down}
    /\ UNCHANGED <<timerVars, down, status, putinValue, turned, confirming, reported>>

FirstSeen ==            \* STATUS_KEY_NO_PRESS
    /\ pc = "switch" /\ status = "NO_PRESS" /\ pc' = "tasks"
    /\ IF value # KEY_NONE
       THEN status' = "WAIT" /\ bsp_StartTimer(KEY_TIMING, CONFIRM_KEY_PRESS_CNT) /\ confirming' = 0
       ELSE UNCHANGED <<status, timerVars, confirming>>
    /\ UNCHANGED <<down, value, recordValue, putinValue, turned, reported, seen>>

AfterReportUntimed ==   \* mutant: the timer of a repetition is not started
    /\ pc = "switch" /\ Reported /\ pc' = "tasks"
    /\ IF status = "SHORT_PRESS"
       THEN status' = "SHORT_WAIT" /\ bsp_StartTimer(KEY_TIMING, SHORT_PRESS_WAIT_CNT)
       ELSE status' = "PRESS_LEAVE" /\ UNCHANGED timerVars
    /\ UNCHANGED <<down, value, recordValue, putinValue, history>>

AfterReport ==          \* STATUS_KEY_SHORT_PRESS, STATUS_KEY_LONG_PRESS
    /\ pc = "switch" /\ Reported /\ pc' = "tasks"
    /\ IF status = "SHORT_PRESS"
       THEN status' = "SHORT_WAIT" /\ bsp_StartTimer(KEY_TIMING, SHORT_PRESS_WAIT_CNT)
       ELSE status' = "PRESS_LEAVE" /\ bsp_StartTimer(KEY_TIMING, CONFIRM_KEY_CONTINUE_PRESS_CNT)
    /\ UNCHANGED <<down, value, recordValue, putinValue, history>>

NotYet ==               \* KEY_TIMING has not run down
    /\ pc = "switch" /\ status \in Timed /\ s_tTmr[KEY_TIMING].Flag = 0 /\ pc' = "tasks"
    /\ CASE status = "PRESS" /\ value = KEY_NONE ->
                status' = "SHORT_PRESS" /\ value' = recordValue /\ reported' = 0
         [] status = "PRESS_LEAVE" /\ value = KEY_NONE ->
                status' = "NO_PRESS" /\ UNCHANGED <<value, reported>>
         [] OTHER -> UNCHANGED <<status, value, reported>>
    /\ UNCHANGED <<timerVars, down, recordValue, putinValue, turned, confirming, seen>>

KeyTimerSeen ==
    /\ pc = "switch" /\ status \in Timed /\ CheckSees(KEY_TIMING)
    /\ pc' = "keyDue"
    /\ UNCHANGED <<down, keyVars, history>>

KeyTimerCleared ==
    /\ pc = "keyDue" /\ CheckClears(KEY_TIMING)
    /\ pc' = "expired"
    /\ UNCHANGED <<down, keyVars, history>>

Confirm ==              \* STATUS_KEY_WAIT, 20 ms later
    /\ pc = "expired" /\ status = "WAIT" /\ pc' = "tasks"
    /\ IF value # KEY_NONE
       THEN status' = "PRESS" /\ bsp_StartTimer(KEY_TIMING, CONFIRM_KEY_LONG_PRESS_CNT)
       ELSE status' = "NO_PRESS" /\ UNCHANGED timerVars
    /\ UNCHANGED <<down, value, recordValue, putinValue, history>>

\* The first long press reports what this scan saw, a repetition what the
\* first scan of the press saw.
LongPress ==            \* STATUS_KEY_PRESS, STATUS_KEY_PRESS_LEAVE
    /\ pc = "expired" /\ status \in {"PRESS", "PRESS_LEAVE"} /\ pc' = "tasks"
    /\ status' = "LONG_PRESS"
    /\ value' = IF status = "PRESS_LEAVE" THEN recordValue ELSE value
    /\ reported' = 0
    /\ UNCHANGED <<timerVars, down, recordValue, putinValue, turned, confirming, seen>>

ShortWaited ==          \* STATUS_KEY_SHORT_WAIT
    /\ pc = "expired" /\ status = "SHORT_WAIT" /\ pc' = "tasks"
    /\ status' = "NO_PRESS"
    /\ UNCHANGED <<timerVars, down, value, recordValue, putinValue, history>>

-----------------------------------------------------------------------------
(* What follows the scan in the turn.                                      *)

NextTurn ==             \* the main page's loop waits, a dialog's and the editor's do not
    /\ (pc = "tasks" /\ putinValue = KEY_NONE) \/ pc = "edit"
    /\ pc' \in {"turn", "scan"}
    /\ UNCHANGED <<timerVars, down, keyVars, history>>

EditorOpens ==          \* KeyPutinChars, the key that opened it is its first
    /\ pc = "tasks" /\ putinValue = KEY_NONE
    /\ Reported /\ value \in Digit
    /\ putinValue' = value /\ pc' = "scan"
    /\ UNCHANGED <<timerVars, down, value, recordValue, status, history>>

AnalogKeyValue ==       \* the scan has overwritten that key: it is reported once more
    /\ pc = "tasks" /\ putinValue # KEY_NONE
    /\ status' = "SHORT_PRESS" /\ value' = putinValue /\ putinValue' = KEY_NONE
    /\ reported' = 0 /\ seen' = seen \cup {putinValue}
    /\ pc' = "edit"
    /\ UNCHANGED <<timerVars, down, recordValue, turned, confirming>>

Foreground ==
    \/ TurnDue \/ TurnBegins
    \/ Scan \/ FirstSeen \/ AfterReport \/ NotYet \/ KeyTimerSeen \/ KeyTimerCleared
    \/ Confirm \/ LongPress \/ ShortWaited
    \/ NextTurn \/ EditorOpens \/ AnalogKeyValue

KeyNext ==
    \/ Tick
    \/ \E key \in Key \cup {KEY_NONE} : Contacts(key)
    \/ Foreground

KeySpec == Init /\ [][KeyNext]_vars /\ WF_vars(Tick) /\ WF_vars(Foreground)

-----------------------------------------------------------------------------
TypeOK ==
    /\ TimerTypeOK
    /\ down \in Key \cup {KEY_NONE} /\ value \in Key \cup {KEY_NONE}
    /\ recordValue \in Key \cup {KEY_NONE} /\ putinValue \in Digit \cup {KEY_NONE}
    /\ status \in Timed \cup {"NO_PRESS", "SHORT_PRESS", "LONG_PRESS"}
    /\ pc \in {"turn", "turnDue", "scan", "switch", "keyDue", "expired", "tasks", "edit"}
    /\ turned \in 0..2 /\ confirming \in 0..LongestTime /\ reported \in 0..LongestTime
    /\ seen \subseteq Key

\* The main loop does not get ahead of its 50 Hz: however late a turn comes and
\* whatever the interrupt does to the flag while it is looked at, no two turns
\* begin between two expiries of MAIN_CYCLE_TIMING.
OneTurnPerPeriod == turned <= 1

\* A report names a key of this press: a short press and a repetition one a
\* scan has seen since the press began, never a key left over from the press
\* before; only the first report of a long press, released in the very scan in
\* which its time is up, can name no key.
ReportNamesSeenKey ==
    /\ pc \in {"tasks", "edit"} /\ status = "SHORT_PRESS" => value \in seen
    /\ pc \in {"tasks", "edit"} /\ status = "LONG_PRESS" => value \in seen \cup {KEY_NONE}
    /\ status = "PRESS_LEAVE" => recordValue \in seen

\* Contacts that bounce are not reported, and a key that is held is repeated
\* no faster than it should be: a short press comes CONFIRM_KEY_PRESS_CNT after
\* the scan that first saw it, a long one CONFIRM_KEY_LONG_PRESS_CNT later, a
\* repetition CONFIRM_KEY_CONTINUE_PRESS_CNT after the report before, although
\* all of them share one timer that is restarted while it runs.
ReportsArePaced ==
    [][/\ status = "PRESS" /\ status' = "SHORT_PRESS" /\ ~ AnalogKeyValue
              => confirming >= CONFIRM_KEY_PRESS_CNT
       /\ status = "PRESS" /\ status' = "LONG_PRESS"
              => confirming >= CONFIRM_KEY_PRESS_CNT + CONFIRM_KEY_LONG_PRESS_CNT
       /\ status = "PRESS_LEAVE" /\ status' = "LONG_PRESS"
              => reported >= CONFIRM_KEY_CONTINUE_PRESS_CNT]_vars

\* While keys are held, long presses are reported without end.
HeldKeyRepeats == <>[](down # KEY_NONE) => []<>(status = "LONG_PRESS")
=============================================================================
