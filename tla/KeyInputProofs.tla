--------------------------- MODULE KeyInputProofs ---------------------------
(***************************************************************************)
(* Proofs about the soft timers and the keypad, for any set of timers, any *)
(* periods and any keys.                                                   *)
(***************************************************************************)
EXTENDS KeyInput, TLAPS

Modes == {"TMR_ONCE_MODE", "TMR_AUTO_MODE"}
TimerRecord == [Count : Nat, PreLoad : Period \cup {0}, Flag : {0, 1}, Mode : Modes]

\* A timer and its ticks, by themselves.
Sound(tmr, ticks) ==
    /\ tmr.Count <= tmr.PreLoad /\ ticks <= tmr.PreLoad
    /\ OnTime(tmr, ticks)
TimerInv == TimerTypeOK /\ NeverEarly /\ \A t \in Timer : elapsed[t] <= s_tTmr[t].PreLoad

LEMMA TimerInvAlt ==
    TimerInv <=> /\ s_tTmr \in [Timer -> TimerRecord] /\ elapsed \in [Timer -> Nat]
                 /\ \A t \in Timer : Sound(s_tTmr[t], elapsed[t])
  BY DEF TimerInv, TimerTypeOK, NeverEarly, Sound, TimerRecord, Modes

LEMMA DecSound ==
    ASSUME NEW tmr \in TimerRecord, NEW e \in Nat, Sound(tmr, e),
           NEW later, later = (IF e < tmr.PreLoad THEN e + 1
                               ELSE IF tmr.Mode = "TMR_AUTO_MODE" THEN 1 ELSE e)
    PROVE  /\ bsp_SoftTimerDec(tmr) \in TimerRecord
           /\ later \in Nat
           /\ Sound(bsp_SoftTimerDec(tmr), later)
  <1> DEFINE dec == bsp_SoftTimerDec(tmr)
  <1>1. /\ tmr.Count \in Nat /\ tmr.PreLoad \in Period \cup {0} /\ tmr.PreLoad \in Nat
        /\ tmr.Flag \in {0, 1} /\ tmr.Mode \in Modes
        /\ tmr.Count <= tmr.PreLoad /\ e <= tmr.PreLoad /\ OnTime(tmr, e)
    <2>1. /\ tmr.Count \in Nat /\ tmr.PreLoad \in Period \cup {0}
          /\ tmr.Flag \in {0, 1} /\ tmr.Mode \in Modes
      BY DEF TimerRecord
    <2>2. tmr.PreLoad \in Nat
      <3>1. \A p \in Period \cup {0} : p \in Nat BY TimerAssumption
      <3> QED BY <2>1, <3>1
    <2>3. tmr.Count <= tmr.PreLoad /\ e <= tmr.PreLoad /\ OnTime(tmr, e) BY DEF Sound
    <2> QED BY <2>1, <2>2, <2>3
  <1>2. CASE tmr.Count > 1
    <2>1. dec = [Count |-> tmr.Count - 1, PreLoad |-> tmr.PreLoad, Flag |-> tmr.Flag, Mode |-> tmr.Mode]
      BY <1>1, <1>2 DEF bsp_SoftTimerDec, TimerRecord
    <2>2. dec \in TimerRecord BY <1>1, <1>2, <2>1 DEF TimerRecord
    <2>3. /\ dec.Count = tmr.Count - 1 /\ dec.PreLoad = tmr.PreLoad
          /\ dec.Flag = tmr.Flag /\ dec.Mode = tmr.Mode
      BY <2>1
    <2> HIDE DEF dec
    <2>4. later \in Nat /\ Sound(dec, later) BY <1>1, <1>2, <2>3 DEF Sound, OnTime, Modes
    <2> QED BY <2>2, <2>4 DEF dec
  <1>3. CASE tmr.Count = 1 /\ tmr.Mode = "TMR_AUTO_MODE"
    <2>1. dec = [Count |-> tmr.PreLoad, PreLoad |-> tmr.PreLoad, Flag |-> 1, Mode |-> tmr.Mode]
      <3>1. dec = [tmr EXCEPT !.Flag = 1, !.Count = tmr.PreLoad] BY <1>1, <1>3 DEF bsp_SoftTimerDec
      <3> QED BY <3>1 DEF TimerRecord
    <2>2. dec \in TimerRecord BY <1>1, <1>3, <2>1 DEF TimerRecord
    <2>3. /\ dec.Count = tmr.PreLoad /\ dec.PreLoad = tmr.PreLoad
          /\ dec.Flag = 1 /\ dec.Mode = tmr.Mode
      BY <2>1
    <2> HIDE DEF dec
    <2>4. later \in Nat /\ Sound(dec, later) BY <1>1, <1>3, <2>3 DEF Sound, OnTime, Modes
    <2> QED BY <2>2, <2>4 DEF dec
  <1>4. CASE tmr.Count = 1 /\ tmr.Mode # "TMR_AUTO_MODE"
    <2>1. dec = [Count |-> 0, PreLoad |-> tmr.PreLoad, Flag |-> 1, Mode |-> tmr.Mode]
      <3>1. dec = [tmr EXCEPT !.Flag = 1, !.Count = 0] BY <1>1, <1>4 DEF bsp_SoftTimerDec
      <3> QED BY <3>1 DEF TimerRecord
    <2>2. dec \in TimerRecord BY <1>1, <1>4, <2>1 DEF TimerRecord
    <2>3. /\ dec.Count = 0 /\ dec.PreLoad = tmr.PreLoad
          /\ dec.Flag = 1 /\ dec.Mode = tmr.Mode
      BY <2>1
    <2> HIDE DEF dec
    <2>4. later \in Nat /\ Sound(dec, later) BY <1>1, <1>4, <2>3 DEF Sound, OnTime, Modes
    <2> QED BY <2>2, <2>4 DEF dec
  <1>5. CASE tmr.Count = 0
    <2>1. dec = [Count |-> 0, PreLoad |-> tmr.PreLoad, Flag |-> tmr.Flag, Mode |-> tmr.Mode]
      BY <1>1, <1>5 DEF bsp_SoftTimerDec, TimerRecord
    <2>2. dec \in TimerRecord BY <1>1, <1>5, <2>1 DEF TimerRecord
    <2>3. /\ dec.Count = 0 /\ dec.PreLoad = tmr.PreLoad
          /\ dec.Flag = tmr.Flag /\ dec.Mode = tmr.Mode
      BY <2>1
    <2> HIDE DEF dec
    <2>4. later \in Nat /\ Sound(dec, later) BY <1>1, <1>5, <2>3 DEF Sound, OnTime, Modes
    <2> QED BY <2>2, <2>4 DEF dec
  <1> QED BY <1>1, <1>2, <1>3, <1>4, <1>5

LEMMA TickSound == ASSUME TimerInv, SysTick_ISR PROVE TimerInv'
  <1>1. ASSUME NEW t \in Timer
        PROVE  /\ s_tTmr'[t] \in TimerRecord /\ elapsed'[t] \in Nat
               /\ Sound(s_tTmr'[t], elapsed'[t])
    <2>1. /\ s_tTmr[t] \in TimerRecord /\ elapsed[t] \in Nat /\ Sound(s_tTmr[t], elapsed[t])
      BY <1>1, TimerInvAlt
    <2>2. s_tTmr'[t] = bsp_SoftTimerDec(s_tTmr[t]) /\ elapsed'[t] = Aged(t)
      BY <1>1 DEF SysTick_ISR
    <2> QED BY <2>1, <2>2, DecSound DEF Aged
  <1>2. s_tTmr' \in [Timer -> TimerRecord] /\ elapsed' \in [Timer -> Nat]
    BY <1>1 DEF SysTick_ISR
  <1> QED BY <1>1, <1>2, TimerInvAlt DEF TimerInv, TimerTypeOK, NeverEarly, Sound, TimerRecord, Modes

LEMMA StartSound ==
    ASSUME TimerInv, NEW t \in Timer, NEW p \in Period, NEW mode \in Modes, Start(t, p, mode)
    PROVE  TimerInv'
  <1> DEFINE new == [Count |-> p, PreLoad |-> p, Flag |-> 0, Mode |-> mode]
  <1>1. s_tTmr \in [Timer -> TimerRecord] /\ elapsed \in [Timer -> Nat] BY TimerInvAlt
  <1>2. p \in Nat /\ p > 0 BY TimerAssumption
  <1>3. new \in TimerRecord BY <1>2 DEF TimerRecord
  <1>4. Sound(new, 0) BY <1>2 DEF Sound, OnTime, Modes
  <1>5. /\ s_tTmr' = [s_tTmr EXCEPT ![t] = new] /\ elapsed' = [elapsed EXCEPT ![t] = 0]
    BY DEF Start
  <1> HIDE DEF new
  <1>6. s_tTmr' \in [Timer -> TimerRecord] /\ elapsed' \in [Timer -> Nat] BY <1>1, <1>3, <1>5
  <1>7. ASSUME NEW u \in Timer PROVE Sound(s_tTmr'[u], elapsed'[u])
    <2>1. CASE u = t BY <1>1, <1>4, <1>5, <2>1
    <2>2. CASE u # t BY <1>1, <1>5, <2>2, TimerInvAlt
    <2> QED BY <2>1, <2>2
  <1> QED BY <1>6, <1>7 DEF TimerInv, TimerTypeOK, NeverEarly, Sound, TimerRecord, Modes

LEMMA ClearSound == ASSUME TimerInv, NEW t \in Timer, CheckClears(t) PROVE TimerInv'
  <1> DEFINE new == [s_tTmr[t] EXCEPT !.Flag = 0]
  <1>1. s_tTmr \in [Timer -> TimerRecord] /\ elapsed \in [Timer -> Nat] BY TimerInvAlt
  <1>2. s_tTmr[t] \in TimerRecord /\ Sound(s_tTmr[t], elapsed[t]) BY TimerInvAlt
  <1>3. new \in TimerRecord BY <1>2 DEF TimerRecord
  <1>4. Sound(new, elapsed[t]) BY <1>2 DEF Sound, OnTime, TimerRecord, Modes
  <1>5. s_tTmr' = [s_tTmr EXCEPT ![t] = new] /\ elapsed' = elapsed BY DEF CheckClears
  <1> HIDE DEF new
  <1>6. s_tTmr' \in [Timer -> TimerRecord] /\ elapsed' \in [Timer -> Nat] BY <1>1, <1>3, <1>5
  <1>7. ASSUME NEW u \in Timer PROVE Sound(s_tTmr'[u], elapsed'[u])
    <2>1. CASE u = t BY <1>1, <1>4, <1>5, <2>1
    <2>2. CASE u # t BY <1>1, <1>5, <2>2, TimerInvAlt
    <2> QED BY <2>1, <2>2
  <1> QED BY <1>6, <1>7 DEF TimerInv, TimerTypeOK, NeverEarly, Sound, TimerRecord, Modes

LEMMA StopSound == ASSUME TimerInv, NEW t \in Timer, bsp_StopTimer(t) PROVE TimerInv'
  <1> DEFINE new == [s_tTmr[t] EXCEPT !.Count = 0, !.Flag = 0, !.Mode = "TMR_ONCE_MODE"]
  <1>1. s_tTmr \in [Timer -> TimerRecord] /\ elapsed \in [Timer -> Nat] BY TimerInvAlt
  <1>2. s_tTmr[t] \in TimerRecord /\ Sound(s_tTmr[t], elapsed[t]) BY TimerInvAlt
  <1>3. new \in TimerRecord BY <1>2 DEF TimerRecord, Modes
  <1>4. Sound(new, elapsed[t]) BY <1>2, TimerAssumption DEF Sound, OnTime, TimerRecord, Modes
  <1>5. s_tTmr' = [s_tTmr EXCEPT ![t] = new] /\ elapsed' = elapsed BY DEF bsp_StopTimer
  <1> HIDE DEF new
  <1>6. s_tTmr' \in [Timer -> TimerRecord] /\ elapsed' \in [Timer -> Nat] BY <1>1, <1>3, <1>5
  <1>7. ASSUME NEW u \in Timer PROVE Sound(s_tTmr'[u], elapsed'[u])
    <2>1. CASE u = t BY <1>1, <1>4, <1>5, <2>1
    <2>2. CASE u # t BY <1>1, <1>5, <2>2, TimerInvAlt
    <2> QED BY <2>1, <2>2
  <1> QED BY <1>6, <1>7 DEF TimerInv, TimerTypeOK, NeverEarly, Sound, TimerRecord, Modes

LEMMA SameSound == ASSUME TimerInv, UNCHANGED timerVars PROVE TimerInv'
  BY DEF timerVars, TimerInv, TimerTypeOK, NeverEarly

-----------------------------------------------------------------------------
\* Whoever uses the timers, and however: no timer says early that it ran down.
THEOREM TimersNeverEarly == Spec => []NeverEarly
  <1>1. bsp_InitTimer => TimerInv
    BY DEF bsp_InitTimer, TimerInv, TimerTypeOK, NeverEarly, OnTime
  <1>2. TimerInv /\ [Next]_timerVars => TimerInv'
    <2> SUFFICES ASSUME TimerInv, [Next]_timerVars PROVE TimerInv' OBVIOUS
    <2>1. CASE SysTick_ISR BY <2>1, TickSound
    <2>2. ASSUME NEW t \in Timer, NEW p \in Period, bsp_StartTimer(t, p) \/ bsp_StartAutoTimer(t, p)
          PROVE TimerInv'
      BY <2>2, StartSound DEF bsp_StartTimer, bsp_StartAutoTimer, Modes
    <2>3. ASSUME NEW t \in Timer, bsp_StopTimer(t) PROVE TimerInv' BY <2>3, StopSound
    <2>4. ASSUME NEW t \in Timer, CheckClears(t) PROVE TimerInv' BY <2>4, ClearSound
    <2>5. CASE UNCHANGED timerVars BY <2>5, SameSound
    <2> QED BY <2>1, <2>2, <2>3, <2>4, <2>5 DEF Next
  <1>3. TimerInv => NeverEarly BY DEF TimerInv
  <1> QED BY <1>1, <1>2, <1>3, PTL DEF Spec

-----------------------------------------------------------------------------
(* The keypad.                                                             *)

K == s_tTmr[KEY_TIMING]
ScanPcs == {"switch", "keyDue", "expired"}
TaskPcs == {"tasks", "edit"}

TurnInv ==
    /\ s_tTmr[MAIN_CYCLE_TIMING].Flag = 1 => turned = 0
    /\ pc = "turnDue" => s_tTmr[MAIN_CYCLE_TIMING].Flag = 1
    /\ turned \in 0..1

NameInv ==
    /\ seen \subseteq Key
    /\ down \in Key \cup {KEY_NONE} /\ putinValue \in Key \cup {KEY_NONE}
    /\ putinValue # KEY_NONE => recordValue # KEY_NONE
    /\ recordValue # KEY_NONE => recordValue \in seen
    /\ status # "NO_PRESS" => recordValue # KEY_NONE
    /\ pc \in ScanPcs => value \in seen \cup {KEY_NONE}
    /\ pc = "switch" /\ status = "NO_PRESS" /\ value # KEY_NONE => recordValue # KEY_NONE
    /\ pc \in TaskPcs /\ status = "SHORT_PRESS" => value \in seen
    /\ pc \in TaskPcs /\ status = "LONG_PRESS" => value \in seen \cup {KEY_NONE}

\* While KEY_TIMING runs for a state, the histories are not behind it.
PaceInv ==
    /\ confirming \in Nat /\ reported \in Nat
    /\ status \in {"WAIT", "PRESS", "PRESS_LEAVE"} => K.Mode = "TMR_ONCE_MODE"
    /\ status = "WAIT" => K.PreLoad = CONFIRM_KEY_PRESS_CNT /\ confirming >= elapsed[KEY_TIMING]
    /\ status = "PRESS" => /\ K.PreLoad = CONFIRM_KEY_LONG_PRESS_CNT
                           /\ confirming >= CONFIRM_KEY_PRESS_CNT + elapsed[KEY_TIMING]
    /\ status = "PRESS_LEAVE" => /\ K.PreLoad = CONFIRM_KEY_CONTINUE_PRESS_CNT
                                 /\ reported >= elapsed[KEY_TIMING]
    /\ pc \in {"keyDue", "expired"} => status \in Timed
    /\ pc = "keyDue" => K.Flag = 1
    /\ pc = "expired" /\ status # "SHORT_WAIT" => K.Count = 0 /\ elapsed[KEY_TIMING] = K.PreLoad

KeyInv == TimerInv /\ TurnInv /\ NameInv /\ PaceInv

LEMMA Constants ==
    /\ KEY_TIMING \in Timer /\ MAIN_CYCLE_TIMING \in Timer /\ MAIN_CYCLE_TIMING # KEY_TIMING
    /\ CTRL_PERIOD \in Period /\ SHORT_PRESS_WAIT_CNT \in Period
    /\ CONFIRM_KEY_PRESS_CNT \in Period /\ CONFIRM_KEY_LONG_PRESS_CNT \in Period
    /\ CONFIRM_KEY_CONTINUE_PRESS_CNT \in Period
    /\ \A p \in Period : p \in Nat /\ p > 0
  BY KeyAssumption, TimerAssumption

\* What the timer of the keypad and that of the loop are, as single timers.
LEMMA BothTimers ==
    ASSUME TimerInv
    PROVE  \A t \in {KEY_TIMING, MAIN_CYCLE_TIMING} :
               s_tTmr[t] \in TimerRecord /\ elapsed[t] \in Nat /\ Sound(s_tTmr[t], elapsed[t])
  BY Constants, TimerInvAlt

LEMMA KeyInit == Init => KeyInv
  <1> SUFFICES ASSUME Init PROVE KeyInv OBVIOUS
  <1>1. TimerInv
    <2> DEFINE main == [Count |-> CTRL_PERIOD, PreLoad |-> CTRL_PERIOD, Flag |-> 0, Mode |-> "TMR_AUTO_MODE"]
               other == [Count |-> 0, PreLoad |-> 0, Flag |-> 0, Mode |-> "TMR_ONCE_MODE"]
    <2>1. main \in TimerRecord /\ other \in TimerRecord BY Constants DEF TimerRecord, Modes
    <2>2. Sound(main, 0) /\ Sound(other, 0) BY Constants DEF Sound, OnTime
    <2>3. /\ s_tTmr = [t \in Timer |-> IF t = MAIN_CYCLE_TIMING THEN main ELSE other]
          /\ elapsed = [t \in Timer |-> 0]
      BY DEF Init
    <2> HIDE DEF main, other
    <2> QED BY <2>1, <2>2, <2>3, TimerInvAlt
  <1>2. TurnInv BY Constants DEF Init, TurnInv
  <1>3. NameInv BY DEF Init, InitKeyCheck, NameInv, ScanPcs, TaskPcs
  <1>4. PaceInv BY Constants DEF Init, InitKeyCheck, PaceInv, K, LongestTime
  <1> QED BY <1>1, <1>2, <1>3, <1>4 DEF KeyInv

-----------------------------------------------------------------------------
\* Every step of the keypad is a step of the timers.
LEMMA KeyTimers == ASSUME TimerInv, [KeyNext]_vars PROVE TimerInv'
  <1> USE Constants
  <1>1. CASE Tick BY <1>1, TickSound DEF Tick
  <1>2. ASSUME NEW key, Contacts(key) PROVE TimerInv' BY <1>2, SameSound DEF Contacts
  <1>3. CASE TurnDue BY <1>3, SameSound DEF TurnDue, CheckSees
  <1>4. CASE TurnBegins BY <1>4, ClearSound DEF TurnBegins
  <1>5. CASE Scan BY <1>5, SameSound DEF Scan
  <1>6. CASE FirstSeen BY <1>6, SameSound, StartSound DEF FirstSeen, bsp_StartTimer, Modes
  <1>7. CASE AfterReport BY <1>7, StartSound DEF AfterReport, bsp_StartTimer, Modes
  <1>8. CASE NotYet BY <1>8, SameSound DEF NotYet
  <1>9. CASE KeyTimerSeen BY <1>9, SameSound DEF KeyTimerSeen, CheckSees
  <1>10. CASE KeyTimerCleared BY <1>10, ClearSound DEF KeyTimerCleared
  <1>11. CASE Confirm BY <1>11, SameSound, StartSound DEF Confirm, bsp_StartTimer, Modes
  <1>12. CASE LongPress BY <1>12, SameSound DEF LongPress
  <1>13. CASE ShortWaited BY <1>13, SameSound DEF ShortWaited
  <1>14. CASE NextTurn BY <1>14, SameSound DEF NextTurn
  <1>15. CASE EditorOpens BY <1>15, SameSound DEF EditorOpens
  <1>16. CASE AnalogKeyValue BY <1>16, SameSound DEF AnalogKeyValue
  <1>17. CASE UNCHANGED vars BY <1>17, SameSound DEF vars
  <1> QED BY <1>1, <1>2, <1>3, <1>4, <1>5, <1>6, <1>7, <1>8, <1>9, <1>10, <1>11, <1>12, <1>13, <1>14,
             <1>15, <1>16, <1>17 DEF KeyNext, Foreground

\* The flag of the loop's timer is set by the interrupt and cleared by a turn.
mainFlag == s_tTmr[MAIN_CYCLE_TIMING].Flag

LEMMA MainFlag ==
    ASSUME TimerInv, TurnInv, [KeyNext]_vars, ~ Tick, ~ TurnBegins
    PROVE  mainFlag' = mainFlag
  <1>0. s_tTmr \in [Timer -> TimerRecord] BY TimerInvAlt
  <1>1. ASSUME NEW p, NEW mode, Start(KEY_TIMING, p, mode) PROVE mainFlag' = mainFlag
    BY <1>0, <1>1, Constants DEF Start, mainFlag
  <1>2. ASSUME CheckClears(KEY_TIMING) PROVE mainFlag' = mainFlag
    BY <1>0, <1>2, Constants DEF CheckClears, mainFlag
  <1>3. ASSUME UNCHANGED timerVars PROVE mainFlag' = mainFlag BY <1>3 DEF timerVars, mainFlag
  <1>4. CASE TurnDue BY <1>3, <1>4 DEF TurnDue, CheckSees
  <1>5. CASE Scan BY <1>3, <1>5 DEF Scan
  <1>6. CASE FirstSeen BY <1>1, <1>3, <1>6 DEF FirstSeen, bsp_StartTimer
  <1>7. CASE AfterReport BY <1>1, <1>7 DEF AfterReport, bsp_StartTimer
  <1>8. CASE NotYet BY <1>3, <1>8 DEF NotYet
  <1>9. CASE KeyTimerSeen BY <1>3, <1>9 DEF KeyTimerSeen, CheckSees
  <1>10. CASE KeyTimerCleared BY <1>2, <1>10 DEF KeyTimerCleared
  <1>11. CASE Confirm BY <1>1, <1>3, <1>11 DEF Confirm, bsp_StartTimer
  <1>12. CASE LongPress BY <1>3, <1>12 DEF LongPress
  <1>13. CASE ShortWaited BY <1>3, <1>13 DEF ShortWaited
  <1>14. CASE NextTurn BY <1>3, <1>14 DEF NextTurn
  <1>15. CASE EditorOpens BY <1>3, <1>15 DEF EditorOpens
  <1>16. CASE AnalogKeyValue BY <1>3, <1>16 DEF AnalogKeyValue
  <1>17. CASE UNCHANGED vars
    <2>1. UNCHANGED timerVars BY <1>17 DEF vars
    <2> QED BY <1>3, <2>1
  <1>18. ASSUME NEW key, Contacts(key) PROVE mainFlag' = mainFlag BY <1>3, <1>18 DEF Contacts
  <1> QED
    BY <1>4, <1>5, <1>6, <1>7, <1>8, <1>9, <1>10, <1>11, <1>12, <1>13, <1>14, <1>15, <1>16, <1>17, <1>18
       DEF KeyNext, Foreground

LEMMA KeyTurns == ASSUME TimerInv, TurnInv, [KeyNext]_vars PROVE TurnInv'
  <1> USE Constants
  <1>1. CASE Tick
    <2> DEFINE main == s_tTmr[MAIN_CYCLE_TIMING]
    <2>1. main \in TimerRecord BY TimerInvAlt
    <2>2. main' = bsp_SoftTimerDec(main) BY <1>1 DEF Tick, SysTick_ISR
    <2>3. CASE main.Count = 1
      <3>1. turned' = 0 /\ pc' = pc BY <1>1, <2>3 DEF Tick, Expires
      <3>2. main'.Flag = 1 BY <2>1, <2>2, <2>3 DEF bsp_SoftTimerDec, TimerRecord
      <3> QED BY <3>1, <3>2 DEF TurnInv
    <2>4. CASE main.Count # 1
      <3>1. turned' = turned /\ pc' = pc BY <1>1, <2>4 DEF Tick, Expires
      <3>2. main'.Flag = main.Flag BY <2>1, <2>2, <2>4 DEF bsp_SoftTimerDec, TimerRecord
      <3> QED BY <3>1, <3>2 DEF TurnInv
    <2> QED BY <2>3, <2>4
  <1>2. CASE TurnBegins
    <2>1. s_tTmr'[MAIN_CYCLE_TIMING].Flag = 0
      BY <1>2, TimerInvAlt DEF TurnBegins, CheckClears, TimerRecord
    <2>2. turned = 0 /\ turned' = 1 /\ pc' = "scan" BY <1>2 DEF TurnBegins, TurnInv
    <2> QED BY <2>1, <2>2 DEF TurnInv
  <1>3. CASE ~ Tick /\ ~ TurnBegins
    <2>1. s_tTmr'[MAIN_CYCLE_TIMING].Flag = s_tTmr[MAIN_CYCLE_TIMING].Flag BY <1>3, MainFlag DEF mainFlag
    <2>2. turned' = turned
      BY <1>3 DEF KeyNext, Foreground, vars, history, Contacts, TurnDue, Scan, FirstSeen, AfterReport, NotYet,
           KeyTimerSeen, KeyTimerCleared, Confirm, LongPress, ShortWaited, NextTurn, EditorOpens, AnalogKeyValue
    <2>3. pc' = "turnDue" => pc = "turnDue" \/ s_tTmr[MAIN_CYCLE_TIMING].Flag = 1
      BY <1>3 DEF KeyNext, Foreground, vars, Contacts, TurnDue, CheckSees, Scan, FirstSeen, AfterReport, NotYet,
           KeyTimerSeen, KeyTimerCleared, Confirm, LongPress, ShortWaited, NextTurn, EditorOpens, AnalogKeyValue
    <2> QED BY <2>1, <2>2, <2>3 DEF TurnInv
  <1> QED BY <1>1, <1>2, <1>3

-----------------------------------------------------------------------------
LEMMA KeyNames == ASSUME NameInv, [KeyNext]_vars PROVE NameInv'
  <1> USE KeyAssumption DEF NameInv, ScanPcs, TaskPcs
  <1>1. CASE Tick BY <1>1 DEF Tick, keyVars
  <1>2. ASSUME NEW key \in Key \cup {KEY_NONE}, Contacts(key) PROVE NameInv'
    BY <1>2 DEF Contacts, keyVars, history
  <1>3. CASE TurnDue BY <1>3 DEF TurnDue, keyVars, history
  <1>4. CASE TurnBegins BY <1>4 DEF TurnBegins, keyVars
  <1>5. CASE Scan BY <1>5 DEF Scan
  <1>6. CASE FirstSeen BY <1>6 DEF FirstSeen
  <1>7. CASE AfterReport BY <1>7 DEF AfterReport, Reported, history
  <1>8. CASE NotYet
    <2>1. CASE status = "PRESS" /\ value = KEY_NONE BY <1>8, <2>1 DEF NotYet
    <2>2. CASE status = "PRESS_LEAVE" /\ value = KEY_NONE BY <1>8, <2>2 DEF NotYet
    <2>3. CASE ~ (status = "PRESS" /\ value = KEY_NONE) /\ ~ (status = "PRESS_LEAVE" /\ value = KEY_NONE)
      <3>1. UNCHANGED <<status, value, recordValue, putinValue, down, seen>> /\ pc' = "tasks" /\ status \in Timed
        BY <1>8, <2>3 DEF NotYet
      <3> QED BY <3>1 DEF Timed
    <2> QED BY <2>1, <2>2, <2>3
  <1>9. CASE KeyTimerSeen BY <1>9 DEF KeyTimerSeen, keyVars, history
  <1>10. CASE KeyTimerCleared BY <1>10 DEF KeyTimerCleared, keyVars, history
  <1>11. CASE Confirm BY <1>11 DEF Confirm, history
  <1>12. CASE LongPress BY <1>12 DEF LongPress
  <1>13. CASE ShortWaited BY <1>13 DEF ShortWaited, history
  <1>14. CASE NextTurn
    <2>1. UNCHANGED <<down, keyVars, seen>> /\ pc' \in {"turn", "scan"}
      BY <1>14 DEF NextTurn, history
    <2> QED BY <2>1 DEF keyVars
  <1>15. CASE EditorOpens BY <1>15 DEF EditorOpens, Reported, history
  <1>16. CASE AnalogKeyValue BY <1>16 DEF AnalogKeyValue
  <1>17. CASE UNCHANGED vars BY <1>17 DEF vars, keyVars, history
  <1> QED BY <1>1, <1>2, <1>3, <1>4, <1>5, <1>6, <1>7, <1>8, <1>9, <1>10, <1>11, <1>12, <1>13, <1>14,
             <1>15, <1>16, <1>17 DEF KeyNext, Foreground

-----------------------------------------------------------------------------
\* What the steps of the timers do to KEY_TIMING.
LEMMA KeyTimerSteps ==
    ASSUME TimerInv
    PROVE  /\ \A p \in Period : bsp_StartTimer(KEY_TIMING, p) =>
                  /\ K'.Mode = "TMR_ONCE_MODE" /\ K'.PreLoad = p /\ elapsed'[KEY_TIMING] = 0
           /\ CheckClears(MAIN_CYCLE_TIMING) => K' = K /\ elapsed' = elapsed
           /\ CheckClears(KEY_TIMING) =>
                  /\ K'.Mode = K.Mode /\ K'.PreLoad = K.PreLoad /\ K'.Count = K.Count
                  /\ elapsed' = elapsed
           /\ UNCHANGED timerVars => K' = K /\ elapsed' = elapsed
  <1>1. s_tTmr \in [Timer -> TimerRecord] /\ elapsed \in [Timer -> Nat] BY TimerInvAlt
  <1>2. ASSUME NEW p \in Period, bsp_StartTimer(KEY_TIMING, p)
        PROVE  K'.Mode = "TMR_ONCE_MODE" /\ K'.PreLoad = p /\ elapsed'[KEY_TIMING] = 0
    BY <1>1, <1>2, Constants DEF bsp_StartTimer, Start, K
  <1>3. ASSUME CheckClears(MAIN_CYCLE_TIMING) PROVE K' = K /\ elapsed' = elapsed
    BY <1>1, <1>3, Constants DEF CheckClears, K
  <1>4. ASSUME CheckClears(KEY_TIMING)
        PROVE  /\ K'.Mode = K.Mode /\ K'.PreLoad = K.PreLoad /\ K'.Count = K.Count
               /\ elapsed' = elapsed
    <2>1. s_tTmr'[KEY_TIMING] = [s_tTmr[KEY_TIMING] EXCEPT !.Flag = 0] /\ elapsed' = elapsed
      BY <1>1, <1>4, Constants DEF CheckClears
    <2>2. s_tTmr[KEY_TIMING] \in TimerRecord BY <1>1, Constants
    <2> QED BY <2>1, <2>2 DEF K, TimerRecord
  <1>5. ASSUME UNCHANGED timerVars PROVE K' = K /\ elapsed' = elapsed BY <1>5 DEF timerVars, K
  <1> QED BY <1>2, <1>3, <1>4, <1>5

\* A tick while a one-shot KEY_TIMING runs or has run down.
LEMMA KeyTimerTick ==
    ASSUME TimerInv, SysTick_ISR, K.Mode = "TMR_ONCE_MODE"
    PROVE  /\ K'.Mode = "TMR_ONCE_MODE" /\ K'.PreLoad = K.PreLoad
           /\ elapsed[KEY_TIMING] \in Nat /\ elapsed'[KEY_TIMING] \in Nat
           /\ elapsed'[KEY_TIMING] <= K.PreLoad
           /\ elapsed'[KEY_TIMING] <= elapsed[KEY_TIMING] + 1
           /\ K.Flag = 1 => K'.Flag = 1
           /\ K.Count = 0 => K'.Count = 0
           /\ elapsed[KEY_TIMING] = K.PreLoad => elapsed'[KEY_TIMING] = K.PreLoad
  <1> DEFINE e == elapsed[KEY_TIMING]
  <1>1. /\ K \in TimerRecord /\ e \in Nat /\ Sound(K, e)
    BY BothTimers DEF K
  <1>2. K' = bsp_SoftTimerDec(K) BY Constants DEF SysTick_ISR, K
  <1>3. e' = IF e < K.PreLoad THEN e + 1 ELSE e
    <2>1. elapsed'[KEY_TIMING] = Aged(KEY_TIMING) BY Constants DEF SysTick_ISR
    <2> QED BY <2>1 DEF Aged, K
  <1>4. K.PreLoad \in Nat /\ e <= K.PreLoad
    <2>1. K.PreLoad \in Period \cup {0} BY <1>1 DEF TimerRecord
    <2> QED BY <2>1, <1>1, Constants DEF Sound
  <1>5. /\ K'.Mode = "TMR_ONCE_MODE" /\ K'.PreLoad = K.PreLoad
        /\ K.Flag = 1 => K'.Flag = 1
        /\ K.Count = 0 => K'.Count = 0
    BY <1>1, <1>2 DEF bsp_SoftTimerDec, TimerRecord
  <1> HIDE DEF e
  <1>6. e' \in Nat /\ e' <= K.PreLoad /\ e' <= e + 1 /\ (e = K.PreLoad => e' = K.PreLoad)
    BY <1>1, <1>3, <1>4
  <1> QED BY <1>1, <1>5, <1>6 DEF e

\* When the key scan sees the flag of KEY_TIMING, its time is up.
LEMMA FlagMeansTime ==
    ASSUME TimerInv, K.Mode = "TMR_ONCE_MODE", K.Flag = 1
    PROVE  K.Count = 0 /\ elapsed[KEY_TIMING] = K.PreLoad
  BY BothTimers DEF K, Sound, OnTime

LEMMA KeyPace == ASSUME TimerInv, NameInv, PaceInv, [KeyNext]_vars PROVE PaceInv'
  <1> USE Constants DEF PaceInv, Timed
  <1>0. ASSUME K' = K, elapsed' = elapsed, UNCHANGED <<status, pc, confirming, reported>> PROVE PaceInv'
    BY <1>0
  <1>1. CASE Tick
    <2>1. UNCHANGED <<status, pc>> /\ confirming' = Later(confirming) /\ reported' = Later(reported)
      BY <1>1 DEF Tick, keyVars
    <2>2. LongestTime \in Nat /\ confirming' \in Nat /\ reported' \in Nat
      BY <2>1 DEF Later, LongestTime
    <2>3. CASE status \in {"WAIT", "PRESS", "PRESS_LEAVE"}
      <3>1. TimerInv /\ SysTick_ISR /\ K.Mode = "TMR_ONCE_MODE" BY <1>1, <2>3 DEF Tick
      <3> DEFINE e == elapsed[KEY_TIMING]
      <3>2. /\ K'.Mode = "TMR_ONCE_MODE" /\ K'.PreLoad = K.PreLoad
            /\ e \in Nat /\ e' \in Nat /\ e' <= K.PreLoad /\ e' <= e + 1
            /\ K.Flag = 1 => K'.Flag = 1
            /\ K.Count = 0 => K'.Count = 0
            /\ e = K.PreLoad => e' = K.PreLoad
        BY <3>1, KeyTimerTick
      <3> HIDE DEF e
      <3>3. status = "WAIT" => confirming' >= e'
        BY <2>1, <2>2, <3>2 DEF Later, LongestTime, e
      <3>4. status = "PRESS" => confirming' >= CONFIRM_KEY_PRESS_CNT + e'
        BY <2>1, <2>2, <3>2 DEF Later, LongestTime, e
      <3>5. status = "PRESS_LEAVE" => reported' >= e'
        BY <2>1, <2>2, <3>2 DEF Later, LongestTime, e
      <3> QED BY <2>1, <2>2, <2>3, <3>2, <3>3, <3>4, <3>5 DEF e
    <2>4. CASE status \notin {"WAIT", "PRESS", "PRESS_LEAVE"}
      <3>1. K.Flag = 1 => K'.Flag = 1
        <4>1. K \in TimerRecord BY BothTimers DEF K
        <4>2. K' = bsp_SoftTimerDec(K) BY <1>1 DEF Tick, SysTick_ISR, K
        <4> QED BY <4>1, <4>2 DEF bsp_SoftTimerDec, TimerRecord
      <3> QED BY <2>1, <2>2, <2>4, <3>1
    <2> QED BY <2>3, <2>4
  <1>2. ASSUME NEW key, Contacts(key) PROVE PaceInv'
    BY <1>0, <1>2, KeyTimerSteps DEF Contacts, keyVars, history
  <1>3. CASE TurnDue \/ TurnBegins \/ Scan \/ NextTurn \/ EditorOpens
    <2>1. K' = K /\ elapsed' = elapsed
      BY <1>3, KeyTimerSteps DEF TurnDue, CheckSees, TurnBegins, Scan, NextTurn, EditorOpens
    <2>2. /\ UNCHANGED <<status, confirming, reported>>
          /\ pc' \notin {"keyDue", "expired"}
      BY <1>3 DEF TurnDue, TurnBegins, Scan, NextTurn, EditorOpens, keyVars, history
    <2> QED BY <2>1, <2>2
  <1>4. CASE FirstSeen
    <2>1. CASE value # KEY_NONE
      <3>1. status' = "WAIT" /\ confirming' = 0 /\ reported' = reported /\ pc' = "tasks"
            /\ bsp_StartTimer(KEY_TIMING, CONFIRM_KEY_PRESS_CNT)
        BY <1>4, <2>1 DEF FirstSeen
      <3> QED BY <3>1, KeyTimerSteps
    <2>2. CASE value = KEY_NONE BY <1>4, <2>2, KeyTimerSteps DEF FirstSeen
    <2> QED BY <2>1, <2>2
  <1>5. CASE AfterReport
    <2>1. CASE status = "SHORT_PRESS" BY <1>5, <2>1 DEF AfterReport, history
    <2>2. CASE status = "LONG_PRESS"
      <3>1. status' = "PRESS_LEAVE" /\ UNCHANGED <<confirming, reported>> /\ pc' = "tasks"
            /\ bsp_StartTimer(KEY_TIMING, CONFIRM_KEY_CONTINUE_PRESS_CNT)
        BY <1>5, <2>2 DEF AfterReport, history
      <3> QED BY <3>1, KeyTimerSteps
    <2> QED BY <1>5, <2>1, <2>2 DEF AfterReport, Reported
  <1>6. CASE NotYet
    <2>1. K' = K /\ elapsed' = elapsed /\ pc' = "tasks" /\ confirming' = confirming
      BY <1>6, KeyTimerSteps DEF NotYet
    <2>2. \/ status' = "SHORT_PRESS" /\ reported' = 0
          \/ status' = "NO_PRESS" /\ reported' = reported
          \/ status' = status /\ reported' = reported
      BY <1>6 DEF NotYet
    <2> QED BY <2>1, <2>2
  <1>7. CASE KeyTimerSeen
    <2>1. K' = K /\ elapsed' = elapsed /\ UNCHANGED <<status, confirming, reported>> /\ pc' = "keyDue"
          /\ status \in Timed /\ K.Flag = 1
      BY <1>7, KeyTimerSteps DEF KeyTimerSeen, CheckSees, keyVars, history, K
    <2> QED BY <2>1
  <1>8. CASE KeyTimerCleared
    <2>1. /\ K'.Mode = K.Mode /\ K'.PreLoad = K.PreLoad /\ K'.Count = K.Count /\ elapsed' = elapsed
          /\ UNCHANGED <<status, confirming, reported>> /\ pc = "keyDue" /\ pc' = "expired"
      BY <1>8, KeyTimerSteps DEF KeyTimerCleared, keyVars, history
    <2>2. status # "SHORT_WAIT" => K.Count = 0 /\ elapsed[KEY_TIMING] = K.PreLoad
      BY <2>1, FlagMeansTime
    <2> QED BY <2>1, <2>2
  <1>9. CASE Confirm
    <2>1. CASE value # KEY_NONE
      <3>1. status = "WAIT" /\ status' = "PRESS" /\ UNCHANGED <<confirming, reported>>
            /\ pc = "expired" /\ pc' = "tasks" /\ bsp_StartTimer(KEY_TIMING, CONFIRM_KEY_LONG_PRESS_CNT)
        BY <1>9, <2>1 DEF Confirm, history
      <3>2. confirming >= CONFIRM_KEY_PRESS_CNT BY <3>1
      <3>3. K'.Mode = "TMR_ONCE_MODE" /\ K'.PreLoad = CONFIRM_KEY_LONG_PRESS_CNT /\ elapsed'[KEY_TIMING] = 0
        BY <3>1, KeyTimerSteps
      <3> QED BY <3>1, <3>2, <3>3
    <2>2. CASE value = KEY_NONE BY <1>9, <2>2, KeyTimerSteps DEF Confirm, history
    <2> QED BY <2>1, <2>2
  <1>10. CASE LongPress BY <1>10 DEF LongPress
  <1>11. CASE ShortWaited BY <1>11 DEF ShortWaited, history
  <1>12. CASE AnalogKeyValue BY <1>12 DEF AnalogKeyValue
  <1>13. CASE UNCHANGED vars
    <2>1. UNCHANGED timerVars /\ UNCHANGED <<status, pc, confirming, reported>>
      BY <1>13 DEF vars, keyVars, history
    <2> QED BY <1>0, <2>1, KeyTimerSteps
  <1> QED BY <1>1, <1>2, <1>3, <1>4, <1>5, <1>6, <1>7, <1>8, <1>9, <1>10, <1>11, <1>12, <1>13
       DEF KeyNext, Foreground

-----------------------------------------------------------------------------
\* The types, beyond what the invariants say.
Statuses == Timed \cup {"NO_PRESS", "SHORT_PRESS", "LONG_PRESS"}
Pcs == {"turn", "turnDue", "scan", "switch", "keyDue", "expired", "tasks", "edit"}
KeyTypes ==
    /\ value \in Key \cup {KEY_NONE} /\ recordValue \in Key \cup {KEY_NONE}
    /\ putinValue \in Digit \cup {KEY_NONE}
    /\ status \in Statuses /\ pc \in Pcs
    /\ confirming \in 0..LongestTime /\ reported \in 0..LongestTime

LEMMA LaterBound ==
    /\ LongestTime \in Nat
    /\ \A n \in 0..LongestTime : Later(n) \in 0..LongestTime
  BY Constants DEF LongestTime, Later

LEMMA KeysTyped == ASSUME NameInv, KeyTypes, [KeyNext]_vars PROVE KeyTypes'
  <1>0. 0 \in 0..LongestTime BY LaterBound
  <1>a. down \in Key \cup {KEY_NONE} /\ (\A k \in Digit : k \in Key) BY KeyAssumption DEF NameInv
  <1> USE <1>0, <1>a DEF KeyTypes, Statuses, Timed, Pcs
  <1>1. CASE Tick
    <2>1. UNCHANGED <<keyVars, pc>> /\ confirming' = Later(confirming) /\ reported' = Later(reported)
      BY <1>1 DEF Tick
    <2> QED BY <2>1, LaterBound DEF keyVars
  <1>2. ASSUME NEW key, Contacts(key) PROVE KeyTypes' BY <1>2 DEF Contacts, keyVars, history
  <1>3. CASE TurnDue BY <1>3 DEF TurnDue, keyVars, history
  <1>4. CASE TurnBegins BY <1>4 DEF TurnBegins, keyVars
  <1>5. CASE Scan BY <1>5 DEF Scan
  <1>6. CASE FirstSeen BY <1>6 DEF FirstSeen
  <1>7. CASE AfterReport BY <1>7 DEF AfterReport, history
  <1>8. CASE NotYet
    <2>1. CASE status = "PRESS" /\ value = KEY_NONE BY <1>8, <2>1 DEF NotYet
    <2>2. CASE status = "PRESS_LEAVE" /\ value = KEY_NONE BY <1>8, <2>2 DEF NotYet
    <2>3. CASE ~ (status = "PRESS" /\ value = KEY_NONE) /\ ~ (status = "PRESS_LEAVE" /\ value = KEY_NONE)
      <3>1. UNCHANGED <<status, value, recordValue, putinValue, confirming, reported>> /\ pc' = "tasks"
        BY <1>8, <2>3 DEF NotYet
      <3> QED BY <3>1
    <2> QED BY <2>1, <2>2, <2>3
  <1>9. CASE KeyTimerSeen BY <1>9 DEF KeyTimerSeen, keyVars, history
  <1>10. CASE KeyTimerCleared BY <1>10 DEF KeyTimerCleared, keyVars, history
  <1>11. CASE Confirm BY <1>11 DEF Confirm, history
  <1>12. CASE LongPress BY <1>12 DEF LongPress
  <1>13. CASE ShortWaited BY <1>13 DEF ShortWaited, history
  <1>14. CASE NextTurn BY <1>14 DEF NextTurn, keyVars, history
  <1>15. CASE EditorOpens BY <1>15 DEF EditorOpens, history
  <1>16. CASE AnalogKeyValue BY <1>16 DEF AnalogKeyValue
  <1>17. CASE UNCHANGED vars BY <1>17 DEF vars, keyVars, history
  <1> QED BY <1>1, <1>2, <1>3, <1>4, <1>5, <1>6, <1>7, <1>8, <1>9, <1>10, <1>11, <1>12, <1>13, <1>14,
             <1>15, <1>16, <1>17 DEF KeyNext, Foreground

-----------------------------------------------------------------------------
LEMMA KeyInvariant == KeySpec => []KeyInv
  <1>1. KeyInv /\ [KeyNext]_vars => KeyInv' BY KeyTimers, KeyTurns, KeyNames, KeyPace DEF KeyInv
  <1> QED BY <1>1, KeyInit, PTL DEF KeySpec

\* The keypad's state, its timers and its histories stay what they should be:
\* no timer counts above its period, and only a key that opens the editor is
\* handed to it.
THEOREM KeypadTypeCorrect == KeySpec => []TypeOK
  <1>1. Init => KeyTypes
    BY Constants, LaterBound DEF Init, InitKeyCheck, KeyTypes, Statuses, Pcs
  <1>2. KeyInv /\ KeyTypes /\ [KeyNext]_vars => KeyTypes' BY KeysTyped DEF KeyInv
  <1>3. KeyInv /\ KeyTypes => TypeOK
    <2> SUFFICES ASSUME KeyInv, KeyTypes PROVE TypeOK OBVIOUS
    <2>1. TimerTypeOK BY DEF KeyInv, TimerInv
    <2>2. turned \in 0..2 BY DEF KeyInv, TurnInv
    <2>3. seen \subseteq Key /\ down \in Key \cup {KEY_NONE} BY DEF KeyInv, NameInv
    <2> QED BY <2>1, <2>2, <2>3 DEF TypeOK, KeyTypes, Statuses, Pcs
  <1> QED BY <1>1, <1>2, <1>3, KeyInvariant, PTL DEF KeySpec

\* The main loop never gets ahead of its timer.
THEOREM TurnsNotAhead == KeySpec => []OneTurnPerPeriod
  <1>1. KeyInv => OneTurnPerPeriod BY DEF KeyInv, TurnInv, OneTurnPerPeriod
  <1> QED BY <1>1, KeyInvariant, PTL

\* No report names a key of an earlier press.
THEOREM ReportsNameSeenKeys == KeySpec => []ReportNamesSeenKey
  <1>1. KeyInv => ReportNamesSeenKey BY DEF KeyInv, NameInv, ReportNamesSeenKey, TaskPcs
  <1> QED BY <1>1, KeyInvariant, PTL

\* Debouncing, long presses and repetitions keep their times although they
\* share one timer.
THEOREM ReportsKeepTheirTimes == KeySpec => ReportsArePaced
  <1> DEFINE Paced ==
        /\ status = "PRESS" /\ status' = "SHORT_PRESS" /\ ~ AnalogKeyValue
              => confirming >= CONFIRM_KEY_PRESS_CNT
        /\ status = "PRESS" /\ status' = "LONG_PRESS"
              => confirming >= CONFIRM_KEY_PRESS_CNT + CONFIRM_KEY_LONG_PRESS_CNT
        /\ status = "PRESS_LEAVE" /\ status' = "LONG_PRESS"
              => reported >= CONFIRM_KEY_CONTINUE_PRESS_CNT
  <1>1. KeyInv /\ [KeyNext]_vars => [Paced]_vars
    <2> SUFFICES ASSUME KeyInv, KeyNext PROVE Paced OBVIOUS
    <2> USE Constants
    <2>0. elapsed[KEY_TIMING] \in Nat BY BothTimers DEF KeyInv
    <2>1. CASE LongPress
      <3>1. pc = "expired" /\ status # "SHORT_WAIT" /\ status' = "LONG_PRESS" BY <2>1 DEF LongPress
      <3> QED BY <2>0, <3>1 DEF KeyInv, PaceInv
    <2>2. CASE status = "PRESS" /\ status' = "SHORT_PRESS"
      BY <2>0, <2>2 DEF KeyInv, PaceInv
    <2>3. status \in {"PRESS", "PRESS_LEAVE"} /\ status' = "LONG_PRESS" => LongPress
      BY DEF KeyNext, Foreground, Tick, Contacts, TurnDue, TurnBegins, Scan, FirstSeen, AfterReport, NotYet,
             KeyTimerSeen, KeyTimerCleared, Confirm, ShortWaited, NextTurn, EditorOpens, AnalogKeyValue,
             keyVars, Reported
    <2> QED BY <2>1, <2>2, <2>3
  <1> QED BY <1>1, KeyInvariant, PTL DEF KeySpec, ReportsArePaced
=============================================================================
