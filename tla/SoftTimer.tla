----------------------------- MODULE SoftTimer -----------------------------
(***************************************************************************)
(* The soft timers of bsp_timer.c.  SysTick_ISR counts every timer down    *)
(* once a millisecond; the foreground starts a timer, stops it, and asks   *)
(* with bsp_CheckTimer whether it has run down.  Starting and stopping     *)
(* mask the SysTick interrupt and are one step; bsp_CheckTimer masks       *)
(* nothing, so the interrupt may come between its look at the flag and its *)
(* clearing of it: CheckSees and CheckClears are two steps.                *)
(*                                                                         *)
(* A tick that falls into a masked section is lost, not delayed (TICKINT   *)
(* is cleared).  It is no step here: time is what SysTick_ISR counts.      *)
(***************************************************************************)
EXTENDS Integers

CONSTANTS Timer,        \* timer identifiers, 0 .. TMR_COUNT-1
          Period        \* the periods timers are started with, in ms

ASSUME TimerAssumption == Period \subseteq Nat \ {0}

VARIABLES s_tTmr,       \* Count, PreLoad, Flag, Mode of every timer
          elapsed       \* history: ticks since the start of the running period, up to PreLoad

timerVars == <<s_tTmr, elapsed>>

bsp_InitTimer ==
    /\ s_tTmr = [t \in Timer |-> [Count |-> 0, PreLoad |-> 0, Flag |-> 0, Mode |-> "TMR_ONCE_MODE"]]
    /\ elapsed = [t \in Timer |-> 0]

-----------------------------------------------------------------------------
DecPostponed(tmr) ==    \* mutant: an automatic timer is reloaded one tick short
    IF tmr.Count > 1 THEN [tmr EXCEPT !.Count = tmr.Count - 1]
    ELSE IF tmr.Count = 1
    THEN [tmr EXCEPT !.Flag = 1, !.Count = IF tmr.Mode = "TMR_AUTO_MODE" THEN tmr.PreLoad - 1 ELSE 0]
    ELSE tmr

DecWraps(tmr) ==        \* mutant: Count is not compared with 0, and wraps
    IF tmr.Count = 0 THEN [tmr EXCEPT !.Count = 65535]
    ELSE [tmr EXCEPT !.Count = tmr.Count - 1, !.Flag = IF tmr.Count = 1 THEN 1 ELSE tmr.Flag]

bsp_SoftTimerDec(tmr) ==
    IF tmr.Count > 1 THEN [tmr EXCEPT !.Count = tmr.Count - 1]
    ELSE IF tmr.Count = 1
    THEN [tmr EXCEPT !.Flag = 1, !.Count = IF tmr.Mode = "TMR_AUTO_MODE" THEN tmr.PreLoad ELSE 0]
    ELSE tmr

\* The history starts anew with the period that follows a reload.
Aged(t) == IF elapsed[t] < s_tTmr[t].PreLoad THEN elapsed[t] + 1
           ELSE IF s_tTmr[t].Mode = "TMR_AUTO_MODE" THEN 1 ELSE elapsed[t]

SysTick_ISR ==
    /\ s_tTmr' = [t \in Timer |-> bsp_SoftTimerDec(s_tTmr[t])]
    /\ elapsed' = [t \in Timer |-> Aged(t)]

Expires(t) == s_tTmr[t].Count = 1       \* at the next tick

-----------------------------------------------------------------------------
StartKeepFlag(t, period, mode) ==       \* mutant: the flag of the last period is left over
    /\ s_tTmr' = [s_tTmr EXCEPT ![t] = [Count |-> period, PreLoad |-> period, Flag |-> s_tTmr[t].Flag, Mode |-> mode]]
    /\ elapsed' = [elapsed EXCEPT ![t] = 0]

Start(t, period, mode) ==
    /\ s_tTmr' = [s_tTmr EXCEPT ![t] = [Count |-> period, PreLoad |-> period, Flag |-> 0, Mode |-> mode]]
    /\ elapsed' = [elapsed EXCEPT ![t] = 0]

bsp_StartTimer(t, period) == Start(t, period, "TMR_ONCE_MODE")
bsp_StartAutoTimer(t, period) == Start(t, period, "TMR_AUTO_MODE")

bsp_StopTimer(t) ==
    /\ s_tTmr' = [s_tTmr EXCEPT ![t].Count = 0, ![t].Flag = 0, ![t].Mode = "TMR_ONCE_MODE"]
    /\ UNCHANGED elapsed

CheckSees(t) == s_tTmr[t].Flag = 1 /\ UNCHANGED timerVars

CheckClears(t) ==
    /\ s_tTmr' = [s_tTmr EXCEPT ![t].Flag = 0]
    /\ UNCHANGED elapsed

-----------------------------------------------------------------------------
\* Any user of the timers.
Next ==
    \/ SysTick_ISR
    \/ \E t \in Timer :
        \/ \E p \in Period : bsp_StartTimer(t, p) \/ bsp_StartAutoTimer(t, p)
        \/ bsp_StopTimer(t)
        \/ CheckClears(t)

Spec == bsp_InitTimer /\ [][Next]_timerVars

-----------------------------------------------------------------------------
TimerTypeOK ==
    /\ s_tTmr \in [Timer -> [Count : Nat, PreLoad : Period \cup {0}, Flag : {0, 1},
                             Mode : {"TMR_ONCE_MODE", "TMR_AUTO_MODE"}]]
    /\ elapsed \in [Timer -> Nat]
    /\ \A t \in Timer : s_tTmr[t].Count <= s_tTmr[t].PreLoad

OnTime(tmr, ticks) ==
    IF tmr.Mode = "TMR_ONCE_MODE"
    THEN /\ tmr.Flag = 1 => tmr.Count = 0 /\ ticks = tmr.PreLoad
         /\ tmr.Count > 0 => ticks + tmr.Count = tmr.PreLoad
    ELSE /\ tmr.Count > 0
         /\ ticks + tmr.Count = tmr.PreLoad \/ (ticks = tmr.PreLoad /\ tmr.Count = tmr.PreLoad)

\* A timer that says it ran down had all its ticks, whatever is started, stopped
\* and asked between them: a one-shot timer sets its flag in the tick that
\* completes its period and never again, and what is left of a period and what
\* has passed of it make up the period, of an automatic timer through every
\* reload.
NeverEarly == \A t \in Timer : OnTime(s_tTmr[t], elapsed[t])
=============================================================================
