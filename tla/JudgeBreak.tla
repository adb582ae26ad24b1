------------------------------ MODULE JudgeBreak ------------------------------
(***************************************************************************)
(* The break judgement of one channel: g_judgeBreak (global.c), updated    *)
(* every main cycle from the channel's force, and the three criteria by    *)
(* which MainPageJudgeBreakCoreCycle (MainPage.c) takes a specimen for     *)
(* broken.  Forces are natural numbers, so fabs is left out.               *)
(***************************************************************************)
EXTENDS Integers

CONSTANTS Forces,                    \* what a sample may read
          ADJOIN_DOWN_POINT_NUM,    \* main cycles per point (5 in the code)
          MAX_DOWN_POINT_NUM,       \* 100 in the code
          BreakType, BreakTarget,   \* the criterion and its threshold
          TargetDownPoint           \* falling points the differences need

ASSUME ForceAssumption == Forces \subseteq Nat /\ 0 \in Forces
ASSUME PointAssumption == ADJOIN_DOWN_POINT_NUM \in Nat \ {0} /\ MAX_DOWN_POINT_NUM \in Nat
ASSUME TargetAssumption == BreakTarget \in Nat /\ TargetDownPoint \in Nat

JudgeType == [index : 0 .. ADJOIN_DOWN_POINT_NUM - 1, last : Forces, now : Forces,
              down : 0 .. MAX_DOWN_POINT_NUM, peak : Forces]

Larger(a, b) == IF a > b THEN a ELSE b

InitJudgeBreakPoint == [index |-> 0, last |-> 0, now |-> 0, down |-> 0, peak |-> 0]

\* Does this cycle take a point?
TakesPoint(j) == j.index + 1 >= ADJOIN_DOWN_POINT_NUM

JudgeBreakCalculateUncapped(j, f) ==    \* mutant: the falling points are not limited
    IF ~ TakesPoint(j) THEN [j EXCEPT !.index = @ + 1]
    ELSE [index |-> 0, last |-> j.now, now |-> f,
          down |-> IF f >= j.now THEN 0 ELSE j.down + 1,
          peak |-> Larger(f, j.peak)]

JudgeBreakCalculate(j, f) ==
    IF ~ TakesPoint(j) THEN [j EXCEPT !.index = @ + 1]
    ELSE [index |-> 0, last |-> j.now, now |-> f,
          down |-> IF f >= j.now THEN 0
                   ELSE IF j.down < MAX_DOWN_POINT_NUM THEN j.down + 1 ELSE MAX_DOWN_POINT_NUM,
          peak |-> Larger(f, j.peak)]

\* The differences and the rate are 0 unless the last point fell.
WithMaxForceDifference(j) == IF j.now < j.peak THEN j.peak - j.now ELSE 0
AdjoinTwoPointDifference(j) == IF j.now < j.last THEN j.last - j.now ELSE 0
AttenuationRate(j) == IF j.now < j.peak THEN ((j.peak - j.now) * 100) \div j.peak ELSE 0

Broken(j) ==
    \/ BreakType = "ATTENUATION_RATE" /\ AttenuationRate(j) > BreakTarget
    \/ /\ BreakType = "WITH_MAX_FORCE_DIFFERENCE"
       /\ WithMaxForceDifference(j) > BreakTarget /\ j.down > TargetDownPoint
    \/ /\ BreakType = "ADJOIN_TWO_POINT_DIFFERENCE"
       /\ AdjoinTwoPointDifference(j) > BreakTarget /\ j.down > TargetDownPoint
===============================================================================
