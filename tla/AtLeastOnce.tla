---------------------------- MODULE AtLeastOnce ----------------------------
(* What the caller of a *_pkg function is promised of the command: when it *)
(* is reported done the controller has carried it out at least once; when  *)
(* it is reported failed nothing is known.                                 *)

VARIABLES op,   \* "none", "pending", "done" or "failed"
          ran   \* has the controller carried the command out?

vars == <<op, ran>>

Init == op = "none" /\ ran = "NO"

Issue == op # "pending" /\ op' = "pending" /\ ran' = "NO"
Refuse == op # "pending" /\ op' = "failed" /\ ran' = "NO"
Run == ran' = "YES" /\ UNCHANGED op     \* possibly again, possibly too late
Done == op = "pending" /\ ran = "YES" /\ op' = "done" /\ UNCHANGED ran
Fail == op = "pending" /\ op' = "failed" /\ UNCHANGED ran

Next == Issue \/ Refuse \/ Run \/ Done \/ Fail

Spec == Init /\ [][Next]_vars
=============================================================================
