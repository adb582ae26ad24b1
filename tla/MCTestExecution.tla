---------------------------- MODULE MCTestExecution ----------------------------
(* TestExecution on small instances: two cycles per point, two or three forces. *)
EXTENDS TestExecution

TwoForces == {0, 4}
ThreeForces == {0, 2, 4}
===============================================================================
