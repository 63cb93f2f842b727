------------------------------- MODULE MCHarness -------------------------------
(* Harness with the depths scaled down: 3 stands for 100, 7 for INT_MAX.   *)
EXTENDS Harness

(* Invalid, default, below, at and above the runtime's depth.              *)
OrdinaryLimits == {-1, 0, 1, 2, 3, 4}
===============================================================================
