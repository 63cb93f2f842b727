---------------------------- MODULE MCMarshalDepth ----------------------------
(* MarshalDepth with the depths scaled down: 3 stands for 100, 7 for       *)
(* INT_MAX.                                                                *)
EXTENDS MarshalDepth
===============================================================================
