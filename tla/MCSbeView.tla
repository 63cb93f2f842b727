------------------------------ MODULE MCSbeView ------------------------------
(* SbeView with three objects at a time in two places.                     *)
EXTENDS SbeView, TLC

CONSTANTS c1, c2, v1, v2, v3, full, empty

(* A group with entries and one without.                                   *)
MCEntries == (full :> 2) @@ (empty :> 0)
===============================================================================
