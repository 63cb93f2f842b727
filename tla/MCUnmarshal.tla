------------------------------ MODULE MCUnmarshal ------------------------------
(* Unmarshal on a small instance.  Depths are scaled: 2 stands for 100.    *)
EXTENDS Unmarshal

CONSTANTS main, worker, own, shared, flat, literal, list, broken, sbe, brokenSbe

(* flat fits every limit; literal is a Timestamp at the default limit, one *)
(* level deeper in protobuf than in PXF; list is a chain of list elements, *)
(* two PXF levels for each of protobuf's; the broken ones do not decode.   *)
MCPxfDepth == [d \in Doc |-> CASE d = flat -> 1 [] d = literal -> 2
                               [] d = list -> 4 [] OTHER -> 0]
MCPbDepth  == [d \in Doc |-> CASE d = literal -> 3 [] d = list -> 2 [] OTHER -> 1]

(* A negative limit, the default, one below it, one past the runtime's.    *)
SignedLimits == {-1, 0, 1, 4}
===============================================================================
