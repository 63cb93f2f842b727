----------------------------- MODULE MarshalDepth -----------------------------
(***************************************************************************)
(* How pxf.marshal counts nesting.  PxfMarshal (module.cc) parses the      *)
(* message's bytes under protobuf's recursion limit, then encodes it under *)
(* max_nesting_depth; the two count different levels.  The first is set so *)
(* that it never refuses what the second would write.                      *)
(*                                                                         *)
(* The bytes are walked as the parser reads them: every field entered is a *)
(* frame on a stack, with the protobuf and the PXF depth reached there.    *)
(* The message is whatever fields the environment chooses to enter.        *)
(***************************************************************************)
EXTENDS Integers, Sequences

CONSTANTS Limit,        \* the values callers pass as max_nesting_depth
          DefaultDepth, \* kMaxNestingDepth, what 0 selects (100)
          IntMax        \* the largest C int

ASSUME LimitAssumption ==
    /\ Limit \subseteq Int /\ \A l \in Limit : l <= IntMax
    /\ IntMax \in Nat
    /\ DefaultDepth \in 1 .. IntMax - 1

(* What one field costs: levels of protobuf submessages (a map entry is    *)
(* one), levels of PXF `{` and `[`, and whether anything nests below it.   *)
(* A literal is a Timestamp, a Duration, a wrapper, a Secret or a big      *)
(* number: a submessage written without a block.                           *)
Kind == {"message", "element", "mapValue", "scalarList", "scalarMap",
         "literal", "literalElement", "literalMapValue"}

Leaf == Kind \ {"message", "element", "mapValue"}

PbCost(k) == CASE k = "scalarList" -> 0
               [] k \in {"mapValue", "literalMapValue"} -> 2
               [] OTHER -> 1

(* Variant: the encoder does not count a map's own block. *)
PxfCostFlatMap(k) == CASE k = "literal" -> 0
                       [] k = "element" -> 2
                       [] OTHER -> 1

PxfCost(k) == CASE k = "literal" -> 0
                [] k \in {"element", "mapValue"} -> 2
                [] OTHER -> 1

VARIABLES pc,         \* the stage of the call
          limit,      \* max_nesting_depth as passed
          room,       \* the submessage levels the parser will read
          stack,      \* the fields being parsed, the root first
          deepestPb,  \* the deepest level of each count met so far
          deepestPxf,
          outcome     \* how the call ended

vars == <<pc, limit, room, stack, deepestPb, deepestPxf, outcome>>

Frame == [pb : Nat, pxf : Nat, leaf : BOOLEAN]
Root == [pb |-> 0, pxf |-> 0, leaf |-> FALSE]
Top == stack[Len(stack)]
Entered(k) == [pb |-> Top.pb + PbCost(k), pxf |-> Top.pxf + PxfCost(k),
               leaf |-> k \in Leaf]
Larger(a, b) == IF a >= b THEN a ELSE b

Outcome == {"none", "negative", "badSchema", "malformed", "tooDeepToParse",
            "tooDeepToWrite", "unwritable", "text"}

(* The depth in force: 0 selects the default.                              *)
Depth == IF limit > 0 THEN limit ELSE DefaultDepth

(* Variant: the parser gets the encoder's limit as it is. *)
RoomsSameLimit(depth) == {depth}

(* SetRecursionLimit(depth + 1).  At INT_MAX the sum overflows a signed    *)
(* int: the build may leave the parser no level at all, or every level.    *)
Rooms(depth) == IF depth < IntMax THEN {depth + 1} ELSE {0, IntMax}

Init ==
    /\ pc = "start"
    /\ limit \in Limit
    /\ room = 0
    /\ stack = <<>>
    /\ deepestPb = 0
    /\ deepestPxf = 0
    /\ outcome = "none"

End(how) == pc' = "done" /\ outcome' = how

(* The checks before any byte is read: the limit's sign, then the schema.  *)
Start ==
    /\ pc = "start"
    /\ \/ /\ limit < 0
          /\ End("negative")
          /\ UNCHANGED <<room, stack>>
       \/ /\ limit >= 0
          /\ End("badSchema")
          /\ UNCHANGED <<room, stack>>
       \/ /\ limit >= 0
          /\ room' \in Rooms(Depth)
          /\ stack' = <<Root>>
          /\ pc' = "parse"
          /\ UNCHANGED outcome
    /\ UNCHANGED <<limit, deepestPb, deepestPxf>>

(* The parser meets a field that nests.                                    *)
Enter(k) ==
    /\ pc = "parse"
    /\ ~Top.leaf
    /\ deepestPb' = Larger(deepestPb, Entered(k).pb)
    /\ deepestPxf' = Larger(deepestPxf, Entered(k).pxf)
    /\ \/ /\ Entered(k).pb <= room
          /\ stack' = Append(stack, Entered(k))
          /\ UNCHANGED <<pc, outcome>>
       \/ /\ Entered(k).pb > room
          /\ End("tooDeepToParse")
          /\ UNCHANGED stack
    /\ UNCHANGED <<limit, room>>

(* Variant: the root is left like a field. *)
LeaveRoot ==
    /\ pc = "parse"
    /\ stack # <<>>
    /\ stack' = SubSeq(stack, 1, Len(stack) - 1)
    /\ UNCHANGED <<pc, limit, room, deepestPb, deepestPxf, outcome>>

(* The parser is past a field.                                             *)
Leave ==
    /\ pc = "parse"
    /\ Len(stack) > 1
    /\ stack' = SubSeq(stack, 1, Len(stack) - 1)
    /\ UNCHANGED <<pc, limit, room, deepestPb, deepestPxf, outcome>>

(* The bytes are not a message of the type, whatever their depth.          *)
Malformed ==
    /\ pc = "parse"
    /\ End("malformed")
    /\ UNCHANGED <<limit, room, stack, deepestPb, deepestPxf>>

(* The whole message is read.                                              *)
Parsed ==
    /\ pc = "parse"
    /\ Len(stack) = 1
    /\ pc' = "encode"
    /\ UNCHANGED <<limit, room, stack, deepestPb, deepestPxf, outcome>>

(* Variant: the encoder's limit is off by one. *)
EncodeOneDeeper ==
    /\ pc = "encode"
    /\ \/ deepestPxf > Depth + 1 /\ End("tooDeepToWrite")
       \/ deepestPxf <= Depth + 1 /\ (End("text") \/ End("unwritable"))
    /\ UNCHANGED <<limit, room, stack, deepestPb, deepestPxf>>

(* pxf::Marshal under the same limit; it has refusals of its own, too.     *)
Encode ==
    /\ pc = "encode"
    /\ \/ deepestPxf > Depth /\ End("tooDeepToWrite")
       \/ deepestPxf <= Depth /\ (End("text") \/ End("unwritable"))
    /\ UNCHANGED <<limit, room, stack, deepestPb, deepestPxf>>

Next == Start \/ (\E k \in Kind : Enter(k)) \/ Leave \/ Malformed \/ Parsed \/ Encode

Spec == Init /\ [][Next]_vars
-------------------------------------------------------------------------------
(* Type invariant. *)
TypeOK ==
    /\ pc \in {"start", "parse", "encode", "done"}
    /\ limit \in Limit
    /\ room \in Nat
    /\ stack \in Seq(Frame)
    /\ pc \in {"parse", "encode"} => Len(stack) >= 1 /\ limit >= 0
    /\ deepestPb \in Nat /\ deepestPxf \in Nat
    /\ outcome \in Outcome

(* The comment the limit rests on (module.cc:391-394): the bytes nest at   *)
(* most one level deeper than the PXF, whatever fields make up the path.   *)
OneDeeperAtMost == deepestPb <= deepestPxf + 1

(* "The encoder decides how deep is too deep, so the parse must not refuse *)
(* first" (module.cc:391): a message the parser finds too deep is one the  *)
(* encoder would not have written.                                         *)
EncoderDecides ==
    Depth < IntMax /\ outcome = "tooDeepToParse" => deepestPxf > Depth
-------------------------------------------------------------------------------
(* pxf.py:187-190: it is a message nested deeper than the limit that       *)
(* raises; "0 selects the default, 100. Raise it only together with the    *)
(* limit of every reader": no value of the limit refuses shallower ones.   *)
OnlyDeeperIsTooDeep ==
    outcome \in {"tooDeepToParse", "tooDeepToWrite"} => deepestPxf > Depth

(* CHANGELOG.md:82: "`pxf.marshal` refuses a message nested one level too  *)
(* deep with the encoder's error"; what "still fails in that read" is "two *)
(* or more levels too deep".                                               *)
OneTooDeepIsTheEncoders ==
    outcome = "tooDeepToParse" => deepestPxf > Depth + 1
===============================================================================
