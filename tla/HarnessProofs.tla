----------------------------- MODULE HarnessProofs -----------------------------
(***************************************************************************)
(* Proofs about MarshalDepth and Harness, for every limit and default      *)
(* depth, and every depth the harness is asked for.  A harness step is a   *)
(* step of MarshalDepth or leaves it alone, so the encoder's theorems hold *)
(* inside the harness.                                                     *)
(***************************************************************************)
EXTENDS Harness, SequenceTheorems, TLAPS


(* What one field adds to the two counts: only a literal, below which      *)
(* nothing nests, may add a protobuf level that PXF does not have.         *)
LEMMA Costs ==
    ASSUME NEW k \in Kind
    PROVE  /\ PbCost(k) \in 0 .. 2 /\ PxfCost(k) \in 0 .. 2
           /\ PbCost(k) <= PxfCost(k) + (IF k \in Leaf THEN 1 ELSE 0)
  BY DEF Kind, Leaf, PbCost, PxfCost

LEMMA DepthRange == TypeOK /\ limit >= 0 => Depth \in 1 .. IntMax
  BY LimitAssumption DEF TypeOK, Depth

LEMMA EnteredFrame ==
    ASSUME TypeOK, pc = "parse", NEW k \in Kind
    PROVE  Top \in Frame /\ Entered(k) \in Frame
  <1>1. Top \in Frame
    BY DEF TypeOK, Top
  <1>2. QED
    BY <1>1, Costs DEF Entered, Frame

(* Every variable keeps its type, and a parser has its root frame.         *)
THEOREM TypeCorrect == Spec => []TypeOK
  <1>1. Init => TypeOK
    BY DEF Init, TypeOK, Outcome
  <1>2. TypeOK /\ [Next]_vars => TypeOK'
    <2> SUFFICES ASSUME TypeOK, [Next]_vars PROVE TypeOK'
      OBVIOUS
    <2>1. CASE Start
      <3>0. limit \in Int
        BY LimitAssumption DEF TypeOK
      <3>1. CASE limit < 0
        BY <2>1, <3>0, <3>1 DEF Start, End, TypeOK, Outcome
      <3>2. CASE limit >= 0 /\ End("badSchema") /\ UNCHANGED <<room, stack>>
        BY <2>1, <3>2 DEF Start, End, TypeOK, Outcome
      <3>3. CASE limit >= 0 /\ room' \in Rooms(Depth) /\ stack' = <<Root>>
                 /\ pc' = "parse" /\ UNCHANGED outcome
        <4>1. room' \in Nat
          BY <3>3, DepthRange, LimitAssumption DEF Rooms
        <4>2. stack' \in Seq(Frame) /\ Len(stack') = 1
          <5>1. Root \in Frame
            BY DEF Root, Frame
          <5>2. QED
            BY <3>3, <5>1
        <4>3. QED
          BY <2>1, <3>3, <4>1, <4>2 DEF Start, TypeOK
      <3>4. QED
        BY <2>1, <3>1, <3>2, <3>3, LimitAssumption DEF Start, TypeOK
    <2>2. ASSUME NEW k \in Kind, Enter(k) PROVE TypeOK'
      <3>1. Entered(k) \in Frame
        BY <2>2, EnteredFrame DEF Enter
      <3>2. deepestPb' \in Nat /\ deepestPxf' \in Nat
        BY <2>2, <3>1 DEF Enter, TypeOK, Larger, Frame
      <3>3. CASE stack' = Append(stack, Entered(k)) /\ UNCHANGED <<pc, outcome>>
        <4>1. stack' \in Seq(Frame) /\ Len(stack') = Len(stack) + 1
          BY <3>1, <3>3, AppendProperties DEF TypeOK
        <4>2. Len(stack) \in Nat
          BY LenProperties DEF TypeOK
        <4>3. QED
          BY <2>2, <3>2, <3>3, <4>1, <4>2 DEF Enter, TypeOK
      <3>4. CASE End("tooDeepToParse") /\ UNCHANGED stack
        BY <2>2, <3>2, <3>4 DEF Enter, End, TypeOK, Outcome
      <3>5. QED
        BY <2>2, <3>3, <3>4 DEF Enter
    <2>3. CASE Leave
      <3>1. Len(stack) \in Nat /\ Len(stack) > 1
        BY <2>3, LenProperties DEF Leave, TypeOK
      <3>2. stack' \in Seq(Frame) /\ Len(stack') = Len(stack) - 1
        BY <2>3, <3>1 DEF Leave, TypeOK
      <3>3. QED
        BY <2>3, <3>1, <3>2 DEF Leave, TypeOK
    <2>4. CASE Malformed
      BY <2>4 DEF Malformed, End, TypeOK, Outcome
    <2>5. CASE Parsed
      BY <2>5 DEF Parsed, TypeOK
    <2>6. CASE Encode
      BY <2>6 DEF Encode, End, TypeOK, Outcome
    <2>7. CASE UNCHANGED vars
      BY <2>7 DEF vars, TypeOK
    <2>8. QED
      BY <2>1, <2>2, <2>3, <2>4, <2>5, <2>6, <2>7 DEF Next
  <1>3. QED
    BY <1>1, <1>2, PTL DEF Spec
-------------------------------------------------------------------------------
(* The two counts along the open path and over what was met.               *)
Counts ==
    /\ \A i \in DOMAIN stack :
         stack[i].pb <= stack[i].pxf + (IF stack[i].leaf THEN 1 ELSE 0)
    /\ OneDeeperAtMost

(* What is written is no deeper than the limit.                            *)
TextFits == outcome = "text" => deepestPxf <= Depth

(* What the parser's room says of a call under way and of its end.         *)
RoomInv ==
    /\ pc \in {"parse", "encode"} =>
         /\ room <= Depth + 1
         /\ Depth < IntMax => room = Depth + 1
         /\ deepestPb <= room
         /\ outcome = "none"
    /\ pc = "start" => deepestPb = 0
    /\ outcome # "none" => pc = "done"
    /\ EncoderDecides
    /\ TextFits

(* The new depths of a field entered are in the frame's relation too.      *)
LEMMA EnteredCounts ==
    ASSUME TypeOK, Counts, pc = "parse", NEW k \in Kind, ~Top.leaf
    PROVE  Entered(k).pb <= Entered(k).pxf + (IF Entered(k).leaf THEN 1 ELSE 0)
  <1>1. Len(stack) \in DOMAIN stack
    BY LenProperties DEF TypeOK
  <1>2. Top.pb <= Top.pxf + (IF Top.leaf THEN 1 ELSE 0)
    BY <1>1 DEF Counts, Top
  <1>3. /\ Top \in Frame /\ Top.pb \in Nat /\ Top.pxf \in Nat
        /\ Top.pb <= Top.pxf
    <2>1. Top \in Frame
      BY EnteredFrame
    <2>2. QED
      BY <1>2, <2>1 DEF Frame
  <1>4. /\ Entered(k).pb = Top.pb + PbCost(k)
        /\ Entered(k).pxf = Top.pxf + PxfCost(k)
        /\ Entered(k).leaf = (k \in Leaf)
    BY DEF Entered
  <1> DEFINE pb == PbCost(k)
             pxf == PxfCost(k)
  <1>0. pb \in Nat /\ pxf \in Nat /\ pb <= pxf + (IF k \in Leaf THEN 1 ELSE 0)
    BY Costs
  <1> HIDE DEF pb, pxf
  <1>5. CASE k \in Leaf
    <2>1. Entered(k).pb <= Entered(k).pxf + 1
      BY <1>0, <1>3, <1>4, <1>5 DEF pb, pxf
    <2>2. QED
      BY <1>4, <1>5, <2>1
  <1>6. CASE k \notin Leaf
    <2>1. Entered(k).pb <= Entered(k).pxf
      BY <1>0, <1>3, <1>4, <1>6 DEF pb, pxf
    <2>2. QED
      BY <1>3, <1>4, <1>6, <2>1, <1>0 DEF pb, pxf
  <1>7. QED
    BY <1>5, <1>6

(* Along every open path, and so over all that was met.                    *)
LEMMA CountsHold == Spec => []Counts
  <1>1. Init => Counts
    BY DEF Init, Counts, OneDeeperAtMost
  <1>2. TypeOK /\ Counts /\ [Next]_vars => Counts'
    <2> SUFFICES ASSUME TypeOK, Counts, [Next]_vars PROVE Counts'
      OBVIOUS
    <2>1. CASE Start
      BY <2>1 DEF Start, Counts, OneDeeperAtMost, Root
    <2>2. ASSUME NEW k \in Kind, Enter(k) PROVE Counts'
      <3>1. /\ Entered(k) \in Frame
            /\ Entered(k).pb <= Entered(k).pxf + (IF Entered(k).leaf THEN 1 ELSE 0)
        BY <2>2, EnteredFrame, EnteredCounts DEF Enter
      <3>2. OneDeeperAtMost'
        BY <2>2, <3>1 DEF Enter, TypeOK, Counts, OneDeeperAtMost, Larger, Frame
      <3>3. CASE stack' = Append(stack, Entered(k))
        <4>1. stack \in Seq(Frame)
          BY DEF TypeOK
        <4>2. \A i \in DOMAIN stack' :
                stack'[i] = Entered(k) \/ (i \in DOMAIN stack /\ stack'[i] = stack[i])
          <5>1. /\ DOMAIN stack = 1 .. Len(stack)
                /\ DOMAIN stack' = 1 .. Len(stack) + 1
                /\ Len(stack) \in Nat
                /\ \A i \in 1 .. Len(stack) : stack'[i] = stack[i]
                /\ stack'[Len(stack) + 1] = Entered(k)
            BY <3>1, <3>3, <4>1, AppendProperties, LenProperties
          <5>2. \A i \in 1 .. Len(stack) + 1 : i = Len(stack) + 1 \/ i \in 1 .. Len(stack)
            BY <5>1
          <5>3. QED
            BY <5>1, <5>2
        <4>3. QED
          BY <3>1, <3>2, <4>2 DEF Counts
      <3>4. CASE stack' = stack
        BY <3>2, <3>4 DEF Counts
      <3>5. QED
        BY <2>2, <3>3, <3>4 DEF Enter
    <2>3. CASE Leave
      <3>1. stack \in Seq(Frame) /\ Len(stack) \in Nat /\ Len(stack) > 1
        BY <2>3, LenProperties DEF Leave, TypeOK
      <3>2. \A i \in DOMAIN stack' : i \in DOMAIN stack /\ stack'[i] = stack[i]
        BY <2>3, <3>1 DEF Leave
      <3>3. QED
        BY <2>3, <3>2 DEF Leave, Counts, OneDeeperAtMost
    <2>4. CASE Malformed \/ Parsed \/ Encode \/ UNCHANGED vars
      BY <2>4 DEF Malformed, Parsed, Encode, vars, Counts, OneDeeperAtMost
    <2>5. QED
      BY <2>1, <2>2, <2>3, <2>4 DEF Next
  <1>3. QED
    BY <1>1, <1>2, TypeCorrect, PTL DEF Spec

(* The bytes nest at most one level deeper than the PXF.                   *)
THEOREM BytesNestOneDeeper == Spec => []OneDeeperAtMost
  <1>1. Counts => OneDeeperAtMost
    BY DEF Counts
  <1>2. QED
    BY <1>1, CountsHold, PTL

(* The invariant that ties the parser's room to the encoder's limit.       *)
LEMMA RoomHolds == Spec => []RoomInv
  <1>1. Init => RoomInv
    BY DEF Init, RoomInv, EncoderDecides, TextFits
  <1>2. TypeOK /\ Counts /\ Counts' /\ RoomInv /\ [Next]_vars => RoomInv'
    <2> SUFFICES ASSUME TypeOK, Counts, Counts', RoomInv, [Next]_vars PROVE RoomInv'
      OBVIOUS
    <2> USE DEF EncoderDecides, TextFits
    <2>1. CASE Start
      <3>1. Depth' = Depth /\ limit \in Int
        BY <2>1, LimitAssumption DEF Start, Depth, TypeOK
      <3>2. CASE pc' = "done" /\ outcome' \in {"negative", "badSchema"}
        BY <2>1, <3>2 DEF Start, RoomInv
      <3>3. CASE limit >= 0 /\ room' \in Rooms(Depth) /\ pc' = "parse" /\ UNCHANGED outcome
        <4>1. Depth \in 1 .. IntMax /\ room' <= Depth + 1
              /\ (Depth < IntMax => room' = Depth + 1) /\ room' \in Nat
          BY <3>3, DepthRange, LimitAssumption DEF Rooms
        <4>2. outcome = "none" /\ deepestPb' = 0
          BY <2>1 DEF Start, RoomInv
        <4>3. QED
          BY <3>1, <3>3, <4>1, <4>2 DEF RoomInv
      <3>4. QED
        BY <2>1, <3>2, <3>3 DEF Start, End
    <2>2. ASSUME NEW k \in Kind, Enter(k) PROVE RoomInv'
      <3>1. Entered(k) \in Frame /\ limit >= 0 /\ Depth' = Depth
        BY <2>2, EnteredFrame DEF Enter, TypeOK, Depth
      <3>2. Depth \in Nat /\ IntMax \in Nat /\ room \in Nat
            /\ deepestPb \in Nat /\ deepestPxf \in Nat
        BY <3>1, DepthRange, LimitAssumption DEF TypeOK
      <3>3. CASE Entered(k).pb <= room /\ UNCHANGED <<pc, outcome>>
        BY <2>2, <3>1, <3>2, <3>3 DEF Enter, RoomInv, Larger, Frame
      <3>4. CASE Entered(k).pb > room /\ End("tooDeepToParse")
        <4>1. deepestPb' > room /\ deepestPb' \in Nat /\ deepestPxf' \in Nat
          BY <2>2, <3>1, <3>2, <3>4 DEF Enter, Larger, Frame
        <4>2. deepestPb' <= deepestPxf' + 1
          BY DEF Counts, OneDeeperAtMost
        <4>3. Depth < IntMax => room = Depth + 1
          BY <2>2 DEF Enter, RoomInv
        <4>4. Depth < IntMax => deepestPxf' > Depth
          <5> SUFFICES ASSUME Depth < IntMax PROVE deepestPxf' > Depth
            OBVIOUS
          <5>1. room = Depth + 1
            BY <4>3
          <5>2. QED
            <6>1. PICK d \in Nat : d = Depth
              BY <3>2
            <6>2. PICK pb \in Nat, pxf \in Nat : pb = deepestPb' /\ pxf = deepestPxf'
              BY <4>1
            <6>3. pb > d + 1 /\ pb <= pxf + 1
              BY <4>1, <4>2, <5>1, <6>1, <6>2
            <6>4. pxf > d
              BY <6>3
            <6>5. QED
              BY <6>1, <6>2, <6>4
        <4>5. pc' = "done" /\ outcome' = "tooDeepToParse"
          BY <3>4 DEF End
        <4>6. QED
          BY <3>1, <4>4, <4>5 DEF RoomInv
      <3>5. QED
        BY <2>2, <3>3, <3>4 DEF Enter
    <2>3. CASE Leave
      BY <2>3 DEF Leave, RoomInv, Depth
    <2>4. CASE Malformed
      BY <2>4 DEF Malformed, End, RoomInv, Depth
    <2>5. CASE Parsed
      BY <2>5 DEF Parsed, RoomInv, Depth
    <2>6. CASE Encode
      <3>1. Depth' = Depth /\ Depth \in Nat /\ room \in Nat
            /\ deepestPb \in Nat /\ deepestPxf \in Nat
        BY <2>6, DepthRange, LimitAssumption DEF Encode, Depth, TypeOK
      <3>2. QED
        BY <2>6, <3>1 DEF Encode, End, RoomInv
    <2>7. CASE UNCHANGED vars
      BY <2>7 DEF vars, RoomInv, Depth
    <2>8. QED
      BY <2>1, <2>2, <2>3, <2>4, <2>5, <2>6, <2>7 DEF Next
  <1>3. QED
    BY <1>1, <1>2, TypeCorrect, CountsHold, PTL DEF Spec

(* The parser never refuses, for its depth, what the encoder would write.  *)
THEOREM ParserYields == Spec => []EncoderDecides
  <1>1. RoomInv => EncoderDecides
    BY DEF RoomInv
  <1>2. QED
    BY <1>1, RoomHolds, PTL

-------------------------------------------------------------------------------
(* The encoder that the harness runs is MarshalDepth's, undisturbed.       *)
THEOREM RunsTheEncoder == HSpec => Spec
  <1>1. HInit => Init
    BY DEF HInit
  <1>2. [HNext]_all => [Next]_vars
    BY DEF HNext, all, Args, Envelope, ParseLimits, Files, BindFails, Bind, Decode, Render,
           RenderEnds, Interrupted
  <1>3. QED
    BY <1>1, <1>2, PTL DEF HSpec, Spec

(* main turns every exception that reaches it into exit 2.                 *)
LEMMA FailIsTwo ==
    ASSUME NEW who, NEW what \in Exception, Fail(who, what)
    PROVE  exit' = 2 /\ stage' = "exited" /\ event' = [by |-> who, raised |-> what]
  BY DEF Fail, Exit, MainCatches

(* Only the class that the format's try names becomes exit 1.              *)
LEMMA TryIsOneOrTwo ==
    ASSUME NEW who, NEW what \in Exception, Try(who, what)
    PROVE  /\ stage' = "exited" /\ event' = [by |-> who, raised |-> what]
           /\ exit' = IF what \in Rejected THEN 1 ELSE 2
  BY FailIsTwo DEF Try, Exit

(* The encoder, where it is at work, does not change what decides about a  *)
(* row: the limit.                                                         *)
LEMMA LimitStays == [Next]_vars => limit' = limit
  BY DEF Next, vars, Start, Enter, Leave, Malformed, Parsed, Encode

(* The encoder has an outcome only once it has begun, and raises for a     *)
(* negative limit only when the limit is.                                  *)
Begun ==
    /\ pc = "start" => outcome = "none"
    /\ outcome = "negative" => limit < 0

LEMMA BegunStays == Begun /\ [Next]_vars => Begun'
  BY DEF Begun, Next, vars, Start, Enter, Leave, Malformed, Parsed, Encode, End

(* The inductive invariant.  What an exit code says depends on the limit   *)
(* that was parsed, which is the one in force.                             *)
Verdict ==
    /\ HTypeOK
    /\ Begun
    /\ limit = asked
    /\ stage \in {"files", "bind", "decode"} => spec \in {"none", "number", "tooLarge"}
    /\ pc # "start" => spec \in {"none", "number"}
    /\ ExitOneIsARefusal
    /\ exit = 0 => /\ event = [by |-> "decoder", raised |-> "none"]
                   /\ spec \in {"none", "number"}
                   /\ format = "pb-render" => outcome = "text"

(* How a step that ends the run keeps the invariant.                       *)
LEMMA EndKeepsVerdict ==
    ASSUME Verdict, UNCHANGED <<format, spec, asked, vars>>, stage' = "exited",
           event' \in Event, exit' \in 0 .. 2,
           pc # "start" => format = "pb-render",
           exit' = 1 => \/ event'.by = "decoder" \/ format = "envelope"
                        \/ limit < 0 \/ outcome = "badSchema",
           exit' = 0 => /\ event' = [by |-> "decoder", raised |-> "none"]
                        /\ spec \in {"none", "number"}
                        /\ format = "pb-render" => outcome = "text"
    PROVE  Verdict'
  BY DEF Verdict, Begun, HTypeOK, ExitOneIsARefusal, vars, Specs, Running

LEMMA VerdictHolds == HSpec => []Verdict
  <1>1. HInit => Verdict
    BY DefaultIsALimit DEF HInit, Init, Verdict, Begun, HTypeOK, ExitOneIsARefusal, Event, Exception,
        Running, Passed
  <1>2. Verdict /\ [HNext]_all => Verdict'
    <2> SUFFICES ASSUME Verdict, [HNext]_all PROVE Verdict'
      OBVIOUS
    <2>0. pc # "start" => format = "pb-render"
      BY DEF Verdict, HTypeOK
    <2>1. CASE Args
      <3>1. CASE Go("run")
        BY <2>1, <3>1 DEF Args, Go, Verdict, Begun, HTypeOK, ExitOneIsARefusal, vars, Running
      <3>2. CASE Exit(2, "args", "SystemExit")
        BY <2>0, <2>1, <3>2, EndKeepsVerdict DEF Args, Exit, Event, Exception
      <3>3. QED
        BY <2>1, <3>1, <3>2 DEF Args
    <2>2. CASE Envelope
      BY <2>0, <2>2, EndKeepsVerdict DEF Envelope, Exit, Event, Exception
    <2>3. CASE ParseLimits
      <3>1. CASE spec \in {"none", "number", "tooLarge"} /\ Go("files")
        BY <2>3, <3>1 DEF ParseLimits, Go, Verdict, Begun, HTypeOK, ExitOneIsARefusal, vars, Running
      <3>2. ASSUME NEW e \in {"SystemExit", "ValueError"}, Fail("limits", e) PROVE Verdict'
        BY <2>0, <2>3, <3>2, FailIsTwo, EndKeepsVerdict DEF ParseLimits, Event, Exception
      <3>3. QED
        BY <2>3, <3>1, <3>2 DEF ParseLimits
    <2>4. CASE Files
      <3>1. CASE Go("bind")
        BY <2>4, <3>1 DEF Files, Go, Verdict, Begun, HTypeOK, ExitOneIsARefusal, vars, Running
      <3>2. CASE Fail("files", "OSError")
        BY <2>0, <2>4, <3>2, FailIsTwo, EndKeepsVerdict DEF Files, Event, Exception
      <3>3. QED
        BY <2>4, <3>1, <3>2 DEF Files
    <2>5. CASE BindFails
      <3>1. PICK who \in {"schema", "limits"},
                 e \in {"ValueError", "DecodeError", "TypeError", "KeyError"} : Fail(who, e)
        BY <2>5 DEF BindFails
      <3>2. QED
        BY <2>0, <2>5, <3>1, FailIsTwo, EndKeepsVerdict DEF BindFails, Event, Exception
    <2>6. CASE Bind
      BY <2>6 DEF Bind, Go, Verdict, Begun, HTypeOK, ExitOneIsARefusal, vars, Running
    <2>7. CASE Decode
      <3>1. CASE Exit(0, "decoder", "none")
        <4>1. spec \in {"none", "number"}
          BY <2>7, <3>1 DEF Decode, Exit, Try, Fail, Verdict
        <4>2. QED
          BY <2>0, <2>7, <3>1, <4>1, EndKeepsVerdict DEF Decode, Exit, Event, Exception
      <3>2. CASE Try("limits", "TypeError") \/ Try("runtime", "RuntimeError")
        BY <2>0, <2>7, <3>2, TryIsOneOrTwo, EndKeepsVerdict
           DEF Decode, Rejected, Event, Exception
      <3>3. CASE limit < 0 /\ Try("limits", "ValueError")
        BY <2>0, <2>7, <3>3, TryIsOneOrTwo, EndKeepsVerdict DEF Decode, Event, Exception
      <3>4. ASSUME NEW e \in {"DecodeError", "ValueError"}, Try("decoder", e) PROVE Verdict'
        BY <2>0, <2>7, <3>4, TryIsOneOrTwo, EndKeepsVerdict DEF Decode, Event, Exception
      <3>5. CASE format = "sbe" /\ Try("runtime", "DecodeError")
        BY <2>0, <2>7, <3>5, TryIsOneOrTwo, EndKeepsVerdict
           DEF Decode, Rejected, Event, Exception
      <3>6. QED
        BY <2>7, <3>1, <3>2, <3>3, <3>4, <3>5 DEF Decode
    <2>8. CASE Render
      <3>1. limit' = limit
        BY <2>8, LimitStays DEF Render
      <3>2. Begun'
        BY <2>8, BegunStays DEF Render, Verdict
      <3>3. exit = Running
        BY <2>8 DEF Render, Verdict, HTypeOK
      <3>4. QED
        BY <2>8, <3>1, <3>2, <3>3 DEF Render, harness, Verdict, HTypeOK, ExitOneIsARefusal, Running
    <2>9. CASE RenderEnds
      <3>1. CASE outcome = "text" /\ Exit(0, "decoder", "none")
        <4>1. spec \in {"none", "number"}
          BY <3>1 DEF Verdict, Begun
        <4>2. QED
          BY <2>0, <2>9, <3>1, <4>1, EndKeepsVerdict DEF RenderEnds, Exit, Event, Exception
      <3>2. CASE Fail("parser", "ValueError")
        BY <2>0, <2>9, <3>2, FailIsTwo, EndKeepsVerdict DEF RenderEnds, Event, Exception
      <3>3. CASE Try("decoder", "ValueError")
        BY <2>0, <2>9, <3>3, TryIsOneOrTwo, EndKeepsVerdict DEF RenderEnds, Event, Exception
      <3>4. CASE outcome = "badSchema" /\ Try("schema", "ValueError")
        BY <2>0, <2>9, <3>4, TryIsOneOrTwo, EndKeepsVerdict DEF RenderEnds, Event, Exception
      <3>5. CASE outcome = "negative" /\ Try("limits", "ValueError")
        <4>1. limit < 0
          BY <3>5 DEF Verdict, Begun
        <4>2. QED
          BY <2>0, <2>9, <3>5, <4>1, TryIsOneOrTwo, EndKeepsVerdict DEF RenderEnds, Event, Exception
      <3>6. CASE Try("limits", "TypeError")
        BY <2>0, <2>9, <3>6, TryIsOneOrTwo, EndKeepsVerdict
           DEF RenderEnds, Rejected, Event, Exception
      <3>7. QED
        BY <2>9, <3>1, <3>2, <3>3, <3>4, <3>5, <3>6 DEF RenderEnds
    <2>10. CASE Interrupted
      BY <2>0, <2>10, FailIsTwo, EndKeepsVerdict DEF Interrupted, Event, Exception
    <2>11. CASE UNCHANGED all
      BY <2>11 DEF all, harness, vars, Verdict, Begun, HTypeOK, ExitOneIsARefusal
    <2>12. QED
      BY <2>1, <2>2, <2>3, <2>4, <2>5, <2>6, <2>7, <2>8, <2>9, <2>10, <2>11 DEF HNext
  <1>3. QED
    BY <1>1, <1>2, PTL DEF HSpec

(* The script's variables keep their types, and the encoder runs only for  *)
(* a pb-render row whose schema is bound.                                  *)
THEOREM HarnessTypeCorrect == HSpec => []HTypeOK
  <1>1. Verdict => HTypeOK
    BY DEF Verdict
  <1>2. QED
    BY <1>1, VerdictHolds, PTL

(* Exit 1 comes from the decoder, or from one of the ways that the         *)
(* property names.                                                         *)
THEOREM RejectsAreRefusals == HSpec => []ExitOneIsARefusal
  <1>1. Verdict => ExitOneIsARefusal
    BY DEF Verdict
  <1>2. QED
    BY <1>1, VerdictHolds, PTL

(* Exit 0 comes from a decoder that worked under the limit asked for; the  *)
(* encoder's part in this is the invariant of MarshalDepth, which the     *)
(* harness runs.                                                           *)
THEOREM AcceptsAreAcceptances == HSpec => []ExitZeroIsAcceptance
  <1>1. Verdict /\ RoomInv => ExitZeroIsAcceptance
    BY DEF Verdict, RoomInv, TextFits, ExitZeroIsAcceptance, Depth
  <1>2. QED
    BY <1>1, VerdictHolds, RunsTheEncoder, RoomHolds, PTL

(* What was shown of the encoder alone holds of it in the harness.         *)
THEOREM EncoderInHarness == HSpec => [](TypeOK /\ OneDeeperAtMost /\ EncoderDecides)
  BY RunsTheEncoder, TypeCorrect, BytesNestOneDeeper, ParserYields, PTL
===============================================================================
