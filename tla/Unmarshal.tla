------------------------------- MODULE Unmarshal -------------------------------
(***************************************************************************)
(* Decoding into a caller's message: pxf.unmarshal, pxf.unmarshal_full and *)
(* sbe.Codec.unmarshal.  All three have one shape                          *)
(*                                                                         *)
(*     raw = native decode (text, schema, limits)    may raise ValueError  *)
(*     msg.Clear()                                                         *)
(*     msg.MergeFromString(raw)                      may raise DecodeError *)
(*                                                                         *)
(* A call into the extension module or into the protobuf runtime holds the *)
(* interpreter lock throughout (module.cc never releases it), so each line *)
(* is one step.  Between the lines another thread may run, and the main    *)
(* thread may see a KeyboardInterrupt.                                     *)
(*                                                                         *)
(* The content of a message is the sequence of merges since its last       *)
(* Clear, each named by the call that made it: MergeFromString replaces    *)
(* singular fields and appends to repeated ones, so two merges in a row    *)
(* are a mixture of two inputs.                                            *)
(***************************************************************************)
EXTENDS Integers, Sequences

CONSTANTS Thread,        \* Python threads
          Message,       \* protobuf message objects
          PxfDoc,        \* PXF inputs
          SbeDoc,        \* SBE inputs
          WellFormed,    \* the inputs that decode, limits aside
          PxfDepth,      \* input -> its `{` / `[` nesting
          PbDepth,       \* input -> the submessage levels of its bytes
          Limit,         \* the values callers pass as max_nesting_depth
          DefaultDepth,  \* what 0 selects (100 in protowire/limits.h)
          RuntimeDepth,  \* the levels the protobuf runtime loads (100)
          Interruptible, \* threads that can see an asynchronous exception
          Owned,         \* the messages that are never in two calls at once
          MaxCalls       \* bound on the number of calls of a behaviour

Doc == PxfDoc \union SbeDoc
Call == 1 .. MaxCalls

(* Every submessage is a PXF block except a literal, which has no          *)
(* submessages (module.cc:391-394).  MarshalDepth derives this.            *)
ASSUME DepthAssumption ==
    /\ PxfDepth \in [Doc -> Nat]
    /\ PbDepth \in [Doc -> Nat]
    /\ \A d \in PxfDoc : PbDepth[d] <= PxfDepth[d] + 1

ASSUME ParameterAssumption ==
    /\ Limit \subseteq Int /\ 0 \in Limit
    /\ DefaultDepth \in Nat
    /\ RuntimeDepth \in Nat
    /\ MaxCalls \in Nat
    /\ Owned \subseteq Message

VARIABLES content,  \* message -> the merges it holds
          pc,       \* thread -> the line it is about to execute
          cur,      \* thread -> the call it is making, or made last
          arg,      \* call -> its arguments
          outcome,  \* call -> how it ended, "none" while it runs
          past,     \* history: call -> the calls that had ended when it began
          before,   \* history: call -> its message's content when it began
          next      \* the number of the next call

vars == <<content, pc, cur, arg, outcome, past, before, next>>

Api == {"unmarshal", "unmarshal_full", "sbe"}
Input(api) == IF api = "sbe" THEN SbeDoc ELSE PxfDoc
LimitOf(api) == IF api = "sbe" THEN {0} ELSE Limit
Entry == [call : 0 .. MaxCalls, whole : BOOLEAN]
Argument == [api : Api, msg : Message, doc : Doc, limit : Limit]
Outcome == {"none", "ok", "refused", "failed", "interrupted"}

Busy(t) == pc[t] # "idle"
Target(t) == arg[cur[t]].msg
Ended == {c \in 1 .. next - 1 : outcome[c] # "none"} \union {0}

(* 0 selects the default. *)
Effective(limit) == IF limit = 0 THEN DefaultDepth ELSE limit

(* Variant: the depth check is off by one. *)
AcceptsOneDeeper(a) ==
    /\ a.doc \in WellFormed
    /\ a.api # "sbe" => a.limit >= 0 /\ PxfDepth[a.doc] <= Effective(a.limit) + 1

(* The native decode returns bytes: a negative limit, malformed input and  *)
(* nesting past the limit are a ValueError.  The SBE codec takes no depth. *)
Accepts(a) ==
    /\ a.doc \in WellFormed
    /\ a.api # "sbe" => a.limit >= 0 /\ PxfDepth[a.doc] <= Effective(a.limit)

(* MergeFromString loads the bytes. *)
Loads(d) == PbDepth[d] <= RuntimeDepth

-------------------------------------------------------------------------------
Init ==
    /\ content = [m \in Message |-> << [call |-> 0, whole |-> TRUE] >>]
    /\ pc = [t \in Thread |-> "idle"]
    /\ cur = [t \in Thread |-> 0]
    /\ arg = [c \in Call |-> <<>>]
    /\ outcome = [c \in Call |-> "none"]
    /\ past = [c \in Call |-> {}]
    /\ before = [c \in Call |-> <<>>]
    /\ next = 1

(* t calls one of the three, having copied the input (data.encode, bytes). *)
Begin(t) ==
    /\ pc[t] = "idle"
    /\ next <= MaxCalls
    /\ \E api \in Api, m \in Message :
       \E d \in Input(api), limit \in LimitOf(api) :
         /\ m \in Owned => \A u \in Thread : Busy(u) => Target(u) # m
         /\ arg' = [arg EXCEPT ![next] =
                       [api |-> api, msg |-> m, doc |-> d, limit |-> limit]]
         /\ before' = [before EXCEPT ![next] = content[m]]
    /\ cur' = [cur EXCEPT ![t] = next]
    /\ past' = [past EXCEPT ![next] = Ended]
    /\ next' = next + 1
    /\ pc' = [pc EXCEPT ![t] = "native"]
    /\ UNCHANGED <<content, outcome>>

(* The call t is making is over. *)
Finish(t, how) ==
    /\ outcome' = [outcome EXCEPT ![cur[t]] = how]
    /\ pc' = [pc EXCEPT ![t] = "idle"]

(* Variant: the message is cleared before the input is known to decode. *)
DecodeAfterClear(t) ==
    /\ pc[t] = "native"
    /\ content' = [content EXCEPT ![Target(t)] = <<>>]
    /\ \/ /\ Accepts(arg[cur[t]])
          /\ pc' = [pc EXCEPT ![t] = "merge"]
          /\ UNCHANGED outcome
       \/ /\ ~Accepts(arg[cur[t]])
          /\ Finish(t, "refused")
    /\ UNCHANGED <<cur, arg, past, before, next>>

(* The native decode works on a message and a schema of its own. *)
Decode(t) ==
    /\ pc[t] = "native"
    /\ \/ /\ Accepts(arg[cur[t]])
          /\ pc' = [pc EXCEPT ![t] = "clear"]
          /\ UNCHANGED outcome
       \/ /\ ~Accepts(arg[cur[t]])
          /\ Finish(t, "refused")
    /\ UNCHANGED <<content, cur, arg, past, before, next>>

(* Variant: Clear is left out, the bytes are merged into what is there. *)
ClearLeftOut(t) ==
    /\ pc[t] = "clear"
    /\ pc' = [pc EXCEPT ![t] = "merge"]
    /\ UNCHANGED <<content, cur, arg, outcome, past, before, next>>

(* msg.Clear() *)
Clear(t) ==
    /\ pc[t] = "clear"
    /\ content' = [content EXCEPT ![Target(t)] = <<>>]
    /\ pc' = [pc EXCEPT ![t] = "merge"]
    /\ UNCHANGED <<cur, arg, outcome, past, before, next>>

(* Variant: the bytes are put down to the call that comes next. *)
MergedAsNext(t, whole) ==
    [content EXCEPT ![Target(t)] = Append(@, [call |-> next, whole |-> whole])]

Merged(t, whole) ==
    [content EXCEPT ![Target(t)] = Append(@, [call |-> cur[t], whole |-> whole])]

(* msg.MergeFromString(raw) loads the bytes; unmarshal and the SBE codec   *)
(* then return, unmarshal_full has its Result to build.                    *)
Merge(t) ==
    /\ pc[t] = "merge"
    /\ Loads(arg[cur[t]].doc)
    /\ content' = Merged(t, TRUE)
    /\ \/ /\ arg[cur[t]].api = "unmarshal_full"
          /\ pc' = [pc EXCEPT ![t] = "wrap"]
          /\ UNCHANGED outcome
       \/ /\ arg[cur[t]].api # "unmarshal_full"
          /\ Finish(t, "ok")
    /\ UNCHANGED <<cur, arg, past, before, next>>

(* Variant: a DecodeError starts the load over. *)
MergeFailsRetries(t) ==
    /\ pc[t] = "merge"
    /\ ~Loads(arg[cur[t]].doc)
    /\ pc' = [pc EXCEPT ![t] = "clear"]
    /\ UNCHANGED <<content, cur, arg, outcome, past, before, next>>

(* msg.MergeFromString(raw) stops at the runtime's depth and raises; what  *)
(* it had read by then stays.                                              *)
MergeFails(t) ==
    /\ pc[t] = "merge"
    /\ ~Loads(arg[cur[t]].doc)
    /\ content' = content \/ content' = Merged(t, FALSE)
    /\ Finish(t, "failed")
    /\ UNCHANGED <<cur, arg, past, before, next>>

(* return _wrap_result(...) *)
Wrap(t) ==
    /\ pc[t] = "wrap"
    /\ Finish(t, "ok")
    /\ UNCHANGED <<content, cur, arg, past, before, next>>

(* An asynchronous exception between two lines of the call. *)
Interrupt(t) ==
    /\ t \in Interruptible
    /\ Busy(t)
    /\ Finish(t, "interrupted")
    /\ UNCHANGED <<content, cur, arg, past, before, next>>

Step(t) == Decode(t) \/ Clear(t) \/ Merge(t) \/ MergeFails(t) \/ Wrap(t)

Next == \E t \in Thread : Begin(t) \/ Step(t) \/ Interrupt(t)

Spec == Init /\ [][Next]_vars

(* The interpreter lock is handed over after a switch interval, so a       *)
(* thread inside a call keeps running; nobody owes a call or an interrupt. *)
FairSpec == Spec /\ \A t \in Thread : WF_vars(Step(t))
-------------------------------------------------------------------------------
(* Type invariant. *)
TypeOK ==
    /\ content \in [Message -> Seq(Entry)]
    /\ pc \in [Thread -> {"idle", "native", "clear", "merge", "wrap"}]
    /\ next \in 1 .. MaxCalls + 1
    /\ cur \in [Thread -> 0 .. next - 1]
    /\ arg \in [Call -> Argument \union {<<>>}]
    /\ \A c \in 1 .. next - 1 : arg[c] \in Argument
    /\ outcome \in [Call -> Outcome]
    /\ past \in [Call -> SUBSET (0 .. MaxCalls)]
    /\ before \in [Call -> Seq(Entry)]
    /\ \A t \in Thread : Busy(t) => cur[t] # 0

(* A message never mixes two inputs unless their calls overlapped: when a  *)
(* call merges its bytes, nothing that was there before it began is left,  *)
(* however many other threads decode into the same message (pxf.py:326).   *)
NoMixing ==
    \A m \in Message : \A i, j \in DOMAIN content[m] :
        i < j => content[m][i].call \notin past[content[m][j].call]

(* The depth caveat of pxf.py:211-212 stated exactly: a decode that the    *)
(* native side accepted can fail to load, with the message already         *)
(* cleared, only if the caller's limit reaches the runtime's.  At the      *)
(* default limit, equal to the runtime's, it can.                          *)
LowLimitNeverFails ==
    \A c \in Call :
        outcome[c] = "failed" /\ arg[c].api # "sbe"
            => Effective(arg[c].limit) >= RuntimeDepth

(* What a successful call loaded stays loaded until another call that the  *)
(* native side accepted, and that overlapped it or began later, clears the *)
(* same message: a refused input never costs a message its content         *)
(* (pxf.py:319-326, the Clear after the last refusal).                     *)
Holds(m, c) == \E i \in DOMAIN content[m] : content[m][i].call = c

LoadedUntilReplaced ==
    \A c \in 1 .. next - 1 :
        outcome[c] = "ok" =>
            \/ Holds(arg[c].msg, c)
            \/ \E d \in 1 .. next - 1 :
                  /\ d # c /\ d \notin past[c]
                  /\ arg[d].msg = arg[c].msg
                  /\ Accepts(arg[d])

(* Every call returns or raises. *)
EveryCallEnds == \A c \in Call : (c < next) ~> (outcome[c] # "none")

(* For a message that its caller shares with no other call the three lines *)
(* are one atomic step, whatever is done to the messages beside it.  It is *)
(* taken to change when the call returns.                                  *)
Held(m) ==
    LET midway == {t \in Thread : pc[t] \in {"merge", "wrap"} /\ Target(t) = m}
    IN  IF midway = {} THEN content[m]
        ELSE before[cur[CHOOSE t \in midway : TRUE]]

OnOwned(c) == c < next /\ arg[c].msg \in Owned

Abstract == INSTANCE AtomicDecode WITH
    Message <- Owned,
    value <- [m \in Owned |-> Held(m)],
    active <- [t \in Thread |-> IF Busy(t) /\ OnOwned(cur[t]) THEN cur[t] ELSE 0],
    target <- [c \in Call |-> IF OnOwned(c) THEN <<arg[c].msg, arg[c].doc>> ELSE <<>>],
    outcome <- [c \in Call |-> IF OnOwned(c) THEN outcome[c] ELSE "none"],
    Loadable <- {d \in Doc : Loads(d)}

AtomicForOwner == Abstract!Spec
===============================================================================
