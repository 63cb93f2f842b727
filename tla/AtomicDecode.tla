----------------------------- MODULE AtomicDecode -----------------------------
(***************************************************************************)
(* What a caller who does not share a message between threads may rely on  *)
(* when it decodes into that message: one step takes the message from its  *)
(* old content to the content of the input, or leaves it alone and reports *)
(* the refusal.  Two ways out of that promise are part of the interface:   *)
(* an input the protobuf runtime cannot load, and a call that an           *)
(* asynchronous exception (KeyboardInterrupt) cuts short.  Either may      *)
(* leave anything behind, but never reports success.                       *)
(*                                                                         *)
(* Unmarshal.tla implements this module for the messages that are never in *)
(* two calls at once.                                                      *)
(***************************************************************************)
EXTENDS Naturals, Sequences

CONSTANTS Thread,        \* the threads that make calls
          Message,       \* the message objects
          Doc,           \* the inputs
          Loadable,      \* the inputs whose bytes the protobuf runtime loads
          Interruptible, \* the threads that can see an asynchronous exception
          MaxCalls       \* how many calls are made, at most

VARIABLES value,   \* message -> its content, as its owner sees it
          active,  \* thread -> the call it is making, 0 for none
          target,  \* call -> the message it decodes into and its input
          outcome  \* call -> how it ended, "none" before that

vars == <<value, active, target, outcome>>

Call == 1 .. MaxCalls

(* The content a successful call c leaves: c's input and nothing else. *)
Exactly(c) == << [call |-> c, whole |-> TRUE] >>

(* What an abandoned call c may leave in a message that held v. *)
Leftover(c, v) ==
    {v, <<>>, Exactly(c), << [call |-> c, whole |-> FALSE] >>}

Init ==
    /\ value = [m \in Message |-> Exactly(0)]
    /\ active = [t \in Thread |-> 0]
    /\ target = [c \in Call |-> <<>>]
    /\ outcome = [c \in Call |-> "none"]

(* t calls a decoder on a message no other call is using. *)
Begin(t) ==
    /\ active[t] = 0
    /\ \E c \in Call, m \in Message, d \in Doc :
         /\ target[c] = <<>>
         /\ \A u \in Thread : active[u] # 0 => target[active[u]][1] # m
         /\ active' = [active EXCEPT ![t] = c]
         /\ target' = [target EXCEPT ![c] = <<m, d>>]
    /\ UNCHANGED <<value, outcome>>

(* t's call returns: its message changes, if at all, in this one step. *)
End(t, how, v) ==
    LET c == active[t] IN
    /\ c # 0
    /\ active' = [active EXCEPT ![t] = 0]
    /\ outcome' = [outcome EXCEPT ![c] = how]
    /\ value' = [value EXCEPT ![target[c][1]] = v]
    /\ UNCHANGED target

Accept(t) == End(t, "ok", Exactly(active[t]))

Refuse(t) == active[t] # 0 /\ End(t, "refused", value[target[active[t]][1]])

Spoil(t, how) ==
    /\ active[t] # 0
    /\ \E v \in Leftover(active[t], value[target[active[t]][1]]) : End(t, how, v)

Fail(t) ==
    /\ active[t] # 0
    /\ target[active[t]][2] \notin Loadable
    /\ Spoil(t, "failed")

Interrupt(t) == t \in Interruptible /\ Spoil(t, "interrupted")

Next ==
    \E t \in Thread : Begin(t) \/ Accept(t) \/ Refuse(t) \/ Fail(t) \/ Interrupt(t)

Spec == Init /\ [][Next]_vars

===============================================================================
