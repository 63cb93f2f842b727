---------------------------- MODULE UnmarshalProofs ----------------------------
(***************************************************************************)
(* Proofs about Unmarshal, for every number of threads, messages, inputs   *)
(* and calls, whether or not callers share messages.                       *)
(***************************************************************************)
EXTENDS Unmarshal, SequenceTheorems, TLAPS

(* Appending an entry of a call keeps a message's content well typed and   *)
(* says where every entry comes from.                                      *)
LEMMA MergedContent ==
    ASSUME NEW t \in Thread, NEW whole \in BOOLEAN,
           TypeOK, Busy(t)
    PROVE  LET s == content[Target(t)]
               e == [call |-> cur[t], whole |-> whole]
           IN  /\ Merged(t, whole) \in [Message -> Seq(Entry)]
               /\ \A m \in Message : m # Target(t) => Merged(t, whole)[m] = content[m]
               /\ DOMAIN Merged(t, whole)[Target(t)] = 1 .. Len(s) + 1
               /\ DOMAIN s = 1 .. Len(s)
               /\ Len(s) \in Nat
               /\ \A i \in 1 .. Len(s) : Merged(t, whole)[Target(t)][i] = s[i]
               /\ Merged(t, whole)[Target(t)][Len(s) + 1] = e
  <1> DEFINE s == content[Target(t)]
             e == [call |-> cur[t], whole |-> whole]
  <1>1. cur[t] \in 1 .. next - 1 /\ cur[t] \in 0 .. MaxCalls
    <2>1. next \in 1 .. MaxCalls + 1 /\ cur[t] \in 0 .. next - 1 /\ cur[t] # 0
      BY DEF TypeOK
    <2>2. QED
      BY <2>1, ParameterAssumption
  <1>2. Target(t) \in Message
    BY <1>1 DEF TypeOK, Target, Argument
  <1>3. e \in Entry
    BY <1>1 DEF Entry
  <1>4. s \in Seq(Entry)
    BY <1>2 DEF TypeOK
  <1>5. /\ Append(s, e) \in Seq(Entry)
        /\ Len(Append(s, e)) = Len(s) + 1
        /\ \A i \in 1 .. Len(s) : Append(s, e)[i] = s[i]
        /\ Append(s, e)[Len(s) + 1] = e
        /\ Len(s) \in Nat
        /\ DOMAIN s = 1 .. Len(s)
        /\ DOMAIN Append(s, e) = 1 .. Len(Append(s, e))
    <2>1. Append(s, e) \in Seq(Entry)
      BY <1>3, <1>4, AppendProperties
    <2>2. QED
      BY <1>3, <1>4, <2>1, AppendProperties, LenProperties
  <1>6. Merged(t, whole) = [content EXCEPT ![Target(t)] = Append(s, e)]
    BY DEF Merged
  <1>7. content \in [Message -> Seq(Entry)]
    BY DEF TypeOK
  <1> HIDE DEF s, e
  <1>8. /\ Merged(t, whole) \in [Message -> Seq(Entry)]
        /\ Merged(t, whole)[Target(t)] = Append(s, e)
        /\ \A m \in Message : m # Target(t) => Merged(t, whole)[m] = content[m]
    BY <1>2, <1>5, <1>6, <1>7
  <1>9. QED
    BY <1>5, <1>8 DEF s, e

(* Every entry of the merged contents was there before or is t's own, last *)
(* in its message.                                                         *)
LEMMA MergedEntries ==
    ASSUME NEW t \in Thread, NEW whole \in BOOLEAN,
           TypeOK, Busy(t),
           NEW m \in Message, NEW i \in DOMAIN Merged(t, whole)[m]
    PROVE  \/ i \in DOMAIN content[m] /\ Merged(t, whole)[m][i] = content[m][i]
           \/ /\ m = Target(t)
              /\ Merged(t, whole)[m][i].call = cur[t]
              /\ i \notin DOMAIN content[m]
              /\ \A j \in DOMAIN content[m] : j < i
              /\ \A j \in DOMAIN Merged(t, whole)[m] : j <= i
  <1>1. CASE m # Target(t)
    BY <1>1, MergedContent
  <1>2. CASE m = Target(t)
    <2> DEFINE n == Len(content[Target(t)])
    <2>1. /\ DOMAIN Merged(t, whole)[m] = 1 .. n + 1
          /\ DOMAIN content[m] = 1 .. n
          /\ n \in Nat
          /\ \A j \in 1 .. n : Merged(t, whole)[m][j] = content[m][j]
          /\ Merged(t, whole)[m][n + 1] = [call |-> cur[t], whole |-> whole]
      BY <1>2, MergedContent
    <2> HIDE DEF n
    <2>2. i \in 1 .. n \/ i = n + 1
      BY <2>1
    <2>3. QED
      BY <1>2, <2>1, <2>2
  <1>3. QED
    BY <1>1, <1>2

(* Every variable keeps its type, and a busy thread has a call.            *)
THEOREM TypeCorrect == Spec => []TypeOK
  <1>1. Init => TypeOK
    <2> SUFFICES ASSUME Init PROVE TypeOK
      OBVIOUS
    <2>1. << [call |-> 0, whole |-> TRUE] >> \in Seq(Entry)
      BY ParameterAssumption DEF Entry
    <2>2. << >> \in Seq(Entry)
      OBVIOUS
    <2>3. content \in [Message -> Seq(Entry)] /\ before \in [Call -> Seq(Entry)]
      BY <2>1, <2>2 DEF Init
    <2>4. QED
      BY <2>3, ParameterAssumption DEF Init, TypeOK, Busy, Outcome, Call
  <1>2. TypeOK /\ [Next]_vars => TypeOK'
    <2> SUFFICES ASSUME TypeOK, [Next]_vars PROVE TypeOK'
      OBVIOUS
    <2> USE ParameterAssumption
    <2>1. ASSUME NEW t \in Thread, Begin(t) PROVE TypeOK'
      <3>1. PICK api \in Api, m \in Message :
              \E d \in Input(api), limit \in LimitOf(api) :
                /\ arg' = [arg EXCEPT ![next] =
                              [api |-> api, msg |-> m, doc |-> d, limit |-> limit]]
                /\ before' = [before EXCEPT ![next] = content[m]]
        BY <2>1 DEF Begin
      <3>2. PICK d \in Input(api), limit \in LimitOf(api) :
              /\ arg' = [arg EXCEPT ![next] =
                            [api |-> api, msg |-> m, doc |-> d, limit |-> limit]]
              /\ before' = [before EXCEPT ![next] = content[m]]
        BY <3>1
      <3>3. [api |-> api, msg |-> m, doc |-> d, limit |-> limit] \in Argument
        BY DEF Argument, Input, LimitOf, Doc
      <3>4. next \in Call /\ next' = next + 1 /\ next' \in 1 .. MaxCalls + 1
        BY <2>1 DEF Begin, TypeOK, Call
      <3>5. /\ arg' \in [Call -> Argument \union {<<>>}]
            /\ \A c \in 1 .. next' - 1 : arg'[c] \in Argument
        <4>1. arg'[next] \in Argument
          BY <3>2, <3>3, <3>4 DEF TypeOK
        <4>2. \A c \in 1 .. next - 1 : arg'[c] = arg[c]
          BY <3>2, <3>4 DEF TypeOK, Call
        <4>3. QED
          BY <3>2, <3>3, <3>4, <4>1, <4>2 DEF TypeOK
      <3>6. before' \in [Call -> Seq(Entry)]
        BY <3>2, <3>4 DEF TypeOK
      <3>7. past' \in [Call -> SUBSET (0 .. MaxCalls)]
        <4>1. Ended \in SUBSET (0 .. MaxCalls)
          BY DEF Ended, TypeOK
        <4>2. QED
          BY <2>1, <4>1 DEF Begin, TypeOK
      <3>8. cur' \in [Thread -> 0 .. next' - 1]
        BY <2>1, <3>4 DEF Begin, TypeOK
      <3>9. \A u \in Thread : Busy(u)' => cur'[u] # 0
        BY <2>1, <3>4 DEF Begin, TypeOK, Busy, Call
      <3>10. pc' \in [Thread -> {"idle", "native", "clear", "merge", "wrap"}]
        BY <2>1 DEF Begin, TypeOK
      <3>11. QED
        BY <2>1, <3>4, <3>5, <3>6, <3>7, <3>8, <3>9, <3>10 DEF Begin, TypeOK
    <2>2. ASSUME NEW t \in Thread, Decode(t) PROVE TypeOK'
      BY <2>2 DEF Decode, Finish, TypeOK, Busy, Outcome, Call
    <2>3. ASSUME NEW t \in Thread, Clear(t) PROVE TypeOK'
      <3>1. content' \in [Message -> Seq(Entry)]
        <4>1. << >> \in Seq(Entry)
          OBVIOUS
        <4>2. QED
          BY <2>3, <4>1 DEF Clear, TypeOK
      <3>2. QED
        BY <2>3, <3>1 DEF Clear, TypeOK, Busy
    <2>4. ASSUME NEW t \in Thread, Merge(t) PROVE TypeOK'
      <3>1. content' \in [Message -> Seq(Entry)]
        BY <2>4, MergedContent DEF Merge, Busy
      <3>2. QED
        BY <2>4, <3>1 DEF Merge, Finish, TypeOK, Busy, Outcome, Call
    <2>5. ASSUME NEW t \in Thread, MergeFails(t) PROVE TypeOK'
      <3>1. content' \in [Message -> Seq(Entry)]
        <4>1. content \in [Message -> Seq(Entry)]
          BY DEF TypeOK
        <4>2. QED
          BY <2>5, <4>1, MergedContent DEF MergeFails, Busy
      <3>2. QED
        BY <2>5, <3>1 DEF MergeFails, Finish, TypeOK, Busy, Outcome, Call
    <2>6. ASSUME NEW t \in Thread, Wrap(t) PROVE TypeOK'
      BY <2>6 DEF Wrap, Finish, TypeOK, Busy, Outcome, Call
    <2>7. ASSUME NEW t \in Thread, Interrupt(t) PROVE TypeOK'
      BY <2>7 DEF Interrupt, Finish, TypeOK, Busy, Outcome, Call
    <2>8. CASE UNCHANGED vars
      BY <2>8 DEF vars, TypeOK, Busy
    <2>9. QED
      BY <2>1, <2>2, <2>3, <2>4, <2>5, <2>6, <2>7, <2>8 DEF Next, Step
  <1>3. QED
    BY <1>1, <1>2, PTL DEF Spec
-------------------------------------------------------------------------------
(* Who is running: a running call is being made by exactly one thread and  *)
(* has not ended; what ended before a call began has ended; messages hold  *)
(* only calls that began, and none that is still before its Merge.         *)
Bookkeeping ==
    /\ \A t, u \in Thread : Busy(t) /\ Busy(u) /\ cur[t] = cur[u] => t = u
    /\ \A t \in Thread : Busy(t) => outcome[cur[t]] = "none"
    /\ \A c \in Call : c >= next => outcome[c] = "none"
    /\ \A c \in 1 .. next - 1 : past[c] \subseteq Ended
    /\ \A m \in Message : \A i \in DOMAIN content[m] : content[m][i].call < next

(* Between its Clear and its Merge a call's message holds nothing that was *)
(* there when the call began.                                              *)
Emptied ==
    \A t \in Thread : pc[t] = "merge" =>
        \A i \in DOMAIN content[Target(t)] :
            content[Target(t)][i].call \notin past[cur[t]]

(* A call past its native decode was accepted there, and calls pass inputs *)
(* of their own format.                                                    *)
AcceptedInv ==
    /\ \A c \in 1 .. next - 1 : arg[c].doc \in Input(arg[c].api)
    /\ \A t \in Thread : pc[t] \in {"clear", "merge", "wrap"} => Accepts(arg[cur[t]])
    /\ LowLimitNeverFails

(* A call ends once: its past is a set of calls that stay ended.           *)
LEMMA EndedGrows ==
    ASSUME TypeOK, Bookkeeping, NEW t \in Thread, NEW how, how # "none",
           Busy(t), Finish(t, how), UNCHANGED next
    PROVE  /\ Ended \subseteq Ended'
           /\ \A c \in Call : c # cur[t] => outcome'[c] = outcome[c]
           /\ outcome'[cur[t]] = how
           /\ cur[t] \in Call /\ cur[t] < next
  <1>1. cur[t] \in 1 .. next - 1 /\ next \in 1 .. MaxCalls + 1
    BY DEF TypeOK
  <1>2. cur[t] \in Call /\ cur[t] < next
    BY <1>1, ParameterAssumption DEF Call
  <1>3. /\ outcome'[cur[t]] = how
        /\ \A c \in Call : c # cur[t] => outcome'[c] = outcome[c]
    BY <1>2 DEF Finish, TypeOK
  <1>4. Ended \subseteq Ended'
    <2>1. \A c \in 1 .. next - 1 : c \in Call
      BY <1>1, ParameterAssumption DEF Call
    <2>2. QED
      BY <1>3, <2>1 DEF Ended
  <1>5. QED
    BY <1>2, <1>3, <1>4

(* Bookkeeping is kept by a step that ends t's call and changes no content *)
(* but, perhaps, its own message by an entry of that call.                 *)
LEMMA FinishKeepsBookkeeping ==
    ASSUME TypeOK, TypeOK', Bookkeeping, NEW t \in Thread, NEW how, how # "none",
           Busy(t), Finish(t, how), UNCHANGED <<cur, arg, past, next>>,
           \/ content' = content
           \/ \E whole \in BOOLEAN : content' = Merged(t, whole)
    PROVE  Bookkeeping'
  <1>1. /\ Ended \subseteq Ended'
        /\ \A c \in Call : c # cur[t] => outcome'[c] = outcome[c]
        /\ cur[t] \in Call /\ cur[t] < next
    BY EndedGrows
  <1>2. \A u \in Thread : Busy(u)' => Busy(u) /\ u # t /\ cur'[u] = cur[u]
    BY DEF Finish, TypeOK, Busy
  <1>3. \A u \in Thread : Busy(u) => cur[u] \in Call
    BY ParameterAssumption DEF TypeOK, Call
  <1>4. \A m \in Message : \A i \in DOMAIN content'[m] : content'[m][i].call < next
    <2>1. CASE content' = content
      BY <2>1 DEF Bookkeeping
    <2>2. ASSUME NEW whole \in BOOLEAN, content' = Merged(t, whole)
          PROVE  \A m \in Message : \A i \in DOMAIN content'[m] : content'[m][i].call < next
      BY <1>1, <2>2, MergedEntries DEF Bookkeeping
    <2>3. QED
      BY <2>1, <2>2
  <1>5. \A u, v \in Thread : Busy(u)' /\ Busy(v)' /\ cur'[u] = cur'[v] => u = v
    BY <1>2 DEF Bookkeeping
  <1>6. \A u \in Thread : Busy(u)' => outcome'[cur'[u]] = "none"
    BY <1>1, <1>2, <1>3 DEF Bookkeeping
  <1>7. \A c \in Call : c >= next' => outcome'[c] = "none"
    <2>1. cur[t] < next /\ next \in Int /\ cur[t] \in Int
      BY <1>1 DEF TypeOK, Call
    <2>2. QED
      BY <1>1, <2>1 DEF Bookkeeping, Call
  <1>8. \A c \in 1 .. next' - 1 : past'[c] \subseteq Ended'
    BY <1>1 DEF Bookkeeping
  <1>9. QED
    BY <1>4, <1>5, <1>6, <1>7, <1>8 DEF Bookkeeping

THEOREM BookkeepingCorrect == Spec => []Bookkeeping
  <1>1. Init => Bookkeeping
    BY DEF Init, Bookkeeping, Busy, Call
  <1>2. TypeOK /\ TypeOK' /\ Bookkeeping /\ [Next]_vars => Bookkeeping'
    <2> SUFFICES ASSUME TypeOK, TypeOK', Bookkeeping, [Next]_vars PROVE Bookkeeping'
      OBVIOUS
    <2> USE ParameterAssumption
    <2>1. ASSUME NEW t \in Thread, Begin(t) PROVE Bookkeeping'
      <3>1. next \in Call /\ next' = next + 1 /\ next \in Nat
        BY <2>1 DEF Begin, TypeOK, Call
      <3>2. \A u \in Thread : cur[u] # next
        BY DEF TypeOK
      <3>3. UNCHANGED <<content, outcome>>
        BY <2>1 DEF Begin
      <3>4. \A u \in Thread : u # t => (Busy(u)' <=> Busy(u)) /\ cur'[u] = cur[u]
        BY <2>1 DEF Begin, TypeOK, Busy
      <3>5. cur'[t] = next /\ ~Busy(t)
        BY <2>1 DEF Begin, TypeOK, Busy
      <3>6. /\ Ended \subseteq Ended'
            /\ past'[next] = Ended
            /\ \A c \in 1 .. next - 1 : past'[c] = past[c]
        <4>1. Ended \subseteq Ended'
          BY <3>1, <3>3 DEF Ended
        <4>2. \A c \in 1 .. next - 1 : c \in Call /\ c # next
          BY <3>1 DEF Call
        <4>3. past' = [past EXCEPT ![next] = Ended]
          BY <2>1 DEF Begin
        <4>4. QED
          BY <3>1, <4>1, <4>2, <4>3 DEF TypeOK
      <3>7. \A u, v \in Thread : Busy(u)' /\ Busy(v)' /\ cur'[u] = cur'[v] => u = v
        <4> SUFFICES ASSUME NEW u \in Thread, NEW v \in Thread,
                            Busy(u)', Busy(v)', cur'[u] = cur'[v]
                     PROVE  u = v
          OBVIOUS
        <4>1. CASE u # t /\ v # t
          BY <3>4, <4>1 DEF Bookkeeping
        <4>2. CASE u = t \/ v = t
          BY <3>2, <3>4, <3>5, <4>2
        <4>3. QED
          BY <4>1, <4>2
      <3>8. \A u \in Thread : Busy(u)' => outcome'[cur'[u]] = "none"
        BY <3>1, <3>3, <3>4, <3>5 DEF Bookkeeping
      <3>9. \A c \in Call : c >= next' => outcome'[c] = "none"
        BY <3>1, <3>3 DEF Bookkeeping, Call
      <3>10. \A c \in 1 .. next' - 1 : past'[c] \subseteq Ended'
        <4>1. \A c \in 1 .. next' - 1 : c = next \/ c \in 1 .. next - 1
          BY <3>1
        <4>2. QED
          BY <3>6, <4>1 DEF Bookkeeping
      <3>11. \A m \in Message : \A i \in DOMAIN content'[m] : content'[m][i].call < next'
        <4> SUFFICES ASSUME NEW m \in Message, NEW i \in DOMAIN content[m]
                     PROVE  content[m][i].call < next + 1
          BY <3>1, <3>3
        <4>1. content[m] \in Seq(Entry)
          BY DEF TypeOK
        <4>2. content[m][i] \in Entry
          BY <4>1
        <4>3. content[m][i].call \in Int /\ content[m][i].call < next
          BY <4>2 DEF Entry, Bookkeeping
        <4>4. QED
          BY <3>1, <4>3
      <3>12. QED
        BY <3>7, <3>8, <3>9, <3>10, <3>11 DEF Bookkeeping
    <2>2. ASSUME NEW t \in Thread, Decode(t) PROVE Bookkeeping'
      <3>1. CASE Finish(t, "refused")
        BY <2>2, <3>1, FinishKeepsBookkeeping DEF Decode, Busy
      <3>2. CASE UNCHANGED outcome /\ pc' = [pc EXCEPT ![t] = "clear"]
        <4>1. \A u \in Thread : Busy(u)' <=> Busy(u)
          BY <2>2, <3>2 DEF Decode, TypeOK, Busy
        <4>2. Ended' = Ended
          BY <2>2, <3>2 DEF Decode, Ended
        <4>3. QED
          BY <2>2, <3>2, <4>1, <4>2 DEF Decode, Bookkeeping
      <3>3. QED
        BY <2>2, <3>1, <3>2 DEF Decode
    <2>3. ASSUME NEW t \in Thread, Clear(t) PROVE Bookkeeping'
      <3>1. \A u \in Thread : Busy(u)' <=> Busy(u)
        BY <2>3 DEF Clear, TypeOK, Busy
      <3>2. Ended' = Ended
        BY <2>3 DEF Clear, Ended
      <3>3. \A m \in Message : content'[m] = content[m] \/ content'[m] = << >>
        BY <2>3 DEF Clear, TypeOK
      <3>4. QED
        BY <2>3, <3>1, <3>2, <3>3 DEF Clear, Bookkeeping
    <2>4. ASSUME NEW t \in Thread, Merge(t) PROVE Bookkeeping'
      <3>1. CASE Finish(t, "ok")
        BY <2>4, <3>1, FinishKeepsBookkeeping DEF Merge, Busy
      <3>2. CASE UNCHANGED outcome /\ pc' = [pc EXCEPT ![t] = "wrap"]
        <4>1. \A u \in Thread : Busy(u)' <=> Busy(u)
          BY <2>4, <3>2 DEF Merge, TypeOK, Busy
        <4>2. Ended' = Ended
          BY <2>4, <3>2 DEF Merge, Ended
        <4>3. cur[t] < next /\ Busy(t)
          BY <2>4 DEF Merge, TypeOK, Busy
        <4>4. \A m \in Message : \A i \in DOMAIN content'[m] : content'[m][i].call < next
          <5>1. content' = Merged(t, TRUE)
            BY <2>4 DEF Merge
          <5>2. QED
            BY <4>3, <5>1, MergedEntries DEF Bookkeeping
        <4>5. QED
          BY <2>4, <3>2, <4>1, <4>2, <4>4 DEF Merge, Bookkeeping
      <3>3. QED
        BY <2>4, <3>1, <3>2 DEF Merge
    <2>5. ASSUME NEW t \in Thread, MergeFails(t) PROVE Bookkeeping'
      BY <2>5, FinishKeepsBookkeeping DEF MergeFails, Busy
    <2>6. ASSUME NEW t \in Thread, Wrap(t) PROVE Bookkeeping'
      BY <2>6, FinishKeepsBookkeeping DEF Wrap, Busy
    <2>7. ASSUME NEW t \in Thread, Interrupt(t) PROVE Bookkeeping'
      BY <2>7, FinishKeepsBookkeeping DEF Interrupt
    <2>8. CASE UNCHANGED vars
      BY <2>8 DEF vars, Bookkeeping, Busy, Ended
    <2>9. QED
      BY <2>1, <2>2, <2>3, <2>4, <2>5, <2>6, <2>7, <2>8 DEF Next, Step
  <1>3. QED
    BY <1>1, <1>2, TypeCorrect, PTL DEF Spec
-------------------------------------------------------------------------------
(* A merge by t, into a message emptied of t's past, mixes nothing and     *)
(* keeps every other message, and every other call's emptied one, clean.   *)
LEMMA MergeKeepsClean ==
    ASSUME TypeOK, Bookkeeping, NoMixing, Emptied,
           NEW t \in Thread, NEW whole \in BOOLEAN, pc[t] = "merge",
           content' = Merged(t, whole), UNCHANGED <<cur, arg, past>>,
           \A u \in Thread : pc'[u] = "merge" => pc[u] = "merge"
    PROVE  NoMixing' /\ Emptied'
  <1>1. Busy(t) /\ cur[t] \in 1 .. next - 1
    BY DEF TypeOK, Busy
  <1>2. NoMixing'
    <2> SUFFICES ASSUME NEW m \in Message,
                        NEW i \in DOMAIN content'[m], NEW j \in DOMAIN content'[m],
                        i < j
                 PROVE  content'[m][i].call \notin past[content'[m][j].call]
      BY DEF NoMixing
    <2>1. \/ i \in DOMAIN content[m] /\ content'[m][i] = content[m][i]
          \/ \A k \in DOMAIN content'[m] : k <= i
      BY <1>1, MergedEntries
    <2>2. \/ j \in DOMAIN content[m] /\ content'[m][j] = content[m][j]
          \/ m = Target(t) /\ content'[m][j].call = cur[t]
      BY <1>1, MergedEntries
    <2>3. i \in Int /\ j \in Int
      <3>1. content'[m] \in Seq(Entry)
        BY <1>1, MergedContent
      <3>2. QED
        BY <3>1
    <2>4. i \in DOMAIN content[m] /\ content'[m][i] = content[m][i]
      BY <2>1, <2>3
    <2>5. CASE j \in DOMAIN content[m] /\ content'[m][j] = content[m][j]
      BY <2>4, <2>5 DEF NoMixing
    <2>6. CASE m = Target(t) /\ content'[m][j].call = cur[t]
      BY <2>4, <2>6 DEF Emptied
    <2>7. QED
      BY <2>2, <2>5, <2>6
  <1>3. Emptied'
    <2> SUFFICES ASSUME NEW u \in Thread, pc[u] = "merge",
                        NEW i \in DOMAIN content'[Target(u)]
                 PROVE  content'[Target(u)][i].call \notin past[cur[u]]
      BY DEF Emptied, Target
    <2>1. Target(u) \in Message /\ cur[u] \in 1 .. next - 1
      BY DEF TypeOK, Target, Argument, Busy
    <2>2. CASE /\ i \in DOMAIN content[Target(u)]
               /\ content'[Target(u)][i] = content[Target(u)][i]
      BY <2>2 DEF Emptied
    <2>3. CASE content'[Target(u)][i].call = cur[t]
      <3>1. outcome[cur[t]] = "none" /\ cur[t] # 0
        BY <1>1 DEF Bookkeeping, TypeOK
      <3>2. past[cur[u]] \subseteq Ended
        BY <2>1 DEF Bookkeeping
      <3>3. QED
        BY <2>3, <3>1, <3>2 DEF Ended
    <2>4. QED
      BY <1>1, <2>1, <2>2, <2>3, MergedEntries
  <1>4. QED
    BY <1>2, <1>3

(* No message ever mixes the inputs of two calls that did not overlap.     *)
THEOREM NeverMixes == Spec => []NoMixing
  <1> DEFINE Clean == NoMixing /\ Emptied
  <1>1. Init => Clean
    BY DEF Init, NoMixing, Emptied
  <1>2. TypeOK /\ Bookkeeping /\ Clean /\ [Next]_vars => Clean'
    <2> SUFFICES ASSUME TypeOK, Bookkeeping, NoMixing, Emptied, [Next]_vars
                 PROVE  NoMixing' /\ Emptied'
      OBVIOUS
    <2>1. ASSUME NEW t \in Thread, Begin(t) PROVE NoMixing' /\ Emptied'
      <3>1. next \in 1 .. MaxCalls /\ content' = content
        BY <2>1, ParameterAssumption DEF Begin, TypeOK
      <3>2. \A c \in 1 .. next - 1 : past'[c] = past[c] /\ arg'[c] = arg[c]
        BY <2>1, <3>1, ParameterAssumption DEF Begin, TypeOK, Call
      <3>3. \A m \in Message : \A i \in DOMAIN content[m] :
              content[m][i].call = 0 \/ content[m][i].call \in 1 .. next - 1
        <4> SUFFICES ASSUME NEW m \in Message, NEW i \in DOMAIN content[m]
                     PROVE  content[m][i].call = 0 \/ content[m][i].call \in 1 .. next - 1
          OBVIOUS
        <4>1. content[m] \in Seq(Entry)
          BY DEF TypeOK
        <4>2. content[m][i] \in Entry
          BY <4>1
        <4>3. content[m][i].call \in 0 .. MaxCalls /\ content[m][i].call < next
          BY <4>2 DEF Entry, Bookkeeping
        <4>4. QED
          BY <3>1, <4>3, ParameterAssumption
      <3>4. past'[0] = past[0]
        BY <2>1, <3>1 DEF Begin, TypeOK
      <3>5. NoMixing'
        BY <3>1, <3>2, <3>3, <3>4 DEF NoMixing
      <3>6. \A u \in Thread : pc'[u] = "merge" =>
              pc[u] = "merge" /\ cur'[u] = cur[u] /\ cur[u] \in 1 .. next - 1
        BY <2>1 DEF Begin, TypeOK, Busy
      <3>7. Emptied'
        BY <3>1, <3>2, <3>6 DEF Emptied, Target
      <3>8. QED
        BY <3>5, <3>7
    <2>2. ASSUME NEW t \in Thread, Decode(t) PROVE NoMixing' /\ Emptied'
      BY <2>2 DEF Decode, Finish, TypeOK, NoMixing, Emptied, Target
    <2>3. ASSUME NEW t \in Thread, Clear(t) PROVE NoMixing' /\ Emptied'
      <3>1. \A m \in Message : content'[m] = content[m] \/ content'[m] = << >>
        BY <2>3 DEF Clear, TypeOK
      <3>2. NoMixing'
        BY <2>3, <3>1 DEF Clear, NoMixing
      <3>3. content'[Target(t)] = << >>
        <4>1. Target(t) \in Message
          BY <2>3 DEF Clear, TypeOK, Target, Argument, Busy
        <4>2. QED
          BY <2>3, <4>1 DEF Clear, TypeOK
      <3>4. Emptied'
        <4> SUFFICES ASSUME NEW u \in Thread, pc'[u] = "merge",
                            NEW i \in DOMAIN content'[Target(u)]
                     PROVE  content'[Target(u)][i].call \notin past[cur[u]]
          BY <2>3 DEF Emptied, Clear, Target
        <4>1. u # t
          BY <3>3
        <4>2. pc[u] = "merge"
          BY <2>3, <4>1 DEF Clear, TypeOK
        <4>3. Target(u) \in Message
          BY <4>2 DEF TypeOK, Target, Argument, Busy
        <4>4. content'[Target(u)] = content[Target(u)]
          BY <3>1, <4>3
        <4>5. QED
          BY <4>2, <4>4 DEF Emptied
      <3>5. QED
        BY <3>2, <3>4
    <2>4. ASSUME NEW t \in Thread, Merge(t) PROVE NoMixing' /\ Emptied'
      <3>1. \A u \in Thread : pc'[u] = "merge" => pc[u] = "merge"
        BY <2>4 DEF Merge, Finish, TypeOK
      <3>2. QED
        BY <2>4, <3>1, MergeKeepsClean DEF Merge
    <2>5. ASSUME NEW t \in Thread, MergeFails(t) PROVE NoMixing' /\ Emptied'
      <3>1. \A u \in Thread : pc'[u] = "merge" => pc[u] = "merge"
        BY <2>5 DEF MergeFails, Finish, TypeOK
      <3>2. CASE content' = Merged(t, FALSE)
        BY <2>5, <3>1, <3>2, MergeKeepsClean DEF MergeFails
      <3>3. CASE content' = content
        BY <2>5, <3>1, <3>3 DEF MergeFails, NoMixing, Emptied, Target
      <3>4. QED
        BY <2>5, <3>2, <3>3 DEF MergeFails
    <2>6. ASSUME NEW t \in Thread, Wrap(t) PROVE NoMixing' /\ Emptied'
      BY <2>6 DEF Wrap, Finish, TypeOK, NoMixing, Emptied, Target
    <2>7. ASSUME NEW t \in Thread, Interrupt(t) PROVE NoMixing' /\ Emptied'
      BY <2>7 DEF Interrupt, Finish, TypeOK, NoMixing, Emptied, Target
    <2>8. CASE UNCHANGED vars
      BY <2>8 DEF vars, NoMixing, Emptied, Target
    <2>9. QED
      BY <2>1, <2>2, <2>3, <2>4, <2>5, <2>6, <2>7, <2>8 DEF Next, Step
  <1>3. QED
    BY <1>1, <1>2, TypeCorrect, BookkeepingCorrect, PTL DEF Spec
-------------------------------------------------------------------------------
(* AcceptedInv is kept by a step of t that begins no call and fails none.  *)
LEMMA StepKeepsAccepted ==
    ASSUME TypeOK, AcceptedInv, NEW t \in Thread, Busy(t),
           UNCHANGED <<cur, arg, next>>,
           \/ UNCHANGED outcome
           \/ \E how \in Outcome \ {"failed"} :
                outcome' = [outcome EXCEPT ![cur[t]] = how],
           \A u \in Thread : pc'[u] \in {"clear", "merge", "wrap"} =>
                \/ pc[u] \in {"clear", "merge", "wrap"}
                \/ Accepts(arg[cur[u]])
    PROVE  AcceptedInv'
  <1>1. \A c \in Call : outcome'[c] = "failed" => outcome[c] = "failed"
    BY DEF TypeOK
  <1>2. LowLimitNeverFails'
    BY <1>1 DEF AcceptedInv, LowLimitNeverFails
  <1>3. QED
    BY <1>2 DEF AcceptedInv

LEMMA AcceptedCorrect == Spec => []AcceptedInv
  <1>1. Init => AcceptedInv
    BY DEF Init, AcceptedInv, LowLimitNeverFails
  <1>2. TypeOK /\ Bookkeeping /\ AcceptedInv /\ [Next]_vars => AcceptedInv'
    <2> SUFFICES ASSUME TypeOK, Bookkeeping, AcceptedInv, [Next]_vars
                 PROVE  AcceptedInv'
      OBVIOUS
    <2>1. ASSUME NEW t \in Thread, Begin(t) PROVE AcceptedInv'
      <3>1. next \in Call /\ next' = next + 1 /\ outcome' = outcome
        BY <2>1, ParameterAssumption DEF Begin, TypeOK, Call
      <3>2. \A c \in Call : c # next => arg'[c] = arg[c]
        BY <2>1 DEF Begin, TypeOK
      <3>3. outcome[next] = "none"
        BY <3>1 DEF Bookkeeping, Call
      <3>4. arg'[next].doc \in Input(arg'[next].api)
        BY <2>1, <3>1 DEF Begin, TypeOK
      <3>5. \A c \in 1 .. next' - 1 : c = next \/ (c \in 1 .. next - 1 /\ c \in Call)
        BY <3>1, ParameterAssumption DEF Call
      <3>6. \A u \in Thread : pc'[u] \in {"clear", "merge", "wrap"} =>
              /\ pc[u] \in {"clear", "merge", "wrap"} /\ cur'[u] = cur[u]
              /\ cur[u] \in Call /\ cur[u] # next
        <4> SUFFICES ASSUME NEW u \in Thread, pc'[u] \in {"clear", "merge", "wrap"}
                     PROVE  /\ pc[u] \in {"clear", "merge", "wrap"} /\ cur'[u] = cur[u]
                            /\ cur[u] \in Call /\ cur[u] # next
          OBVIOUS
        <4>1. u # t /\ pc[u] \in {"clear", "merge", "wrap"} /\ cur'[u] = cur[u]
          BY <2>1 DEF Begin, TypeOK
        <4>2. cur[u] \in 0 .. next - 1 /\ cur[u] # 0 /\ next \in 1 .. MaxCalls + 1
          BY <4>1 DEF TypeOK, Busy
        <4>3. QED
          BY <4>1, <4>2, ParameterAssumption DEF Call
      <3>7. LowLimitNeverFails'
        BY <3>1, <3>2, <3>3 DEF AcceptedInv, LowLimitNeverFails
      <3>8. \A c \in 1 .. next' - 1 : arg'[c].doc \in Input(arg'[c].api)
        BY <3>2, <3>4, <3>5 DEF AcceptedInv
      <3>9. QED
        BY <3>2, <3>6, <3>7, <3>8 DEF AcceptedInv
    <2>2. ASSUME NEW t \in Thread, Decode(t) PROVE AcceptedInv'
      BY <2>2, StepKeepsAccepted DEF Decode, Finish, TypeOK, Busy, Outcome
    <2>3. ASSUME NEW t \in Thread, Clear(t) PROVE AcceptedInv'
      BY <2>3, StepKeepsAccepted DEF Clear, TypeOK, Busy
    <2>4. ASSUME NEW t \in Thread, Merge(t) PROVE AcceptedInv'
      BY <2>4, StepKeepsAccepted DEF Merge, Finish, TypeOK, Busy, Outcome
    <2>5. ASSUME NEW t \in Thread, MergeFails(t) PROVE AcceptedInv'
      <3>1. /\ pc[t] = "merge"
            /\ UNCHANGED <<cur, arg, next>>
            /\ outcome' = [outcome EXCEPT ![cur[t]] = "failed"]
            /\ pc' = [pc EXCEPT ![t] = "idle"]
        BY <2>5 DEF MergeFails, Finish
      <3>2. cur[t] \in 1 .. next - 1 /\ arg[cur[t]] \in Argument
        BY <3>1 DEF TypeOK, Busy
      <3>3. arg[cur[t]].api # "sbe" => Effective(arg[cur[t]].limit) >= RuntimeDepth
        <4> DEFINE a == arg[cur[t]]
        <4> SUFFICES ASSUME a.api # "sbe" PROVE Effective(a.limit) >= RuntimeDepth
          OBVIOUS
        <4>1. a.doc \in PxfDoc /\ a.limit \in Int
          BY <3>2, ParameterAssumption DEF AcceptedInv, Input, Argument
        <4>2. PxfDepth[a.doc] <= Effective(a.limit)
          BY <3>1 DEF AcceptedInv, Accepts
        <4>3. ~(PbDepth[a.doc] <= RuntimeDepth)
          BY <2>5 DEF MergeFails, Loads
        <4>4. /\ PbDepth[a.doc] \in Nat /\ PxfDepth[a.doc] \in Nat
              /\ PbDepth[a.doc] <= PxfDepth[a.doc] + 1
          BY <4>1, DepthAssumption DEF Doc
        <4>5. Effective(a.limit) \in Int
          BY <4>1, ParameterAssumption DEF Effective
        <4> HIDE DEF a
        <4>6. QED
          BY <4>2, <4>3, <4>4, <4>5, ParameterAssumption
      <3>4. LowLimitNeverFails'
        BY <3>1, <3>3 DEF AcceptedInv, LowLimitNeverFails, TypeOK
      <3>5. QED
        BY <3>1, <3>4 DEF AcceptedInv, TypeOK
    <2>6. ASSUME NEW t \in Thread, Wrap(t) PROVE AcceptedInv'
      BY <2>6, StepKeepsAccepted DEF Wrap, Finish, TypeOK, Busy, Outcome
    <2>7. ASSUME NEW t \in Thread, Interrupt(t) PROVE AcceptedInv'
      BY <2>7, StepKeepsAccepted DEF Interrupt, Finish, TypeOK, Busy, Outcome
    <2>8. CASE UNCHANGED vars
      BY <2>8 DEF vars, AcceptedInv, LowLimitNeverFails
    <2>9. QED
      BY <2>1, <2>2, <2>3, <2>4, <2>5, <2>6, <2>7, <2>8 DEF Next, Step
  <1>3. QED
    BY <1>1, <1>2, TypeCorrect, BookkeepingCorrect, PTL DEF Spec

(* A decode the native side accepted fails to load only at a limit that    *)
(* reaches the runtime's depth.                                            *)
THEOREM LowLimitsLoad == Spec => []LowLimitNeverFails
  <1>1. AcceptedInv => LowLimitNeverFails
    BY DEF AcceptedInv
  <1>2. QED
    BY <1>1, AcceptedCorrect, PTL
-------------------------------------------------------------------------------
(* What became of the bytes that call c merged: they are in its message,   *)
(* or another call was accepted that may clear it.                         *)
Replaced(c) ==
    \E d \in 1 .. next - 1 :
        /\ d # c /\ d \notin past[c]
        /\ arg[d].msg = arg[c].msg
        /\ Accepts(arg[d])

Accounted(c) == Holds(arg[c].msg, c) \/ Replaced(c)

(* unmarshal_full has merged before it returns.                            *)
LoadedInv ==
    /\ \A c \in 1 .. next - 1 : outcome[c] = "ok" => Accounted(c)
    /\ \A t \in Thread : pc[t] = "wrap" => Accounted(cur[t])

(* A merge leaves its bytes, and what the message held before.             *)
LEMMA MergedHolds ==
    ASSUME TypeOK, NEW t \in Thread, NEW whole \in BOOLEAN, Busy(t),
           content' = Merged(t, whole), NEW m \in Message
    PROVE  /\ \A c : Holds(m, c) => Holds(m, c)'
           /\ \A c : m = Target(t) /\ c = cur[t] => Holds(m, c)'
  <1>1. CASE m # Target(t)
    <2>1. content'[m] = content[m]
      BY <1>1, MergedContent
    <2>2. QED
      BY <1>1, <2>1 DEF Holds
  <1>2. CASE m = Target(t)
    <2>1. PICK n \in Nat : n = Len(content[Target(t)])
      BY MergedContent
    <2>2. PICK own : own = cur[t]
      OBVIOUS
    <2>3. /\ DOMAIN content'[m] = 1 .. n + 1
          /\ DOMAIN content[m] = 1 .. n
          /\ \A j \in 1 .. n : content'[m][j] = content[m][j]
          /\ content'[m][n + 1] = [call |-> own, whole |-> whole]
      BY <1>2, <2>1, <2>2, MergedContent
    <2>4. n + 1 \in 1 .. n + 1 /\ \A j \in 1 .. n : j \in 1 .. n + 1
      BY <2>1
    <2>5. ASSUME NEW c, Holds(m, c)
          PROVE  Holds(m, c)'
      <3>1. PICK i \in 1 .. n : content[m][i].call = c
        BY <2>3, <2>5 DEF Holds
      <3>2. i \in DOMAIN content'[m] /\ content'[m][i].call = c
        BY <2>3, <2>4, <3>1
      <3>3. QED
        BY <3>2 DEF Holds
    <2>6. Holds(m, own)'
      <3>1. n + 1 \in DOMAIN content'[m] /\ content'[m][n + 1].call = own
        BY <2>3, <2>4
      <3>2. QED
        BY <3>1 DEF Holds
    <2>7. QED
      BY <2>2, <2>5, <2>6
  <1>3. QED
    BY <1>1, <1>2

(* Calls that have begun keep their arguments and their past.              *)
LEMMA BegunStays ==
    ASSUME TypeOK, [Next]_vars
    PROVE  /\ next' \in {next, next + 1} /\ next' \in Nat /\ next' <= MaxCalls + 1
           /\ \A c \in 1 .. next - 1 :
                c \in 1 .. next' - 1 /\ arg'[c] = arg[c] /\ past'[c] = past[c]
  <1> USE ParameterAssumption
  <1>1. ASSUME NEW t \in Thread, Begin(t)
        PROVE  /\ next' = next + 1 /\ next <= MaxCalls
               /\ \A c \in 1 .. next - 1 :
                    c \in 1 .. next' - 1 /\ arg'[c] = arg[c] /\ past'[c] = past[c]
    BY <1>1 DEF Begin, TypeOK, Call
  <1>2. ASSUME NEW t \in Thread, Step(t) \/ Interrupt(t)
        PROVE  UNCHANGED <<arg, past, next>>
    BY <1>2 DEF Step, Decode, Clear, Merge, MergeFails, Wrap, Interrupt
  <1>3. next \in Nat /\ next <= MaxCalls + 1
    BY DEF TypeOK
  <1>4. QED
    BY <1>1, <1>2, <1>3 DEF Next, vars

(* Once a call has merged, its bytes are accounted for ever after: the     *)
(* call whose Clear removes them was running, so it is not in their past.  *)
LEMMA AccountedStays ==
    ASSUME TypeOK, Bookkeeping, AcceptedInv, [Next]_vars,
           NEW c \in 1 .. next - 1, Accounted(c),
           \A t \in Thread : Busy(t) /\ cur[t] = c => pc[t] = "wrap"
    PROVE  Accounted(c)'
  <1> DEFINE m == arg[c].msg
  <1>1. m \in Message /\ arg'[c].msg = m
    BY BegunStays DEF TypeOK, Argument
  <1>2. Replaced(c) => Replaced(c)'
    BY BegunStays DEF Replaced, Accepts
  <1>3. SUFFICES ASSUME Holds(m, c) PROVE Accounted(c)'
    BY <1>2 DEF Accounted
  <1>4. ASSUME UNCHANGED content PROVE Accounted(c)'
    BY <1>1, <1>3, <1>4 DEF Accounted, Holds
  <1>5. ASSUME NEW t \in Thread, NEW whole \in BOOLEAN, Busy(t), content' = Merged(t, whole)
        PROVE  Accounted(c)'
    BY <1>1, <1>3, <1>5, MergedHolds DEF Accounted
  <1>6. ASSUME NEW t \in Thread, Clear(t) PROVE Accounted(c)'
    <2>1. CASE Target(t) # m
      BY <1>1, <1>3, <1>6, <2>1 DEF Clear, TypeOK, Accounted, Holds
    <2>2. CASE Target(t) = m
      <3> DEFINE d == cur[t]
      <3>1. pc[t] = "clear" /\ Busy(t)
        BY <1>6 DEF Clear, Busy
      <3>2. d \in 1 .. next - 1 /\ d # 0 /\ d # c
        BY <3>1 DEF TypeOK
      <3>3. d \notin past[c]
        BY <3>1, <3>2 DEF Bookkeeping, Ended
      <3>4. arg[d].msg = arg[c].msg /\ Accepts(arg[d])
        BY <2>2, <3>1 DEF Target, AcceptedInv
      <3>5. Replaced(c)
        BY <3>2, <3>3, <3>4 DEF Replaced
      <3>6. QED
        BY <1>2, <3>5 DEF Accounted
    <2>3. QED
      BY <2>1, <2>2
  <1>7. QED
    BY <1>4, <1>5, <1>6
       DEF Next, Step, Begin, Decode, Merge, MergeFails, Wrap, Interrupt, Busy, vars

(* What a call reported as loaded is in its message until another call,    *)
(* one that the native side accepted, clears the message.                  *)
THEOREM StaysLoaded == Spec => []LoadedUntilReplaced
  <1>1. Init => LoadedInv
    BY DEF Init, LoadedInv
  <1>2. TypeOK /\ TypeOK' /\ Bookkeeping /\ AcceptedInv /\ LoadedInv /\ [Next]_vars
            => LoadedInv'
    <2> SUFFICES ASSUME TypeOK, TypeOK', Bookkeeping, AcceptedInv, LoadedInv, [Next]_vars
                 PROVE  LoadedInv'
      OBVIOUS
    <2>1. ASSUME NEW c \in 1 .. next - 1, outcome[c] = "ok" PROVE Accounted(c)'
      BY <2>1, AccountedStays DEF LoadedInv, Bookkeeping
    <2>2. ASSUME NEW t \in Thread, pc[t] = "wrap", NEW c \in 1 .. next - 1, c = cur[t]
          PROVE  Accounted(c)'
      <3>1. Busy(t)
        BY <2>2 DEF Busy
      <3>2. \A u \in Thread : Busy(u) /\ cur[u] = c => pc[u] = "wrap"
        BY <2>2, <3>1 DEF Bookkeeping
      <3>3. QED
        BY <2>2, <3>2, AccountedStays DEF LoadedInv
    <2>3. ASSUME NEW t \in Thread, Merge(t), NEW c \in 1 .. next - 1, c = cur[t]
          PROVE  Accounted(c)'
      <3>1. Busy(t) /\ content' = Merged(t, TRUE) /\ arg' = arg
        BY <2>3 DEF Merge, Busy
      <3>2. Target(t) \in Message /\ Target(t) = arg[c].msg
        BY <2>3 DEF TypeOK, Target, Argument
      <3>3. QED
        BY <2>3, <3>1, <3>2, MergedHolds DEF Accounted
    <2>4. ASSUME NEW c \in 1 .. next' - 1, outcome'[c] = "ok"
          PROVE  /\ c \in 1 .. next - 1
                 /\ \/ outcome[c] = "ok"
                    \/ \E t \in Thread : c = cur[t] /\ (Merge(t) \/ pc[t] = "wrap")
      <3>1. next \in Nat
        BY ParameterAssumption DEF TypeOK
      <3>2. c \in Call
        <4>1. next' \in Nat /\ next' <= MaxCalls + 1 /\ MaxCalls \in Nat
          BY BegunStays, ParameterAssumption
        <4>2. PICK n \in Nat : n = next'
          BY <4>1
        <4>3. c \in 1 .. n - 1 /\ n <= MaxCalls + 1
          BY <2>4, <4>1, <4>2
        <4>4. QED
          BY <4>1, <4>3 DEF Call
      <3>3. \/ outcome[c] = "ok"
            \/ \E t \in Thread : c = cur[t] /\ Busy(t) /\ (Merge(t) \/ pc[t] = "wrap")
        BY <2>4, <3>2 DEF Next, Step, Begin, Decode, Clear, Merge, MergeFails, Wrap,
                          Interrupt, Finish, TypeOK, vars, Busy
      <3>4. c < next
        <4>1. CASE outcome[c] = "ok"
          BY <3>1, <3>2, <4>1 DEF Bookkeeping, Call
        <4>2. ASSUME NEW t \in Thread, c = cur[t] PROVE c < next
          BY <3>1, <4>2 DEF TypeOK
        <4>3. QED
          BY <3>3, <4>1, <4>2
      <3>5. QED
        BY <2>4, <3>1, <3>3, <3>4
    <2>5. ASSUME NEW t \in Thread, pc'[t] = "wrap"
          PROVE  /\ cur'[t] = cur[t]
                 /\ cur[t] \in 1 .. next - 1
                 /\ Merge(t) \/ pc[t] = "wrap"
      <3>1. cur'[t] = cur[t] /\ Busy(t) /\ (Merge(t) \/ pc[t] = "wrap")
        BY <2>5 DEF Next, Step, Begin, Decode, Clear, Merge, MergeFails, Wrap,
                    Interrupt, Finish, TypeOK, vars, Busy
      <3>2. QED
        BY <3>1 DEF TypeOK
    <2>6. \A c \in 1 .. next' - 1 : outcome'[c] = "ok" => Accounted(c)'
      BY <2>1, <2>2, <2>3, <2>4
    <2>7. \A t \in Thread : pc'[t] = "wrap" => Accounted(cur[t])'
      BY <2>2, <2>3, <2>5
    <2>8. QED
      BY <2>6, <2>7 DEF LoadedInv
  <1>3. LoadedInv => LoadedUntilReplaced
    BY DEF LoadedInv, LoadedUntilReplaced, Accounted, Replaced
  <1>4. QED
    BY <1>1, <1>2, <1>3, TypeCorrect, BookkeepingCorrect, AcceptedCorrect, PTL DEF Spec
-------------------------------------------------------------------------------
(* Messages that no two calls share: what AtomicDecode sees of a state, and *)
(* what each line of a call finds in such a message.                       *)
value == [m \in Owned |-> Held(m)]
active == [t \in Thread |-> IF Busy(t) /\ OnOwned(cur[t]) THEN cur[t] ELSE 0]
target == [c \in Call |-> IF OnOwned(c) THEN <<arg[c].msg, arg[c].doc>> ELSE <<>>]
ended == [c \in Call |-> IF OnOwned(c) THEN outcome[c] ELSE "none"]

Midway(t) == pc[t] \in {"merge", "wrap"}

(* A line finds in the message what the line before left there.            *)
Found(t) ==
    /\ pc[t] \in {"native", "clear"} => content[Target(t)] = before[cur[t]]
    /\ pc[t] = "merge" => content[Target(t)] = <<>>
    /\ pc[t] = "wrap" => content[Target(t)] = << [call |-> cur[t], whole |-> TRUE] >>

Owner ==
    /\ \A t, u \in Thread :
          Busy(t) /\ Busy(u) /\ Target(t) = Target(u) /\ Target(t) \in Owned => t = u
    /\ \A t \in Thread : Busy(t) /\ Target(t) \in Owned => Found(t)

LEMMA ChooseOnly ==
    ASSUME NEW S, NEW x \in S, \A y \in S : y = x
    PROVE  (CHOOSE y \in S : TRUE) = x
  OBVIOUS

LEMMA BusyCall ==
    ASSUME TypeOK, NEW t \in Thread, Busy(t)
    PROVE  /\ cur[t] \in 1 .. next - 1 /\ cur[t] \in Call /\ cur[t] < next
           /\ Target(t) \in Message /\ arg[cur[t]].doc \in Doc
  <1>1. cur[t] \in 1 .. next - 1
    BY DEF TypeOK
  <1>2. cur[t] \in Call /\ cur[t] < next
    BY <1>1, ParameterAssumption DEF TypeOK, Call
  <1>3. QED
    BY <1>1, <1>2 DEF TypeOK, Target, Argument

(* While its owner is between Clear and the return, a message counts as    *)
(* what it was when the call began; else it is what it holds.              *)
LEMMA HeldMidway ==
    ASSUME Owner, NEW t \in Thread, Midway(t), Target(t) \in Owned
    PROVE  Held(Target(t)) = before[cur[t]]
  <1> DEFINE S == {u \in Thread : pc[u] \in {"merge", "wrap"} /\ Target(u) = Target(t)}
  <1>1. t \in S /\ \A u \in S : u = t
    BY DEF Owner, Midway, Busy
  <1>2. (CHOOSE u \in S : TRUE) = t
    BY <1>1, ChooseOnly
  <1>3. S # {}
    BY <1>1
  <1>4. Held(Target(t)) = IF S = {} THEN content[Target(t)]
                          ELSE before[cur[CHOOSE u \in S : TRUE]]
    BY DEF Held
  <1> HIDE DEF S
  <1>5. QED
    BY <1>2, <1>3, <1>4

LEMMA HeldMidwayNext ==
    ASSUME Owner', NEW t \in Thread, Midway(t)', NEW m, m = Target(t)', m \in Owned
    PROVE  Held(m)' = before'[cur'[t]]
  <1> DEFINE S == {u \in Thread : pc'[u] \in {"merge", "wrap"} /\ arg'[cur'[u]].msg = m}
  <1>1. t \in S /\ \A u \in S : u = t
    BY DEF Owner, Midway, Busy, Target
  <1>2. (CHOOSE u \in S : TRUE) = t
    BY <1>1, ChooseOnly
  <1>3. S # {}
    BY <1>1
  <1>4. Held(m)' = IF S = {} THEN content'[m] ELSE before'[cur'[CHOOSE u \in S : TRUE]]
    BY DEF Held, Target
  <1> HIDE DEF S
  <1>5. QED
    BY <1>2, <1>3, <1>4

LEMMA HeldRunning ==
    ASSUME Owner, NEW t \in Thread, Busy(t), Target(t) \in Owned, TypeOK
    PROVE  Held(Target(t)) = before[cur[t]]
  <1>1. CASE Midway(t)
    BY <1>1, HeldMidway
  <1>2. CASE ~Midway(t)
    <2>1. pc[t] \in {"native", "clear"}
      BY <1>2 DEF TypeOK, Busy, Midway
    <2>2. {u \in Thread : pc[u] \in {"merge", "wrap"} /\ Target(u) = Target(t)} = {}
      BY <2>1 DEF Owner, Busy
    <2>3. QED
      BY <2>1, <2>2 DEF Held, Owner, Found
  <1>3. QED
    BY <1>1, <1>2

(* A step of t leaves the calls of the other threads alone, and changes no *)
(* message but its own.                                                    *)
Keeps(t) ==
    \A u \in Thread : u # t =>
        /\ pc'[u] = pc[u]
        /\ Busy(u) => /\ cur'[u] = cur[u]
                      /\ arg'[cur[u]] = arg[cur[u]]
                      /\ before'[cur[u]] = before[cur[u]]

LEMMA BeginKeeps ==
    ASSUME TypeOK, NEW t \in Thread, Begin(t)
    PROVE  /\ Keeps(t) /\ pc[t] = "idle" /\ pc'[t] = "native"
           /\ content' = content /\ outcome' = outcome
           /\ next \in Call /\ next' = next + 1 /\ cur'[t] = next
           /\ arg'[next].msg \in Message /\ arg'[next].doc \in Doc
           /\ before'[next] = content[arg'[next].msg]
           /\ arg'[next].msg \in Owned => \A u \in Thread : Busy(u) => Target(u) # arg'[next].msg
           /\ \A c \in Call : c # next => arg'[c] = arg[c]
  <1> USE ParameterAssumption
  <1>1. /\ pc[t] = "idle" /\ pc' = [pc EXCEPT ![t] = "native"]
        /\ next \in Call /\ next' = next + 1 /\ cur' = [cur EXCEPT ![t] = next]
        /\ UNCHANGED <<content, outcome>>
    BY DEF Begin, TypeOK, Call
  <1>2. PICK api \in Api, m \in Message :
          \E d \in Input(api), limit \in LimitOf(api) :
            /\ m \in Owned => \A u \in Thread : Busy(u) => Target(u) # m
            /\ arg' = [arg EXCEPT ![next] =
                          [api |-> api, msg |-> m, doc |-> d, limit |-> limit]]
            /\ before' = [before EXCEPT ![next] = content[m]]
    BY DEF Begin
  <1>3. PICK d \in Input(api), limit \in LimitOf(api) :
          /\ m \in Owned => \A u \in Thread : Busy(u) => Target(u) # m
          /\ arg' = [arg EXCEPT ![next] =
                        [api |-> api, msg |-> m, doc |-> d, limit |-> limit]]
          /\ before' = [before EXCEPT ![next] = content[m]]
    BY <1>2
  <1>4. /\ arg'[next].msg = m /\ arg'[next].doc = d /\ before'[next] = content[m]
        /\ \A c \in Call : c # next => arg'[c] = arg[c] /\ before'[c] = before[c]
    BY <1>1, <1>3 DEF TypeOK
  <1>5. d \in Doc
    BY DEF Input, Doc
  <1>6. \A u \in Thread : Busy(u) => cur[u] \in Call /\ cur[u] # next
    BY DEF TypeOK, Call
  <1>7. Keeps(t)
    BY <1>1, <1>4, <1>6 DEF Keeps, TypeOK
  <1>8. QED
    BY <1>1, <1>3, <1>4, <1>5, <1>7 DEF TypeOK

LEMMA StepKeeps ==
    ASSUME TypeOK, NEW t \in Thread, Step(t) \/ Interrupt(t)
    PROVE  /\ Keeps(t) /\ Busy(t) /\ UNCHANGED <<cur, arg, before, next>>
           /\ \A m \in Message : m # Target(t) => content'[m] = content[m]
  <1>1. Busy(t) /\ UNCHANGED <<cur, arg, before, next>>
    BY DEF Step, Decode, Clear, Merge, MergeFails, Wrap, Interrupt, Busy
  <1>2. \A u \in Thread : u # t => pc'[u] = pc[u]
    BY DEF Step, Decode, Clear, Merge, MergeFails, Wrap, Interrupt, Finish, TypeOK
  <1>3. \A m \in Message : m # Target(t) => content'[m] = content[m]
    <2>1. ASSUME NEW whole \in BOOLEAN, content' = Merged(t, whole)
          PROVE  \A m \in Message : m # Target(t) => content'[m] = content[m]
      BY <1>1, <2>1, MergedContent
    <2>2. ASSUME Clear(t)
          PROVE  \A m \in Message : m # Target(t) => content'[m] = content[m]
      BY <2>2 DEF Clear, TypeOK
    <2>3. QED
      BY <2>1, <2>2 DEF Step, Decode, Merge, MergeFails, Wrap, Interrupt
  <1>4. QED
    BY <1>1, <1>2, <1>3 DEF Keeps

(* A message's owner sees no change of it unless t's step is to or from    *)
(* the middle of a call on it, or changes its content.                     *)
LEMMA StillHeld ==
    ASSUME NEW t \in Thread, Keeps(t), NEW m \in Message, content'[m] = content[m],
           ~(Midway(t) /\ Target(t) = m), ~(Midway(t) /\ Target(t) = m)'
    PROVE  Held(m)' = Held(m)
  <1> DEFINE S == {u \in Thread : pc[u] \in {"merge", "wrap"} /\ Target(u) = m}
             T == {u \in Thread : pc'[u] \in {"merge", "wrap"} /\ arg'[cur'[u]].msg = m}
  <1>1. \A u \in Thread : u \in S => u # t /\ Busy(u)
    BY DEF Midway, Busy
  <1>2. \A u \in Thread : u \in T => u # t
    BY DEF Midway, Target
  <1>3. S = T
    BY <1>1, <1>2 DEF Keeps, Target, Busy
  <1>4. Held(m) = IF S = {} THEN content[m] ELSE before[cur[CHOOSE u \in S : TRUE]]
    BY DEF Held
  <1>5. Held(m)' = IF T = {} THEN content'[m] ELSE before'[cur'[CHOOSE u \in T : TRUE]]
    BY DEF Held, Target
  <1>6. \A u \in Thread : u \in S => before'[cur'[u]] = before[cur[u]]
    BY <1>1 DEF Keeps
  <1>7. S \subseteq Thread
    OBVIOUS
  <1> HIDE DEF S, T
  <1>8. CASE S = {}
    BY <1>3, <1>4, <1>5, <1>8
  <1>9. CASE S # {}
    <2> DEFINE x == CHOOSE u \in S : TRUE
    <2>1. x \in S
      BY <1>9
    <2> HIDE DEF x
    <2>2. before'[cur'[x]] = before[cur[x]]
      BY <1>6, <1>7, <2>1
    <2>3. QED
      BY <1>3, <1>4, <1>5, <1>9, <2>2 DEF x
  <1>10. QED
    BY <1>8, <1>9

LEMMA OwnerKept ==
    ASSUME TypeOK, TypeOK', Owner, [Next]_vars
    PROVE  Owner'
  <1>1. ASSUME NEW t \in Thread, Begin(t) PROVE Owner'
    <2>1. /\ Keeps(t) /\ pc'[t] = "native" /\ content' = content /\ cur'[t] = next
          /\ before'[next] = content[arg'[next].msg]
          /\ arg'[next].msg \in Owned => \A u \in Thread : Busy(u) => Target(u) # arg'[next].msg
      BY <1>1, BeginKeeps
    <2>2. \A u \in Thread : u # t /\ Busy(u)' => Busy(u) /\ Target(u)' = Target(u)
      BY <2>1 DEF Keeps, Busy, Target
    <2>3. \A u, v \in Thread :
             Busy(u)' /\ Busy(v)' /\ Target(u)' = Target(v)' /\ Target(u)' \in Owned => u = v
      BY <2>1, <2>2 DEF Owner, Target
    <2>4. ASSUME NEW u \in Thread, Busy(u)', Target(u)' \in Owned PROVE Found(u)'
      <3>1. CASE u = t
        BY <2>1, <3>1 DEF Target, Found
      <3>2. CASE u # t
        <4>1. /\ Busy(u) /\ Target(u)' = Target(u) /\ pc'[u] = pc[u]
              /\ cur'[u] = cur[u] /\ before'[cur[u]] = before[cur[u]]
          BY <2>1, <2>2, <2>4, <3>2 DEF Keeps
        <4>2. Found(u)
          BY <2>4, <4>1 DEF Owner
        <4>3. QED
          BY <2>1, <4>1, <4>2 DEF Found
      <3>3. QED
        BY <3>1, <3>2
    <2>5. QED
      BY <2>3, <2>4 DEF Owner
  <1>2. ASSUME NEW t \in Thread, Step(t) \/ Interrupt(t) PROVE Owner'
    <2>1. /\ Keeps(t) /\ Busy(t) /\ UNCHANGED <<cur, arg, before, next>>
          /\ \A m \in Message : m # Target(t) => content'[m] = content[m]
          /\ Target(t) \in Message
      BY <1>2, StepKeeps, BusyCall
    <2>2. \A u \in Thread : Target(u)' = Target(u) /\ (Busy(u)' => Busy(u))
      BY <2>1 DEF Keeps, Busy, Target
    <2>3. \A u \in Thread : u # t /\ Busy(u) /\ Target(u) \in Owned
                               => content'[Target(u)] = content[Target(u)]
      BY <2>1, BusyCall DEF Owner
    <2>4. ASSUME Target(t) \in Owned
          PROVE  /\ pc'[t] \in {"native", "clear"} => content'[Target(t)] = before[cur[t]]
                 /\ pc'[t] = "merge" => content'[Target(t)] = <<>>
                 /\ pc'[t] = "wrap" =>
                       content'[Target(t)] = << [call |-> cur[t], whole |-> TRUE] >>
      <3>0. Found(t)
        BY <2>1, <2>4 DEF Owner
      <3>1. CASE Decode(t)
        BY <3>0, <3>1 DEF Decode, Finish, TypeOK, Found
      <3>2. CASE Clear(t)
        BY <2>1, <3>2 DEF Clear, TypeOK
      <3>3. CASE Merge(t)
        <4>1. pc'[t] \in {"wrap", "idle"} /\ content[Target(t)] = <<>>
          BY <3>0, <3>3 DEF Merge, Finish, TypeOK, Found
        <4>2. content'[Target(t)] = Append(<<>>, [call |-> cur[t], whole |-> TRUE])
          BY <2>1, <3>3, <4>1 DEF Merge, Merged, TypeOK
        <4>3. QED
          BY <4>1, <4>2
      <3>4. CASE MergeFails(t) \/ Wrap(t) \/ Interrupt(t)
        BY <3>4 DEF MergeFails, Wrap, Interrupt, Finish, TypeOK
      <3>5. QED
        BY <1>2, <3>1, <3>2, <3>3, <3>4 DEF Step
    <2>5. ASSUME NEW u \in Thread, Busy(u)', Target(u)' \in Owned PROVE Found(u)'
      <3>1. CASE u = t
        BY <2>1, <2>2, <2>4, <2>5, <3>1 DEF Found
      <3>2. CASE u # t
        <4>1. Busy(u) /\ pc'[u] = pc[u] /\ content'[Target(u)'] = content[Target(u)]
          BY <2>1, <2>2, <2>3, <2>5, <3>2 DEF Keeps
        <4>2. Found(u)
          BY <2>2, <2>5, <4>1 DEF Owner
        <4>3. QED
          BY <2>1, <2>2, <4>1, <4>2 DEF Found
      <3>3. QED
        BY <3>1, <3>2
    <2>6. \A u, v \in Thread :
             Busy(u)' /\ Busy(v)' /\ Target(u)' = Target(v)' /\ Target(u)' \in Owned => u = v
      BY <2>2 DEF Owner
    <2>7. QED
      BY <2>5, <2>6 DEF Owner
  <1>3. CASE UNCHANGED vars
    BY <1>3 DEF vars, Owner, Found, Busy, Target
  <1>4. QED
    BY <1>1, <1>2, <1>3 DEF Next

(* A call that runs has its message among its arguments.                   *)
LEMMA RunningOnOwned ==
    ASSUME TypeOK, NEW t \in Thread, Busy(t)
    PROVE  OnOwned(cur[t]) <=> Target(t) \in Owned
  BY BusyCall DEF OnOwned, Target

(* A call begins in one step of AtomicDecode.                              *)
LEMMA BeginsAtomically ==
    ASSUME TypeOK, Bookkeeping, NEW t \in Thread, Begin(t)
    PROVE  Abstract!Begin(t) \/ UNCHANGED <<value, active, target, ended>>
  <1>0. PICK m \in Message, d \in Doc, k \in Call :
          m = arg'[next].msg /\ d = arg'[next].doc /\ k = next
    BY BeginKeeps
  <1>1. /\ Keeps(t) /\ pc[t] = "idle" /\ pc'[t] = "native"
        /\ content' = content /\ outcome' = outcome
        /\ next \in Call /\ next' = next + 1 /\ cur'[t] = next
        /\ m \in Owned => \A u \in Thread : Busy(u) => Target(u) # m
        /\ \A c \in Call : c # next => arg'[c] = arg[c]
    BY <1>0, BeginKeeps
  <1>2. \A n \in Owned : Held(n)' = Held(n)
    BY <1>1, StillHeld, ParameterAssumption DEF Midway
  <1>3. value' = value
    BY <1>2 DEF value
  <1>4. next \in Int /\ ~(next < next) /\ next < next'
    BY <1>1 DEF Call
  <1>5. /\ ~OnOwned(k) /\ (OnOwned(k)' <=> m \in Owned)
        /\ \A c \in Call : c # k => (OnOwned(c)' <=> OnOwned(c))
    <2>1. \A c \in Call : c # next => (c < next' <=> c < next)
      BY <1>1 DEF Call
    <2>2. ~OnOwned(k) /\ (OnOwned(k)' <=> m \in Owned)
      BY <1>0, <1>4 DEF OnOwned
    <2>3. QED
      BY <1>0, <1>1, <2>1, <2>2 DEF OnOwned
  <1>6. \A u \in Thread : u # t => active'[u] = active[u]
    <2> SUFFICES ASSUME NEW u \in Thread, u # t PROVE active'[u] = active[u]
      OBVIOUS
    <2>1. CASE Busy(u)
      <3>1. Busy(u)' /\ cur'[u] = cur[u] /\ cur[u] \in Call /\ cur[u] # next
        BY <1>1, <1>4, <2>1, BusyCall DEF Keeps, Busy
      <3>2. QED
        BY <1>0, <1>5, <2>1, <3>1 DEF active
    <2>2. CASE ~Busy(u)
      BY <1>1, <2>2 DEF active, Keeps, Busy
    <2>3. QED
      BY <2>1, <2>2
  <1>7. active[t] = 0 /\ active'[t] = IF m \in Owned THEN k ELSE 0
    <2>1. ~Busy(t) /\ Busy(t)' /\ cur'[t] = k
      BY <1>0, <1>1 DEF Busy
    <2>2. QED
      BY <1>5, <2>1 DEF active
  <1>8. /\ target[k] = <<>> /\ target'[k] = IF m \in Owned THEN <<m, d>> ELSE <<>>
        /\ \A c \in Call : c # k => target'[c] = target[c]
    BY <1>0, <1>1, <1>5 DEF target
  <1>9. ended' = ended
    <2>1. outcome[k] = "none"
      BY <1>0, <1>1, <1>4 DEF Bookkeeping, Call
    <2>2. \A c \in Call : ended'[c] = ended[c]
      BY <1>1, <1>5, <2>1 DEF ended
    <2>3. QED
      BY <2>2 DEF ended
  <1>10. /\ active = [u \in Thread |-> active[u]] /\ active' = [u \in Thread |-> active'[u]]
         /\ target = [c \in Call |-> target[c]] /\ target' = [c \in Call |-> target'[c]]
    BY DEF active, target
  <1>11. CASE m \notin Owned
    BY <1>1, <1>3, <1>6, <1>7, <1>8, <1>9, <1>10, <1>11
  <1>12. CASE m \in Owned
    <2>1. \A u \in Thread : active[u] # 0 => target[active[u]][1] # m
      <3> SUFFICES ASSUME NEW u \in Thread, active[u] # 0 PROVE target[active[u]][1] # m
        OBVIOUS
      <3>1. Busy(u) /\ OnOwned(cur[u]) /\ active[u] = cur[u]
        BY DEF active
      <3>2. target[cur[u]] = <<Target(u), arg[cur[u]].doc>> /\ Target(u) # m
        BY <1>1, <1>12, <3>1, BusyCall DEF target, Target
      <3>3. QED
        BY <3>1, <3>2
    <2>2. active' = [active EXCEPT ![t] = k]
      BY <1>6, <1>7, <1>10, <1>12
    <2>3. target' = [target EXCEPT ![k] = <<m, d>>]
      BY <1>1, <1>8, <1>10, <1>12
    <2>4. k \in Abstract!Call
      BY <1>0 DEF Call, Abstract!Call
    <2>5. \E c \in Abstract!Call, n \in Owned, e \in Doc :
             /\ target[c] = <<>>
             /\ \A u \in Thread : active[u] # 0 => target[active[u]][1] # n
             /\ active' = [active EXCEPT ![t] = c]
             /\ target' = [target EXCEPT ![c] = <<n, e>>]
      BY <1>8, <1>12, <2>1, <2>2, <2>3, <2>4
    <2>6. QED
      BY <1>3, <1>7, <1>9, <2>5 DEF Abstract!Begin, value, active, target, ended
  <1>13. QED
    BY <1>11, <1>12

(* A call on a message that others may use is no step of AtomicDecode.     *)
LEMMA OthersUnseen ==
    ASSUME TypeOK, NEW t \in Thread, Step(t) \/ Interrupt(t), Target(t) \notin Owned
    PROVE  UNCHANGED <<value, active, target, ended>>
  <1>1. /\ Keeps(t) /\ Busy(t) /\ UNCHANGED <<cur, arg, before, next>>
        /\ \A n \in Message : n # Target(t) => content'[n] = content[n]
        /\ ~OnOwned(cur[t]) /\ Target(t)' = Target(t)
    BY StepKeeps, RunningOnOwned DEF Target
  <1>2. \A n \in Owned : Held(n)' = Held(n)
    BY <1>1, StillHeld, ParameterAssumption
  <1>3. \A c \in Call : OnOwned(c)' <=> OnOwned(c)
    BY <1>1 DEF OnOwned
  <1>4. \A c \in Call : c # cur[t] => outcome'[c] = outcome[c]
    BY DEF Step, Decode, Clear, Merge, MergeFails, Wrap, Interrupt, Finish, TypeOK
  <1>5. active' = active
    <2>1. \A u \in Thread : active'[u] = active[u]
      BY <1>1 DEF active, Keeps, Busy, OnOwned
    <2>2. QED
      BY <2>1 DEF active
  <1>6. target' = target
    BY <1>1 DEF target, OnOwned
  <1>7. ended' = ended
    <2>1. \A c \in Call : ended'[c] = ended[c]
      BY <1>1, <1>3, <1>4 DEF ended
    <2>2. QED
      BY <2>1 DEF ended
  <1>8. QED
    BY <1>2, <1>5, <1>6, <1>7 DEF value

(* A call ends in one step of AtomicDecode, which is when its message      *)
(* changes for its owner.                                                  *)
EndsAs(t, how, v) ==
    /\ active[t] # 0
    /\ active' = [active EXCEPT ![t] = 0]
    /\ ended' = [ended EXCEPT ![active[t]] = how]
    /\ value' = [value EXCEPT ![target[active[t]][1]] = v]
    /\ target' = target

LEMMA EndsAtomically ==
    ASSUME TypeOK, Owner, NEW t \in Thread, NEW how,
           Step(t) \/ Interrupt(t), Finish(t, how), Target(t) \in Owned,
           NEW v, v = content'[Target(t)]
    PROVE  /\ EndsAs(t, how, v)
           /\ active[t] = cur[t]
           /\ target[cur[t]] = <<Target(t), arg[cur[t]].doc>>
           /\ value[Target(t)] = before[cur[t]]
  <1>0. PICK m \in Owned : m = Target(t)
    OBVIOUS
  <1>1. /\ Keeps(t) /\ Busy(t) /\ UNCHANGED <<cur, arg, before, next>>
        /\ \A n \in Message : n # m => content'[n] = content[n]
        /\ OnOwned(cur[t]) /\ m \in Message
    BY <1>0, StepKeeps, BusyCall, RunningOnOwned
  <1>2. cur[t] \in Call /\ cur[t] < next /\ cur[t] # 0
    BY <1>1, BusyCall DEF TypeOK
  <1>3. pc'[t] = "idle" /\ outcome' = [outcome EXCEPT ![cur[t]] = how]
    BY DEF Finish, TypeOK
  <1>4. active[t] = cur[t] /\ active' = [active EXCEPT ![t] = 0]
    <2>1. active[t] = cur[t] /\ active'[t] = 0
      BY <1>1, <1>3 DEF active, Busy
    <2>2. \A u \in Thread : u # t => active'[u] = active[u]
      BY <1>1 DEF active, Keeps, Busy, OnOwned
    <2>3. active = [u \in Thread |-> active[u]] /\ active' = [u \in Thread |-> active'[u]]
      BY DEF active
    <2>4. QED
      BY <2>1, <2>2, <2>3
  <1>5. target[cur[t]] = <<m, arg[cur[t]].doc>>
    BY <1>0, <1>1, <1>2 DEF target, Target
  <1>6. target' = target
    BY <1>1 DEF target, OnOwned
  <1>7. \A n \in Owned : n # m => Held(n)' = Held(n)
    BY <1>0, <1>1, <1>3, StillHeld, ParameterAssumption DEF Midway
  <1>8. Held(m)' = v
    <2>1. {u \in Thread : pc'[u] \in {"merge", "wrap"} /\ arg'[cur'[u]].msg = m} = {}
      BY <1>0, <1>1, <1>3 DEF Keeps, Owner, Busy, Target
    <2>2. QED
      BY <1>0, <1>1, <2>1 DEF Held, Target
  <1>9. value' = [value EXCEPT ![m] = v]
    BY <1>7, <1>8 DEF value
  <1>10. value[m] = before[cur[t]]
    BY <1>0, <1>1, HeldRunning DEF value
  <1>11. target[active[t]][1] = m
    BY <1>4, <1>5
  <1>12. ended' = [ended EXCEPT ![cur[t]] = how]
    <2>1. ended'[cur[t]] = how /\ \A c \in Call : c # cur[t] => ended'[c] = ended[c]
      BY <1>1, <1>2, <1>3 DEF ended, OnOwned, TypeOK
    <2>2. ended = [c \in Call |-> ended[c]] /\ ended' = [c \in Call |-> ended'[c]]
      BY DEF ended
    <2>3. QED
      BY <1>2, <2>1, <2>2
  <1>13. EndsAs(t, how, v)
    BY <1>2, <1>4, <1>6, <1>9, <1>11, <1>12 DEF EndsAs
  <1>14. QED
    BY <1>0, <1>2, <1>4, <1>5, <1>10, <1>13

(* The lines between are no step of AtomicDecode.                          *)
LEMMA MidwayUnseen ==
    ASSUME TypeOK, Owner, Owner', NEW t \in Thread, Step(t), Busy(t)', Target(t) \in Owned
    PROVE  UNCHANGED <<value, active, target, ended>>
  <1>0. PICK m \in Owned : m = Target(t)
    OBVIOUS
  <1>1. /\ Keeps(t) /\ Busy(t) /\ UNCHANGED <<cur, arg, before, next>>
        /\ \A n \in Message : n # m => content'[n] = content[n]
        /\ m = Target(t)' /\ m \in Message
    BY <1>0, StepKeeps, BusyCall DEF Target
  <1>2. ended' = ended
    <2>1. outcome' = outcome
      BY DEF Step, Decode, Clear, Merge, MergeFails, Wrap, Finish, TypeOK, Busy
    <2>2. QED
      BY <1>1, <2>1 DEF ended, OnOwned
  <1>3. active' = active /\ target' = target
    <2>1. \A u \in Thread : active'[u] = active[u]
      BY <1>1 DEF active, Keeps, Busy, OnOwned
    <2>2. QED
      BY <1>1, <2>1 DEF active, target, OnOwned
  <1>4. \A n \in Owned : n # m => Held(n)' = Held(n)
    BY <1>0, <1>1, StillHeld, ParameterAssumption
  <1>5. Held(m)' = Held(m)
    <2>1. CASE Midway(t)'
      <3>1. Held(m) = before[cur[t]]
        BY <1>0, <1>1, HeldRunning
      <3>2. Held(m)' = before'[cur'[t]]
        BY <1>1, <2>1, HeldMidwayNext
      <3>3. QED
        BY <1>1, <3>1, <3>2
    <2>2. CASE ~Midway(t)'
      <3>1. Decode(t)
        BY <2>2 DEF Step, Clear, Merge, MergeFails, Wrap, Finish, TypeOK, Busy, Midway
      <3>2. ~Midway(t) /\ content' = content
        BY <3>1 DEF Decode, Midway
      <3>3. QED
        BY <1>1, <2>2, <3>2, StillHeld
    <2>3. QED
      BY <2>1, <2>2
  <1>6. value' = value
    BY <1>4, <1>5 DEF value
  <1>7. QED
    BY <1>2, <1>3, <1>6

(* A step of a call is a step of AtomicDecode or none.                     *)
LEMMA StepsAtomically ==
    ASSUME TypeOK, Owner, Owner', NEW t \in Thread, Step(t) \/ Interrupt(t),
           Target(t) \in Owned
    PROVE  \/ Abstract!Accept(t) \/ Abstract!Refuse(t)
           \/ Abstract!Fail(t) \/ Abstract!Interrupt(t)
           \/ UNCHANGED <<value, active, target, ended>>
  <1> DEFINE c == cur[t]
             m == Target(t)
  <1>1. /\ Busy(t) /\ c \in Call /\ m \in Message /\ arg[c].doc \in Doc
        /\ Found(t)
    BY StepKeeps, BusyCall DEF Owner
  <1>2. CASE Busy(t)' /\ Step(t)
    BY <1>2, MidwayUnseen
  <1>3. CASE Finish(t, "refused") /\ Decode(t)
    <2>1. content'[m] = before[c]
      BY <1>1, <1>3 DEF Decode, Found
    <2>2. EndsAs(t, "refused", before[c]) /\ active[t] = c
      BY <1>3, <2>1, EndsAtomically DEF Step
    <2>3. value[target[active[t]][1]] = before[c]
      BY <1>3, <2>1, <2>2, EndsAtomically DEF Step
    <2>4. EndsAs(t, "refused", value[target[active[t]][1]])
      BY <2>2, <2>3 DEF EndsAs
    <2>5. Abstract!Refuse(t)
      BY <2>4 DEF EndsAs, Abstract!Refuse, Abstract!End, value, active, target, ended
    <2>6. QED
      BY <2>5
  <1>4. CASE Finish(t, "ok") /\ (Merge(t) \/ Wrap(t))
    <2>1. content'[m] = << [call |-> c, whole |-> TRUE] >>
      <3>1. CASE Merge(t)
        <4>1. content[m] = <<>>
          BY <1>1, <3>1 DEF Merge, Found
        <4>2. content'[m] = Append(<<>>, [call |-> c, whole |-> TRUE])
          BY <1>1, <3>1, <4>1 DEF Merge, Merged, TypeOK
        <4>3. QED
          BY <4>2
      <3>2. CASE Wrap(t)
        BY <1>1, <3>2 DEF Wrap, Found
      <3>3. QED
        BY <1>4, <3>1, <3>2
    <2>2. /\ EndsAs(t, "ok", << [call |-> c, whole |-> TRUE] >>)
          /\ active[t] = c
      BY <1>4, <2>1, EndsAtomically DEF Step
    <2>3. EndsAs(t, "ok", << [call |-> active[t], whole |-> TRUE] >>)
      BY <2>2 DEF EndsAs
    <2>4. Abstract!Accept(t)
      BY <2>3 DEF EndsAs, Abstract!Accept, Abstract!End, Abstract!Exactly,
                  value, active, target, ended
    <2>5. QED
      BY <2>4
  <1>5. CASE Finish(t, "failed") /\ MergeFails(t)
    <2>1. content[m] = <<>> /\ ~Loads(arg[c].doc)
      BY <1>1, <1>5 DEF MergeFails, Found
    <2>2. content'[m] \in {<<>>, << [call |-> c, whole |-> FALSE] >>}
      <3>1. CASE content' = content
        BY <2>1, <3>1
      <3>2. CASE content' = Merged(t, FALSE)
        <4>1. content'[m] = Append(<<>>, [call |-> c, whole |-> FALSE])
          BY <1>1, <2>1, <3>2 DEF Merged, TypeOK
        <4>2. QED
          BY <4>1
      <3>3. QED
        BY <1>5, <3>1, <3>2 DEF MergeFails
    <2>3. PICK v : v = content'[m]
      OBVIOUS
    <2>4. /\ EndsAs(t, "failed", v) /\ active[t] = c
          /\ target[c] = <<m, arg[c].doc>>
      BY <1>5, <2>3, EndsAtomically DEF Step
    <2>5. target[active[t]][2] \notin {d \in Doc : Loads(d)}
      BY <2>1, <2>4
    <2>6. v \in {value[target[active[t]][1]], <<>>, << [call |-> active[t], whole |-> TRUE] >>,
                 << [call |-> active[t], whole |-> FALSE] >>}
      BY <2>2, <2>3, <2>4
    <2>7. Abstract!Fail(t)
      BY <2>4, <2>5, <2>6
         DEF EndsAs, Abstract!Fail, Abstract!Spoil, Abstract!End, Abstract!Leftover,
             Abstract!Exactly, value, active, target, ended
    <2>8. QED
      BY <2>7
  <1>6. CASE Interrupt(t)
    <2>1. /\ Finish(t, "interrupted") /\ t \in Interruptible
          /\ content'[m] = content[m]
      BY <1>6 DEF Interrupt
    <2>2. content[m] \in {before[c], <<>>, << [call |-> c, whole |-> TRUE] >>}
      BY <1>1 DEF TypeOK, Found, Busy
    <2>3. PICK v : v = content'[m]
      OBVIOUS
    <2>4. /\ EndsAs(t, "interrupted", v) /\ active[t] = c
          /\ target[c] = <<m, arg[c].doc>> /\ value[m] = before[c]
      BY <1>6, <2>1, <2>3, EndsAtomically
    <2>5. v \in {value[target[active[t]][1]], <<>>, << [call |-> active[t], whole |-> TRUE] >>,
                 << [call |-> active[t], whole |-> FALSE] >>}
      BY <2>1, <2>2, <2>3, <2>4
    <2>6. Abstract!Interrupt(t)
      BY <2>1, <2>4, <2>5
         DEF EndsAs, Abstract!Interrupt, Abstract!Spoil, Abstract!End, Abstract!Leftover,
             Abstract!Exactly, value, active, target, ended
    <2>7. QED
      BY <2>6
  <1>7. QED
    <2>1. Decode(t) => Finish(t, "refused") \/ Busy(t)'
      BY DEF Decode, TypeOK, Busy
    <2>2. Clear(t) => Busy(t)'
      BY DEF Clear, TypeOK, Busy
    <2>3. Merge(t) => Finish(t, "ok") \/ Busy(t)'
      BY DEF Merge, TypeOK, Busy
    <2>4. /\ MergeFails(t) => Finish(t, "failed")
          /\ Wrap(t) => Finish(t, "ok")
      BY DEF MergeFails, Wrap
    <2>5. QED
      BY <1>2, <1>3, <1>4, <1>5, <1>6, <2>1, <2>2, <2>3, <2>4 DEF Step

(* A caller that lets no other call into its message may take the three    *)
(* lines of a decode for one atomic step, whatever other threads do to     *)
(* other messages, and whatever interrupts.                                *)
THEOREM AtomicForItsOwner == Spec => AtomicForOwner
  <1>1. Init => Owner /\ Abstract!Init
    <2> SUFFICES ASSUME Init PROVE Owner /\ Abstract!Init
      OBVIOUS
    <2>1. Owner
      BY DEF Init, Owner, Busy
    <2>2. \A m \in Message : Held(m) = << [call |-> 0, whole |-> TRUE] >>
      <3>1. \A m \in Message : {t \in Thread : pc[t] \in {"merge", "wrap"} /\ Target(t) = m} = {}
        BY DEF Init
      <3>2. QED
        BY <3>1 DEF Init, Held
    <2>3. value = [m \in Owned |-> << [call |-> 0, whole |-> TRUE] >>]
      BY <2>2, ParameterAssumption DEF value
    <2>4. active = [t \in Thread |-> 0]
      BY DEF Init, active, Busy
    <2>5. \A c \in Call : ~OnOwned(c)
      BY ParameterAssumption DEF Init, OnOwned, Call
    <2>6. /\ target = [c \in 1 .. MaxCalls |-> <<>>]
          /\ ended = [c \in 1 .. MaxCalls |-> "none"]
      BY <2>5 DEF target, ended, Call
    <2>7. Abstract!Init
      BY <2>3, <2>4, <2>6
         DEF Abstract!Init, Abstract!Exactly, Abstract!Call, value, active, target, ended
    <2>8. QED
      BY <2>1, <2>7
  <1>2. TypeOK /\ TypeOK' /\ Bookkeeping /\ Owner /\ [Next]_vars
            => Owner' /\ [Abstract!Next]_(Abstract!vars)
    <2> SUFFICES ASSUME TypeOK, TypeOK', Bookkeeping, Owner, [Next]_vars
                 PROVE  Owner' /\ [Abstract!Next]_(Abstract!vars)
      OBVIOUS
    <2>1. Owner'
      BY OwnerKept
    <2>2. UNCHANGED <<value, active, target, ended>> => UNCHANGED Abstract!vars
      BY DEF Abstract!vars, value, active, target, ended
    <2>3. ASSUME NEW t \in Thread, Begin(t)
          PROVE  Abstract!Next \/ UNCHANGED Abstract!vars
      BY <2>2, <2>3, BeginsAtomically DEF Abstract!Next
    <2>4. ASSUME NEW t \in Thread, Step(t) \/ Interrupt(t)
          PROVE  Abstract!Next \/ UNCHANGED Abstract!vars
      <3>1. CASE Target(t) \in Owned
        BY <2>1, <2>2, <2>4, <3>1, StepsAtomically DEF Abstract!Next
      <3>2. CASE Target(t) \notin Owned
        BY <2>2, <2>4, <3>2, OthersUnseen
      <3>3. QED
        BY <3>1, <3>2
    <2>5. CASE UNCHANGED vars
      <3>1. \A m \in Owned : Held(m)' = Held(m)
        BY <2>5 DEF vars, Held, Target
      <3>2. UNCHANGED <<value, active, target, ended>>
        BY <2>5, <3>1 DEF vars, value, active, target, ended, Busy, OnOwned
      <3>3. QED
        BY <2>1, <2>2, <3>2
    <2>6. QED
      BY <2>1, <2>3, <2>4, <2>5 DEF Next
  <1>3. QED
    BY <1>1, <1>2, TypeCorrect, BookkeepingCorrect, PTL DEF Spec, AtomicForOwner, Abstract!Spec
===============================================================================
