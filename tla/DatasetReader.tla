----------------------------- MODULE DatasetReader -----------------------------
(***************************************************************************)
(* Streaming the rows of the @dataset directives of one document:          *)
(* pxf.DatasetReader and bind_row over PyDatasetReader (module.cc).        *)
(*                                                                         *)
(* A reader pulls the rows of one dataset.  When it is done, tail() gives  *)
(* the rest of the document, from which the next reader is made.  Several  *)
(* threads may pull from one reader: a native call is one step, but scan   *)
(* is two, taking a row and then binding it to the thread's message.       *)
(***************************************************************************)
EXTENDS Naturals, Sequences

CONSTANTS Thread,      \* the threads that consume the document
          MaxDatasets, \* bound on the datasets of a document
          MaxRows      \* bound on the rows of a dataset

ASSUME BoundsAssumption == MaxDatasets \in Nat /\ MaxRows \in Nat

(* A row binds to the message, parses but does not bind (a field missing,  *)
(* a type wrong, a limit passed), or does not parse (arity, cell grammar). *)
RowKind == {"good", "unbindable", "malformed"}

VARIABLES doc,     \* the datasets, each the kinds of its rows
          opened,  \* dataset -> whether a reader for it exists
          pos,     \* dataset -> the rows its reader is past
          done,    \* dataset -> its reader is done
          tail,    \* dataset -> its reader's tail: "left", "taken", or
                   \* "early", taken before the reader was done
          reader,  \* thread -> the dataset whose reader it uses
          pc,      \* thread -> "idle", or "bind" inside scan
          row,     \* thread -> the row its scan took
          msg,     \* thread -> the dataset and row its message holds
          taken,   \* history: dataset -> the rows handed out, in order
          failed   \* history: dataset -> its reader raised

vars == <<doc, opened, pos, done, tail, reader, pc, row, msg, taken, failed>>

Dataset == DOMAIN doc
Kind(k, r) == doc[k][r]

Init ==
    /\ doc \in UNION {[1 .. n -> UNION {[1 .. r -> RowKind] : r \in 0 .. MaxRows}] :
                        n \in 1 .. MaxDatasets}
    /\ opened = [k \in Dataset |-> k = 1]
    /\ pos = [k \in Dataset |-> 0]
    /\ done = [k \in Dataset |-> FALSE]
    /\ tail = [k \in Dataset |-> "left"]
    /\ reader = [t \in Thread |-> 1]
    /\ pc = [t \in Thread |-> "idle"]
    /\ row = [t \in Thread |-> 0]
    /\ msg = [t \in Thread |-> <<0, 0>>]
    /\ taken = [k \in Dataset |-> <<>>]
    /\ failed = [k \in Dataset |-> FALSE]

(* reader_->Next: past the last row it sets Done, which is how the end is  *)
(* told from a row; a row that does not parse is an error, after which the *)
(* reader may stand before or after that row, or be done.  A reader whose  *)
(* tail was taken early goes on with what it has buffered, and may meet    *)
(* the end, or half a row, anywhere.                                       *)
NativeRow(k) ==
    /\ pos[k] < Len(doc[k])
    /\ Kind(k, pos[k] + 1) # "malformed"
    /\ pos' = [pos EXCEPT ![k] = @ + 1]
    /\ UNCHANGED <<done, failed>>

(* Variants: the end is told with the last row; counted as a row; not kept. *)
NativeEndEarly(k) ==
    /\ pos[k] + 1 >= Len(doc[k])
    /\ done' = [done EXCEPT ![k] = TRUE]
    /\ UNCHANGED <<pos, failed>>

NativeEndCounts(k) ==
    /\ pos[k] = Len(doc[k])
    /\ pos' = [pos EXCEPT ![k] = @ + 1]
    /\ done' = [done EXCEPT ![k] = TRUE]
    /\ UNCHANGED failed

NativeEndForgets(k) ==
    /\ pos[k] = Len(doc[k])
    /\ UNCHANGED <<pos, done, failed>>

NativeEnd(k) ==
    /\ pos[k] = Len(doc[k]) \/ tail[k] = "early"
    /\ done' = [done EXCEPT ![k] = TRUE]
    /\ UNCHANGED <<pos, failed>>

NativeError(k) ==
    /\ \/ pos[k] < Len(doc[k]) /\ Kind(k, pos[k] + 1) = "malformed"
       \/ tail[k] = "early"
    /\ failed' = [failed EXCEPT ![k] = TRUE]
    /\ \/ UNCHANGED <<pos, done>>
       \/ pos[k] < Len(doc[k]) /\ pos' = [pos EXCEPT ![k] = @ + 1] /\ UNCHANGED done
       \/ done' = [done EXCEPT ![k] = TRUE] /\ UNCHANGED pos

(* next_or_none and __next__: a row, or the end.  Done is looked at before *)
(* the native Next, and again after it for the end it may have met.        *)
TakeRow(k) ==
    /\ ~done[k]
    /\ NativeRow(k)
    /\ ~done'[k]
    /\ taken' = [taken EXCEPT ![k] = Append(@, pos'[k])]

SeeEnd(k) ==
    /\ \/ done[k] /\ UNCHANGED <<pos, done, failed>>
       \/ ~done[k] /\ NativeEnd(k)
    /\ done'[k]
    /\ UNCHANGED taken

(* Iterating: the caller gets the cells. *)
Pull(t) ==
    /\ pc[t] = "idle"
    /\ TakeRow(reader[t])
    /\ UNCHANGED <<doc, opened, tail, reader, pc, row, msg>>

(* scan takes the row before it binds it. *)
Scan(t) ==
    /\ pc[t] = "idle"
    /\ TakeRow(reader[t])
    /\ row' = [row EXCEPT ![t] = pos'[reader[t]]]
    /\ pc' = [pc EXCEPT ![t] = "bind"]
    /\ UNCHANGED <<doc, opened, tail, reader, msg>>

(* bind_row under the reader's limits: scan returns True.                  *)
Bind(t) ==
    /\ pc[t] = "bind"
    /\ Kind(reader[t], row[t]) = "good"
    /\ msg' = [msg EXCEPT ![t] = <<reader[t], row[t]>>]
    /\ pc' = [pc EXCEPT ![t] = "idle"]
    /\ UNCHANGED <<doc, opened, pos, done, tail, reader, row, taken, failed>>

(* Variant: a row that does not bind is put back. *)
BindFailsPutsBack(t) ==
    /\ pc[t] = "bind"
    /\ Kind(reader[t], row[t]) # "good"
    /\ pos' = [pos EXCEPT ![reader[t]] = row[t] - 1]
    /\ pc' = [pc EXCEPT ![t] = "idle"]
    /\ UNCHANGED <<doc, opened, done, tail, reader, row, msg, taken, failed>>

(* Variant: a row that does not bind has cleared the message. *)
BindFailsClears(t) ==
    /\ pc[t] = "bind"
    /\ Kind(reader[t], row[t]) # "good"
    /\ msg' = [msg EXCEPT ![t] = <<0, 0>>]
    /\ pc' = [pc EXCEPT ![t] = "idle"]
    /\ UNCHANGED <<doc, opened, pos, done, tail, reader, row, taken, failed>>

(* bind_row raises: the row is gone, the message keeps what it held.       *)
BindFails(t) ==
    /\ pc[t] = "bind"
    /\ Kind(reader[t], row[t]) # "good"
    /\ pc' = [pc EXCEPT ![t] = "idle"]
    /\ UNCHANGED <<doc, opened, pos, done, tail, reader, row, msg, taken, failed>>

(* Either call reports the end: None, StopIteration, or scan's False.      *)
End(t) ==
    /\ pc[t] = "idle"
    /\ SeeEnd(reader[t])
    /\ UNCHANGED <<doc, opened, tail, reader, pc, row, msg>>

(* Either call raises on a row that does not parse.                        *)
Error(t) ==
    /\ pc[t] = "idle"
    /\ ~done[reader[t]]
    /\ NativeError(reader[t])
    /\ UNCHANGED <<doc, opened, tail, reader, pc, row, msg, taken>>

(* The thread goes on to a reader made of what tail() gave.                *)
Onward(t) ==
    /\ reader[t] < Len(doc)
    /\ opened' = [opened EXCEPT ![reader[t] + 1] = TRUE]
    /\ reader' = [reader EXCEPT ![t] = @ + 1]

(* tail() of a reader that is done, and a reader made of it for the next   *)
(* dataset.  A second tail has nothing left to make one of.                *)
Chain(t) ==
    /\ pc[t] = "idle"
    /\ done[reader[t]]
    /\ tail[reader[t]] = "left"
    /\ tail' = [tail EXCEPT ![reader[t]] = "taken"]
    /\ \/ Onward(t)
       \/ /\ reader[t] = Len(doc) \/ failed[reader[t]]
          /\ UNCHANGED <<opened, reader>>
    /\ UNCHANGED <<doc, pos, done, pc, row, msg, taken, failed>>

(* tail() of a reader that is not done: nothing checks.  It starts in the  *)
(* middle of the dataset, so a reader of it is refused, or finds the next  *)
(* dataset in it.                                                          *)
TailEarly(t) ==
    /\ pc[t] = "idle"
    /\ ~done[reader[t]]
    /\ tail[reader[t]] = "left"
    /\ tail' = [tail EXCEPT ![reader[t]] = "early"]
    /\ Onward(t) \/ UNCHANGED <<opened, reader>>
    /\ UNCHANGED <<doc, pos, done, pc, row, msg, taken, failed>>

(* A thread is handed the reader that another one made.                    *)
Follow(t) ==
    /\ pc[t] = "idle"
    /\ reader[t] < Len(doc)
    /\ opened[reader[t] + 1]
    /\ reader' = [reader EXCEPT ![t] = @ + 1]
    /\ UNCHANGED <<doc, opened, pos, done, tail, pc, row, msg, taken, failed>>

Step(t) == Pull(t) \/ Scan(t) \/ Bind(t) \/ BindFails(t) \/ End(t) \/ Error(t)

Next == \E t \in Thread : Step(t) \/ Chain(t) \/ TailEarly(t) \/ Follow(t)

Spec == Init /\ [][Next]_vars

(* A consumer keeps pulling until the end, past rows that do not bind, and *)
(* goes on to the next dataset.                                            *)
FairSpec == Spec /\ \A t \in Thread : WF_vars(Step(t)) /\ WF_vars(Chain(t))
-------------------------------------------------------------------------------
(* Type invariant. *)
TypeOK ==
    /\ opened \in [Dataset -> BOOLEAN] /\ opened[1]
    /\ pos \in [Dataset -> 0 .. MaxRows]
    /\ done \in [Dataset -> BOOLEAN]
    /\ tail \in [Dataset -> {"left", "taken", "early"}]
    /\ reader \in [Thread -> Dataset]
    /\ pc \in [Thread -> {"idle", "bind"}]
    /\ row \in [Thread -> 0 .. MaxRows]
    /\ msg \in [Thread -> (0 .. MaxDatasets) \X (0 .. MaxRows)]
    /\ taken \in [Dataset -> Seq(1 .. MaxRows)]
    /\ failed \in [Dataset -> BOOLEAN]

(* A thread's message only moves forward through the document, however     *)
(* many threads share a reader and whichever scans fail in between: a      *)
(* consumer that keeps one message never sees a row again.                 *)
Later(p, q) == p[1] < q[1] \/ (p[1] = q[1] /\ p[2] < q[2])

RowsMoveForward ==
    [][\A t \in Thread : msg'[t] # msg[t] => Later(msg[t], msg'[t])]_vars

(* No two threads are binding the same row, nor one already bound.         *)
RowHasOneOwner ==
    \A t, u \in Thread :
        /\ t # u /\ pc[t] = "bind" /\ pc[u] = "bind" /\ reader[t] = reader[u]
             => row[t] # row[u]
        /\ pc[t] = "bind" => msg[u] # <<reader[t], row[t]>>

(* A reader of the next dataset exists only when every row of the one      *)
(* before has been handed out, unless that one raised or its tail was      *)
(* taken early: what chaining skips is no accident (pxf.py:522-531).       *)
ChainedAfterAll ==
    \A k \in Dataset : k > 1 /\ opened[k] =>
        \/ taken[k - 1] = [i \in 1 .. Len(doc[k - 1]) |-> i]
        \/ failed[k - 1]
        \/ tail[k - 1] = "early"

(* The first reader is a stream of its dataset's rows, which taking its    *)
(* tail early cuts short and does not put out of order.                    *)
First == INSTANCE RowStream WITH
    size <- Len(doc[1]), delivered <- taken[1], broken <- failed[1],
    cut <- tail[1] = "early", ended <- done[1]

FirstStream == First!Spec

(* A document whose rows all parse is read to its end, unless a tail is    *)
(* taken early.                                                            *)
AllParse == \A k \in Dataset : \A r \in DOMAIN doc[k] : Kind(k, r) # "malformed"
ReadToTheEnd ==
    AllParse ~> \/ \A k \in Dataset : done[k]
                \/ \E k \in Dataset : tail[k] = "early"
===============================================================================
