-------------------------- MODULE DatasetReaderProofs --------------------------
(***************************************************************************)
(* Proofs about DatasetReader, for any threads and any document.           *)
(***************************************************************************)
EXTENDS DatasetReader, SequenceTheorems, TLAPS

(* What a document is, and that it does not change.                        *)
DocOK ==
    /\ Len(doc) \in 1 .. MaxDatasets /\ Dataset = 1 .. Len(doc)
    /\ \A k \in Dataset : doc[k] \in Seq(RowKind) /\ Len(doc[k]) \in 0 .. MaxRows

LEMMA DocStays == [Next]_vars => doc' = doc
  BY DEF Next, vars, Step, Pull, Scan, Bind, BindFails, End, Error, Chain, TailEarly, Onward, Follow

LEMMA DocHolds == Spec => []DocOK
  <1>1. Init => DocOK
    <2> SUFFICES ASSUME Init PROVE DocOK
      OBVIOUS
    <2>1. PICK n \in 1 .. MaxDatasets :
              doc \in [1 .. n -> UNION {[1 .. r -> RowKind] : r \in 0 .. MaxRows}]
      BY DEF Init
    <2>2. Len(doc) = n /\ Dataset = 1 .. n
      BY <2>1, BoundsAssumption DEF Dataset
    <2>3. ASSUME NEW k \in Dataset PROVE doc[k] \in Seq(RowKind) /\ Len(doc[k]) \in 0 .. MaxRows
      <3>0. k \in 1 .. n /\ doc[k] \in UNION {[1 .. r -> RowKind] : r \in 0 .. MaxRows}
        BY <2>1, <2>2, <2>3
      <3>1. PICK r \in 0 .. MaxRows : doc[k] \in [1 .. r -> RowKind]
        BY <3>0
      <3>2. QED
        BY <3>1, BoundsAssumption
    <2>4. QED
      BY <2>1, <2>2, <2>3 DEF DocOK
  <1>2. DocOK /\ [Next]_vars => DocOK'
    BY DocStays DEF DocOK, Dataset
  <1>3. QED
    BY <1>1, <1>2, PTL DEF Spec

-------------------------------------------------------------------------------
(* Every variable keeps its type; a reader is never past its last row.     *)
Typed == TypeOK /\ \A k \in Dataset : pos[k] <= Len(doc[k])

(* What taking a row, meeting the end and an error do to a reader.         *)
LEMMA TakeRowTyped ==
    ASSUME DocOK, Typed, NEW k \in Dataset, TakeRow(k)
    PROVE  /\ pos' = [pos EXCEPT ![k] = pos[k] + 1]
           /\ pos' \in [Dataset -> 0 .. MaxRows] /\ \A j \in Dataset : pos'[j] <= Len(doc[j])
           /\ taken' \in [Dataset -> Seq(1 .. MaxRows)]
           /\ done' = done /\ failed' = failed
           /\ pos[k] \in Nat /\ pos'[k] = pos[k] + 1 /\ pos'[k] \in 1 .. MaxRows
  <1>1. pos[k] \in Nat /\ pos[k] < Len(doc[k]) /\ Len(doc[k]) \in 0 .. MaxRows
    <2>1. pos[k] < Len(doc[k])
      BY DEF TakeRow, NativeRow
    <2>2. pos[k] \in 0 .. MaxRows
      BY DEF Typed, TypeOK
    <2>3. Len(doc[k]) \in 0 .. MaxRows
      BY DEF DocOK
    <2>4. QED
      BY <2>1, <2>2, <2>3, BoundsAssumption
  <1>2. pos' = [pos EXCEPT ![k] = pos[k] + 1] /\ done' = done /\ failed' = failed
    BY DEF TakeRow, NativeRow
  <1>3. pos[k] + 1 \in 1 .. MaxRows /\ pos[k] + 1 <= Len(doc[k])
    BY <1>1, BoundsAssumption
  <1>4. pos \in [Dataset -> 0 .. MaxRows] /\ \A j \in Dataset : pos[j] <= Len(doc[j])
    BY DEF Typed, TypeOK
  <1>5. pos'[k] = pos[k] + 1 /\ pos' \in [Dataset -> 0 .. MaxRows]
    BY <1>2, <1>3, <1>4
  <1>6. ASSUME NEW j \in Dataset PROVE pos'[j] <= Len(doc[j])
    BY <1>2, <1>3, <1>4
  <1>7. taken \in [Dataset -> Seq(1 .. MaxRows)] /\ taken' = [taken EXCEPT ![k] = Append(@, pos'[k])]
    BY DEF Typed, TypeOK, TakeRow
  <1>8. taken' \in [Dataset -> Seq(1 .. MaxRows)]
    BY <1>3, <1>5, <1>7
  <1>9. QED
    BY <1>1, <1>2, <1>3, <1>5, <1>6, <1>8

LEMMA ErrorTyped ==
    ASSUME DocOK, Typed, NEW k \in Dataset, NativeError(k)
    PROVE  /\ pos' \in [Dataset -> 0 .. MaxRows] /\ \A j \in Dataset : pos'[j] <= Len(doc[j])
           /\ \A j \in Dataset : pos[j] <= pos'[j]
           /\ done' \in [Dataset -> BOOLEAN]
           /\ failed' = [failed EXCEPT ![k] = TRUE] /\ failed' \in [Dataset -> BOOLEAN]
  <1>1. pos[k] \in Nat /\ pos[k] \in 0 .. MaxRows /\ Len(doc[k]) \in 0 .. MaxRows
    <2>1. pos[k] \in 0 .. MaxRows
      BY DEF Typed, TypeOK
    <2>2. Len(doc[k]) \in 0 .. MaxRows
      BY DEF DocOK
    <2>3. QED
      BY <2>1, <2>2, BoundsAssumption
  <1>2. pos[k] < Len(doc[k]) =>
          pos[k] + 1 \in 1 .. MaxRows /\ pos[k] + 1 <= Len(doc[k])
    BY <1>1, BoundsAssumption
  <1>3. /\ pos \in [Dataset -> 0 .. MaxRows] /\ \A j \in Dataset : pos[j] <= Len(doc[j])
        /\ done \in [Dataset -> BOOLEAN] /\ failed \in [Dataset -> BOOLEAN]
    BY DEF Typed, TypeOK
  <1>4. \/ pos' = pos
        \/ pos[k] < Len(doc[k]) /\ pos' = [pos EXCEPT ![k] = pos[k] + 1]
    BY DEF NativeError
  <1>5. done' = done \/ done' = [done EXCEPT ![k] = TRUE]
    BY DEF NativeError
  <1>6. failed' = [failed EXCEPT ![k] = TRUE]
    BY DEF NativeError
  <1>7. pos' \in [Dataset -> 0 .. MaxRows]
    BY <1>2, <1>3, <1>4
  <1>8. ASSUME NEW j \in Dataset PROVE pos'[j] <= Len(doc[j]) /\ pos[j] <= pos'[j]
    BY <1>1, <1>2, <1>3, <1>4
  <1>9. QED
    BY <1>3, <1>5, <1>6, <1>7, <1>8

LEMMA TypedHolds == Spec => []Typed
  <1>1. DocOK /\ Init => Typed
    <2> SUFFICES ASSUME DocOK, Init PROVE Typed
      OBVIOUS
    <2>1. 1 \in Dataset /\ 0 \in 0 .. MaxRows /\ 0 \in 0 .. MaxDatasets
      BY BoundsAssumption DEF DocOK
    <2>2. \A k \in Dataset : 0 <= Len(doc[k])
      BY BoundsAssumption DEF DocOK
    <2>3. taken \in [Dataset -> Seq(1 .. MaxRows)]
      <3>1. <<>> \in Seq(1 .. MaxRows)
        OBVIOUS
      <3>2. QED
        BY <3>1 DEF Init
    <2>4. opened \in [Dataset -> BOOLEAN] /\ opened[1]
      BY <2>1 DEF Init
    <2>5. QED
      BY <2>1, <2>2, <2>3, <2>4 DEF Init, Typed, TypeOK
  <1>2. DocOK /\ Typed /\ [Next]_vars => Typed'
    <2> SUFFICES ASSUME DocOK, Typed, [Next]_vars PROVE Typed'
      OBVIOUS
    <2>0. doc' = doc /\ Dataset' = Dataset
      BY DocStays DEF Dataset
    <2>00. \A t \in Thread : reader[t] \in Dataset
      BY DEF Typed, TypeOK
    <2>1. ASSUME NEW t \in Thread, Pull(t) PROVE Typed'
      BY <2>0, <2>00, <2>1, TakeRowTyped DEF Pull, Typed, TypeOK
    <2>2. ASSUME NEW t \in Thread, Scan(t) PROVE Typed'
      <3>1. TakeRow(reader[t]) /\ reader[t] \in Dataset
        BY <2>00, <2>2 DEF Scan
      <3>2. pos'[reader[t]] \in 0 .. MaxRows
        BY <3>1, TakeRowTyped, BoundsAssumption
      <3>3. row' \in [Thread -> 0 .. MaxRows] /\ pc' \in [Thread -> {"idle", "bind"}]
        BY <2>2, <3>2 DEF Scan, Typed, TypeOK
      <3>4. QED
        BY <2>0, <2>2, <3>1, <3>3, TakeRowTyped DEF Scan, Typed, TypeOK
    <2>3. ASSUME NEW t \in Thread, Bind(t) PROVE Typed'
      <3>1. <<reader[t], row[t]>> \in (0 .. MaxDatasets) \X (0 .. MaxRows)
        BY <2>00, BoundsAssumption DEF DocOK, Typed, TypeOK
      <3>2. msg' \in [Thread -> (0 .. MaxDatasets) \X (0 .. MaxRows)]
            /\ pc' \in [Thread -> {"idle", "bind"}]
        BY <2>3, <3>1 DEF Bind, Typed, TypeOK
      <3>3. QED
        BY <2>0, <2>3, <3>2 DEF Bind, Typed, TypeOK
    <2>4. ASSUME NEW t \in Thread, BindFails(t) PROVE Typed'
      BY <2>0, <2>4 DEF BindFails, Typed, TypeOK
    <2>5. ASSUME NEW t \in Thread, End(t) PROVE Typed'
      BY <2>0, <2>00, <2>5 DEF End, SeeEnd, NativeEnd, Typed, TypeOK
    <2>6. ASSUME NEW t \in Thread, Error(t) PROVE Typed'
      BY <2>0, <2>00, <2>6, ErrorTyped DEF Error, Typed, TypeOK
    <2>7. ASSUME NEW t \in Thread, Chain(t) \/ TailEarly(t) PROVE Typed'
      <3>1. /\ tail' = [tail EXCEPT ![reader[t]] = "taken"]
               \/ tail' = [tail EXCEPT ![reader[t]] = "early"]
            /\ UNCHANGED <<doc, pos, done, pc, row, msg, taken, failed>>
        BY <2>7 DEF Chain, TailEarly
      <3>2. tail' \in [Dataset -> {"left", "taken", "early"}]
        BY <2>00, <3>1 DEF Typed, TypeOK
      <3>3. CASE Onward(t)
        <4>1. reader[t] + 1 \in Dataset /\ 1 \in Dataset
          BY <2>00, <3>3 DEF DocOK, Onward
        <4>2. reader' \in [Thread -> Dataset]
          BY <3>3, <4>1 DEF Typed, TypeOK, Onward
        <4>3. opened' \in [Dataset -> BOOLEAN] /\ opened'[1]
          BY <3>3, <4>1 DEF Typed, TypeOK, Onward
        <4>4. QED
          BY <2>0, <3>1, <3>2, <4>2, <4>3 DEF Typed, TypeOK
      <3>4. CASE UNCHANGED <<opened, reader>>
        BY <2>0, <3>1, <3>2, <3>4 DEF Typed, TypeOK
      <3>5. QED
        BY <2>7, <3>3, <3>4 DEF Chain, TailEarly
    <2>8. ASSUME NEW t \in Thread, Follow(t) PROVE Typed'
      <3>1. reader[t] + 1 \in Dataset
        BY <2>00, <2>8 DEF Follow, DocOK
      <3>2. reader' \in [Thread -> Dataset]
        BY <2>8, <3>1 DEF Follow, Typed, TypeOK
      <3>3. QED
        BY <2>0, <2>8, <3>2 DEF Follow, Typed, TypeOK
    <2>9. CASE UNCHANGED vars
      BY <2>0, <2>9 DEF vars, Typed, TypeOK
    <2>10. QED
      BY <2>1, <2>2, <2>3, <2>4, <2>5, <2>6, <2>7, <2>8, <2>9 DEF Next, Step
  <1>3. QED
    BY <1>1, <1>2, DocHolds, PTL DEF Spec

(* Type correctness of the readers.                                        *)
THEOREM TypeCorrect == Spec => []TypeOK
  <1>1. Typed => TypeOK
    BY DEF Typed
  <1>2. QED
    BY <1>1, TypedHolds, PTL

-------------------------------------------------------------------------------
(* A row that a thread is binding, or that its message holds, is one the   *)
(* reader is past.  So the row that the next scan takes is nobody's yet.   *)
Past ==
    \A t \in Thread :
        /\ pc[t] = "bind" => row[t] <= pos[reader[t]]
        /\ \A k \in Dataset : msg[t][1] = k => msg[t][2] <= pos[k]

Owned == RowHasOneOwner /\ Past

(* A step that only moves readers forward leaves the owners alone.         *)
LEMMA ForwardKeepsOwned ==
    ASSUME Typed, Typed', Owned, doc' = doc, UNCHANGED <<reader, pc, row, msg>>,
           \A k \in Dataset : pos[k] <= pos'[k]
    PROVE  Owned'
  <1>1. Dataset' = Dataset /\ \A k \in Dataset : pos[k] \in Nat /\ pos'[k] \in Nat
    BY BoundsAssumption DEF Dataset, Typed, TypeOK
  <1>2. RowHasOneOwner'
    BY DEF Owned, RowHasOneOwner
  <1>3. ASSUME NEW t \in Thread, pc[t] = "bind" PROVE row[t] <= pos'[reader[t]]
    <2>1. reader[t] \in Dataset /\ row[t] \in Nat
      BY BoundsAssumption DEF Typed, TypeOK
    <2>2. row[t] <= pos[reader[t]]
      BY <1>3 DEF Owned, Past
    <2>3. QED
      BY <1>1, <2>1, <2>2
  <1>4. ASSUME NEW t \in Thread, NEW k \in Dataset, msg[t][1] = k PROVE msg[t][2] <= pos'[k]
    <2>1. msg[t][2] \in Nat
      BY BoundsAssumption DEF Typed, TypeOK
    <2>2. msg[t][2] <= pos[k]
      BY <1>4 DEF Owned, Past
    <2>3. QED
      BY <1>1, <2>1, <2>2
  <1>5. QED
    BY <1>1, <1>2, <1>3, <1>4 DEF Owned, Past

LEMMA OwnedHolds == Spec => []Owned
  <1>1. Typed /\ Init => Owned
    BY DEF Typed, TypeOK, Init, Owned, Past, RowHasOneOwner, Dataset
  <1>2. DocOK /\ Typed /\ Typed' /\ Owned /\ [Next]_vars => Owned'
    <2> SUFFICES ASSUME DocOK, Typed, Typed', Owned, [Next]_vars PROVE Owned'
      OBVIOUS
    <2>0. /\ doc' = doc /\ Dataset' = Dataset
          /\ \A t \in Thread : reader[t] \in Dataset /\ row[t] \in Nat
          /\ \A k \in Dataset : pos[k] \in Nat
      BY DocStays, BoundsAssumption DEF Dataset, Typed, TypeOK
    <2>1. ASSUME NEW t \in Thread, Pull(t) PROVE Owned'
      <3>1. \A k \in Dataset : pos[k] <= pos'[k]
        <4>1. pos' = [pos EXCEPT ![reader[t]] = pos[reader[t]] + 1]
          BY <2>0, <2>1, TakeRowTyped DEF Pull
        <4>2. pos \in [Dataset -> 0 .. MaxRows]
          BY DEF Typed, TypeOK
        <4>3. QED
          BY <2>0, <4>1, <4>2
      <3>2. QED
        BY <2>1, <3>1, ForwardKeepsOwned DEF Pull
    <2>2. ASSUME NEW t \in Thread, Scan(t) PROVE Owned'
      <3> DEFINE d == reader[t]
      <3>1. d \in Dataset /\ TakeRow(d) /\ UNCHANGED <<reader, msg>>
        BY <2>0, <2>2 DEF Scan
      <3>2. /\ pos' = [pos EXCEPT ![d] = pos[d] + 1] /\ pos'[d] = pos[d] + 1
        BY <3>1, TakeRowTyped
      <3>3. /\ pc'[t] = "bind" /\ row'[t] = pos[d] + 1
            /\ \A u \in Thread : u # t => pc'[u] = pc[u] /\ row'[u] = row[u]
        BY <2>2, <3>2 DEF Scan, Typed, TypeOK
      <3>4. \A k \in Dataset : pos[k] <= pos'[k]
        <4>1. pos \in [Dataset -> 0 .. MaxRows]
          BY DEF Typed, TypeOK
        <4>2. QED
          BY <2>0, <3>2, <4>1
      <3>5. ASSUME NEW u \in Thread, NEW v \in Thread, u # v, pc'[u] = "bind",
                   pc'[v] = "bind", reader[u] = reader[v]
            PROVE  row'[u] # row'[v]
        <4>1. CASE u = t
          BY <2>0, <3>3, <3>5, <4>1 DEF Owned, Past
        <4>2. CASE v = t
          BY <2>0, <3>3, <3>5, <4>2 DEF Owned, Past
        <4>3. CASE u # t /\ v # t
          BY <3>3, <3>5, <4>3 DEF Owned, RowHasOneOwner
        <4>4. QED
          BY <4>1, <4>2, <4>3
      <3>6. ASSUME NEW u \in Thread, NEW v \in Thread, pc'[u] = "bind"
            PROVE  msg[v] # <<reader[u], row'[u]>>
        <4>1. CASE u = t
          <5>1. msg[v][1] = d => msg[v][2] <= pos[d]
            BY <3>1 DEF Owned, Past
          <5>2. QED
            BY <2>0, <3>1, <3>3, <4>1, <5>1
        <4>2. CASE u # t
          BY <3>3, <3>6, <4>2 DEF Owned, RowHasOneOwner
        <4>3. QED
          BY <4>1, <4>2
      <3>7. ASSUME NEW u \in Thread, pc'[u] = "bind" PROVE row'[u] <= pos'[reader[u]]
        <4>1. CASE u = t
          BY <2>0, <3>1, <3>2, <3>3, <4>1
        <4>2. CASE u # t
          <5>1. row[u] <= pos[reader[u]] /\ reader[u] \in Dataset
            BY <2>0, <3>3, <3>7, <4>2 DEF Owned, Past
          <5>2. pos'[reader[u]] \in Nat /\ pos[reader[u]] <= pos'[reader[u]]
            BY <2>0, <3>4, <5>1, BoundsAssumption DEF Typed, TypeOK
          <5>3. QED
            BY <2>0, <3>3, <4>2, <5>1, <5>2
        <4>3. QED
          BY <4>1, <4>2
      <3>8. ASSUME NEW u \in Thread, NEW k \in Dataset, msg[u][1] = k PROVE msg[u][2] <= pos'[k]
        <4>0. msg[u][2] \in Nat
          BY BoundsAssumption DEF Typed, TypeOK
        <4>1. msg[u][2] <= pos[k]
          BY <3>8 DEF Owned, Past
        <4>2. pos'[k] \in Nat /\ pos[k] <= pos'[k]
          BY <2>0, <3>4, BoundsAssumption DEF Typed, TypeOK
        <4>3. QED
          BY <2>0, <4>0, <4>1, <4>2
      <3>9. QED
        BY <2>0, <3>1, <3>5, <3>6, <3>7, <3>8 DEF Owned, Past, RowHasOneOwner
    <2>3. ASSUME NEW t \in Thread, Bind(t) PROVE Owned'
      <3>1. /\ pc[t] = "bind" /\ UNCHANGED <<pos, reader, row>>
            /\ msg'[t] = <<reader[t], row[t]>> /\ pc'[t] = "idle"
            /\ \A u \in Thread : u # t => msg'[u] = msg[u] /\ pc'[u] = pc[u]
        BY <2>3 DEF Bind, Typed, TypeOK
      <3>2. RowHasOneOwner'
        BY <3>1 DEF Owned, RowHasOneOwner
      <3>3. Past'
        <4>1. ASSUME NEW u \in Thread, NEW k \in Dataset, msg'[u][1] = k
              PROVE  msg'[u][2] <= pos[k]
          BY <3>1, <4>1 DEF Owned, Past
        <4>2. QED
          BY <2>0, <3>1, <4>1 DEF Owned, Past
      <3>4. QED
        BY <3>2, <3>3 DEF Owned
    <2>4. ASSUME NEW t \in Thread, BindFails(t) PROVE Owned'
      <3>1. /\ UNCHANGED <<pos, reader, row, msg>>
            /\ \A u \in Thread : pc'[u] = "bind" => pc[u] = "bind"
        BY <2>4 DEF BindFails, Typed, TypeOK
      <3>2. QED
        BY <2>0, <3>1 DEF Owned, Past, RowHasOneOwner
    <2>5. ASSUME NEW t \in Thread, End(t) PROVE Owned'
      BY <2>0, <2>5, ForwardKeepsOwned DEF End, SeeEnd, NativeEnd
    <2>6. ASSUME NEW t \in Thread, Error(t) PROVE Owned'
      BY <2>0, <2>6, ErrorTyped, ForwardKeepsOwned DEF Error
    <2>7. ASSUME NEW t \in Thread, pc[t] = "idle", UNCHANGED <<pos, pc, row, msg>>,
                 \A u \in Thread : u # t => reader'[u] = reader[u]
          PROVE  Owned'
      BY <2>0, <2>7 DEF Owned, Past, RowHasOneOwner
    <2>8. ASSUME NEW t \in Thread, Chain(t) \/ TailEarly(t) \/ Follow(t) PROVE Owned'
      <3>1. /\ pc[t] = "idle" /\ UNCHANGED <<pos, pc, row, msg>>
            /\ \A u \in Thread : u # t => reader'[u] = reader[u]
        BY <2>8 DEF Chain, TailEarly, Onward, Follow, Typed, TypeOK
      <3>2. QED
        BY <2>7, <3>1
    <2>9. CASE UNCHANGED vars
      BY <2>0, <2>9, ForwardKeepsOwned DEF vars
    <2>10. QED
      BY <2>1, <2>2, <2>3, <2>4, <2>5, <2>6, <2>8, <2>9 DEF Next, Step
  <1>3. QED
    BY <1>1, <1>2, DocHolds, TypedHolds, PTL DEF Spec

(* No row is bound twice, and none is being bound by two threads.          *)
THEOREM RowsAreDealtOut == Spec => []RowHasOneOwner
  <1>1. Owned => RowHasOneOwner
    BY DEF Owned
  <1>2. QED
    BY <1>1, OwnedHolds, PTL

-------------------------------------------------------------------------------
(* The rows a reader handed out are those it is past, in order, as long as *)
(* none failed to parse; a reader that is done, with no error and its tail *)
(* left to it until then, is past them all; and only a reader that is done *)
(* opens the next, unless its tail was taken early.                        *)
Counted(k) == ~failed[k] => taken[k] = [i \in 1 .. pos[k] |-> i]
Finished(k) == done[k] /\ ~failed[k] /\ tail[k] # "early" => pos[k] = Len(doc[k])
OpenedAfter(k) == k > 1 /\ opened[k] => done[k - 1] \/ tail[k - 1] = "early"
InOrder == \A k \in Dataset : Counted(k) /\ Finished(k) /\ OpenedAfter(k)

LEMMA OneMore ==
    ASSUME NEW n \in Nat, NEW s, s = [i \in 1 .. n |-> i]
    PROVE  Append(s, n + 1) = [i \in 1 .. n + 1 |-> i]
  <1>1. s \in Seq(Nat) /\ Len(s) = n
    OBVIOUS
  <1>2. Append(s, n + 1) \in Seq(Nat) /\ Len(Append(s, n + 1)) = n + 1
    BY <1>1
  <1>3. ASSUME NEW i \in 1 .. n + 1 PROVE Append(s, n + 1)[i] = i
    BY <1>1
  <1>4. QED
    BY <1>2, <1>3

(* A step that leaves the readers alone, or moves a thread on.             *)
LEMMA SameKeepsInOrder ==
    ASSUME InOrder, UNCHANGED <<doc, opened, pos, done, tail, taken, failed>>
    PROVE  InOrder'
  BY DEF InOrder, Counted, Finished, OpenedAfter, Dataset

LEMMA TakeKeepsInOrder ==
    ASSUME DocOK, Typed, InOrder, NEW d \in Dataset, TakeRow(d), UNCHANGED <<doc, opened, tail>>
    PROVE  InOrder'
  <1>1. /\ pos' = [pos EXCEPT ![d] = pos[d] + 1] /\ pos[d] \in Nat /\ pos'[d] = pos[d] + 1
        /\ done' = done /\ failed' = failed
    BY TakeRowTyped
  <1>2. ~done[d] /\ taken' = [taken EXCEPT ![d] = Append(taken[d], pos[d] + 1)]
    BY <1>1 DEF TakeRow
  <1>3. pos \in [Dataset -> 0 .. MaxRows] /\ taken \in [Dataset -> Seq(1 .. MaxRows)]
    BY DEF Typed, TypeOK
  <1>4. ASSUME NEW k \in Dataset PROVE Counted(k)'
    <2>1. CASE k = d
      BY <1>1, <1>2, <1>3, <2>1, OneMore DEF InOrder, Counted
    <2>2. CASE k # d
      BY <1>1, <1>2, <1>3, <2>2 DEF InOrder, Counted
    <2>3. QED
      BY <2>1, <2>2
  <1>5. ASSUME NEW k \in Dataset PROVE Finished(k)' /\ OpenedAfter(k)'
    BY <1>1, <1>2, <1>3 DEF InOrder, Finished, OpenedAfter
  <1>6. QED
    BY <1>4, <1>5 DEF InOrder, Dataset

(* Chaining skips nothing: the reader of a dataset is made only when every *)
(* row of the one before was handed out, unless that reader raised or its  *)
(* tail was taken early.                                                   *)
THEOREM ChainingSkipsNothing == Spec => []ChainedAfterAll
  <1>1. DocOK /\ Init => InOrder
    <2> SUFFICES ASSUME DocOK, Init PROVE InOrder
      OBVIOUS
    <2>1. <<>> = [i \in 1 .. 0 |-> i]
      OBVIOUS
    <2>2. ASSUME NEW k \in Dataset PROVE Counted(k)
      BY <2>1 DEF Init, Counted
    <2>3. ASSUME NEW k \in Dataset PROVE Finished(k) /\ OpenedAfter(k)
      <3>1. ~done[k] /\ (opened[k] <=> k = 1)
        BY DEF Init
      <3>2. QED
        BY <3>1 DEF DocOK, Finished, OpenedAfter
    <2>4. QED
      BY <2>2, <2>3 DEF InOrder
  <1>2. DocOK /\ Typed /\ InOrder /\ [Next]_vars => InOrder'
    <2> SUFFICES ASSUME DocOK, Typed, InOrder, [Next]_vars PROVE InOrder'
      OBVIOUS
    <2>0. /\ doc' = doc /\ Dataset' = Dataset
          /\ \A t \in Thread : reader[t] \in Dataset
      BY DocStays DEF Dataset, Typed, TypeOK
    <2>1. ASSUME NEW t \in Thread, Pull(t) \/ Scan(t) PROVE InOrder'
      BY <2>0, <2>1, TakeKeepsInOrder DEF Pull, Scan
    <2>2. ASSUME NEW t \in Thread, Bind(t) \/ BindFails(t) \/ Follow(t) PROVE InOrder'
      BY <2>2, SameKeepsInOrder DEF Bind, BindFails, Follow
    <2>3. ASSUME NEW t \in Thread, End(t) PROVE InOrder'
      <3> DEFINE d == reader[t]
      <3>1. UNCHANGED <<doc, opened, pos, tail, taken, failed>>
        BY <2>3 DEF End, SeeEnd, NativeEnd
      <3>2. CASE done' = done
        BY <3>1, <3>2, SameKeepsInOrder
      <3>3. CASE /\ done' = [done EXCEPT ![d] = TRUE]
                 /\ pos[d] = Len(doc[d]) \/ tail[d] = "early"
        <4>1. done \in [Dataset -> BOOLEAN]
          BY DEF Typed, TypeOK
        <4>2. ASSUME NEW k \in Dataset PROVE (done[k] => done'[k]) /\ (k # d => done'[k] = done[k])
          BY <3>3, <4>1
        <4>3. ASSUME NEW k \in Dataset PROVE Counted(k)' /\ Finished(k)'
          BY <3>1, <3>3, <4>2 DEF InOrder, Counted, Finished
        <4>4. ASSUME NEW k \in Dataset PROVE OpenedAfter(k)'
          <5>1. k > 1 => k - 1 \in Dataset
            BY DEF DocOK
          <5>2. QED
            BY <3>1, <4>2, <5>1 DEF InOrder, OpenedAfter
        <4>5. QED
          BY <2>0, <4>3, <4>4 DEF InOrder
      <3>4. QED
        BY <2>3, <3>2, <3>3 DEF End, SeeEnd, NativeEnd
    <2>4. ASSUME NEW t \in Thread, Error(t) PROVE InOrder'
      <3> DEFINE d == reader[t]
      <3>1. /\ d \in Dataset /\ ~done[d] /\ UNCHANGED <<opened, tail, taken>>
            /\ failed' = [failed EXCEPT ![d] = TRUE]
            /\ done' = done \/ done' = [done EXCEPT ![d] = TRUE]
            /\ pos' = pos \/ pos' = [pos EXCEPT ![d] = @ + 1]
        BY <2>0, <2>4 DEF Error, NativeError
      <3>2. /\ failed \in [Dataset -> BOOLEAN] /\ done \in [Dataset -> BOOLEAN]
            /\ pos \in [Dataset -> 0 .. MaxRows]
        BY DEF Typed, TypeOK
      <3>3. failed'[d]
        BY <3>1, <3>2
      <3>4. ASSUME NEW k \in Dataset, k # d
            PROVE  failed'[k] = failed[k] /\ done'[k] = done[k] /\ pos'[k] = pos[k]
        BY <3>1, <3>2, <3>4
      <3>5. ASSUME NEW k \in Dataset PROVE Counted(k)' /\ Finished(k)'
        BY <2>0, <3>1, <3>3, <3>4 DEF InOrder, Counted, Finished
      <3>6. ASSUME NEW k \in Dataset PROVE OpenedAfter(k)'
        <4>1. k > 1 => k - 1 \in Dataset
          BY DEF DocOK
        <4>2. QED
          BY <3>1, <3>4, <4>1 DEF InOrder, OpenedAfter
      <3>7. QED
        BY <2>0, <3>5, <3>6 DEF InOrder
    <2>5. ASSUME NEW t \in Thread, Chain(t) \/ TailEarly(t) PROVE InOrder'
      <3> DEFINE d == reader[t]
      <3>1. /\ d \in Dataset /\ UNCHANGED <<pos, done, taken, failed>>
            /\ opened' = opened \/ opened' = [opened EXCEPT ![d + 1] = TRUE]
            /\ \/ done[d] /\ tail[d] = "left" /\ tail' = [tail EXCEPT ![d] = "taken"]
               \/ tail' = [tail EXCEPT ![d] = "early"]
        BY <2>0, <2>5 DEF Chain, TailEarly, Onward
      <3>2. /\ opened \in [Dataset -> BOOLEAN] /\ d \in Int
            /\ tail \in [Dataset -> {"left", "taken", "early"}]
        BY <2>0 DEF DocOK, Typed, TypeOK
      <3>3. ASSUME NEW k \in Dataset
            PROVE  /\ tail[k] = "early" => tail'[k] = "early"
                   /\ k = d => done[k] \/ tail'[k] = "early"
        BY <3>1, <3>2
      <3>4. ASSUME NEW k \in Dataset PROVE OpenedAfter(k)'
        <4>1. k > 1 => k - 1 \in Dataset /\ (k = d + 1 => k - 1 = d)
          BY <3>2 DEF DocOK
        <4>2. k # d + 1 => opened'[k] = opened[k]
          BY <3>1, <3>2
        <4>3. QED
          BY <3>1, <3>3, <4>1, <4>2 DEF InOrder, OpenedAfter
      <3>5. ASSUME NEW k \in Dataset PROVE Counted(k)' /\ Finished(k)'
        BY <2>0, <3>1, <3>2, <3>3 DEF InOrder, Counted, Finished
      <3>6. QED
        BY <2>0, <3>4, <3>5 DEF InOrder
    <2>6. CASE UNCHANGED vars
      BY <2>6, SameKeepsInOrder DEF vars
    <2>7. QED
      BY <2>1, <2>2, <2>3, <2>4, <2>5, <2>6 DEF Next, Step
  <1>3. DocOK /\ InOrder => ChainedAfterAll
    <2> SUFFICES ASSUME DocOK, InOrder, NEW k \in Dataset, k > 1, opened[k],
                        ~failed[k - 1], tail[k - 1] # "early"
                 PROVE  taken[k - 1] = [i \in 1 .. Len(doc[k - 1]) |-> i]
      BY DEF ChainedAfterAll
    <2>1. k - 1 \in Dataset
      BY DEF DocOK
    <2>2. done[k - 1]
      BY DEF InOrder, OpenedAfter
    <2>3. pos[k - 1] = Len(doc[k - 1]) /\ taken[k - 1] = [i \in 1 .. pos[k - 1] |-> i]
      BY <2>1, <2>2 DEF InOrder, Counted, Finished
    <2>4. QED
      BY <2>3
  <1>4. QED
    BY <1>1, <1>2, <1>3, DocHolds, TypedHolds, PTL DEF Spec

-------------------------------------------------------------------------------
(* The last row that the first reader handed out is one it is past, and    *)
(* the last one it is past if none failed to parse.                        *)
Abreast ==
    /\ First!Latest \in Nat /\ First!Latest <= pos[1]
    /\ ~failed[1] => First!Latest = pos[1]

LEMMA FirstTakes ==
    ASSUME DocOK, Typed, Abreast, TakeRow(1), doc' = doc, tail' = tail
    PROVE  Abreast' /\ First!Deliver
  <1>0. 1 \in Dataset
    BY DEF DocOK
  <1>1. /\ pos[1] \in Nat /\ pos'[1] = pos[1] + 1 /\ pos'[1] <= Len(doc[1])
        /\ done' = done /\ failed' = failed /\ ~done[1]
    BY <1>0, TakeRowTyped DEF TakeRow
  <1>2. taken[1] \in Seq(Nat) /\ taken'[1] = Append(taken[1], pos'[1])
    BY <1>0, BoundsAssumption DEF Typed, TypeOK, TakeRow
  <1>3. taken'[1] # <<>> /\ taken'[1][Len(taken'[1])] = pos'[1]
    BY <1>1, <1>2
  <1>4. First!Latest' = pos'[1]
    BY <1>3 DEF First!Latest
  <1>5. Abreast'
    BY <1>1, <1>4 DEF Abreast
  <1>6. Len(doc[1]) \in Nat
    BY <1>0, BoundsAssumption DEF DocOK
  <1>7. pos'[1] \in First!Latest + 1 .. Len(doc[1]) /\ (failed[1] \/ pos'[1] = First!Latest + 1)
    BY <1>1, <1>6 DEF Abreast
  <1>8. QED
    BY <1>1, <1>2, <1>5, <1>7 DEF First!Deliver

(* The first reader is a stream of its dataset's rows: RowStream, which    *)
(* says what pulling rows promises, is implemented.                        *)
THEOREM FirstIsAStream == Spec => FirstStream
  <1>1. DocOK /\ Typed /\ Init => Abreast /\ First!Init
    <2> SUFFICES ASSUME DocOK, Typed, Init PROVE Abreast /\ First!Init
      OBVIOUS
    <2>1. 1 \in Dataset
      BY DEF DocOK
    <2>2. /\ taken[1] = <<>> /\ pos[1] = 0 /\ failed[1] = FALSE /\ done[1] = FALSE
          /\ tail[1] = "left"
      BY <2>1 DEF Init
    <2>3. Len(doc[1]) \in 0 .. MaxRows
      BY <2>1 DEF DocOK
    <2>4. QED
      BY <2>2, <2>3 DEF Abreast, First!Init, First!Latest
  <1>2. DocOK /\ Typed /\ Typed' /\ Abreast /\ [Next]_vars => Abreast' /\ [First!Next]_First!vars
    <2> SUFFICES ASSUME DocOK, Typed, Typed', Abreast, [Next]_vars
                 PROVE  Abreast' /\ [First!Next]_First!vars
      OBVIOUS
    <2>0. /\ doc' = doc /\ 1 \in Dataset
          /\ \A t \in Thread : reader[t] \in Dataset
      BY DocStays DEF DocOK, Typed, TypeOK
    <2>1. CASE /\ pos'[1] = pos[1] /\ taken'[1] = taken[1]
               /\ done'[1] = done[1] /\ failed'[1] = failed[1] /\ tail'[1] = tail[1]
      BY <2>0, <2>1 DEF Abreast, First!vars, First!Latest
    <2>2. ASSUME NEW t \in Thread, Pull(t) \/ Scan(t)
          PROVE  Abreast' /\ [First!Next]_First!vars
      <3>1. CASE reader[t] = 1
        BY <2>0, <2>2, <3>1, FirstTakes DEF Pull, Scan, First!Next
      <3>2. CASE reader[t] # 1
        <4>1. TakeRow(reader[t])
          BY <2>2 DEF Pull, Scan
        <4>2. /\ pos' = [pos EXCEPT ![reader[t]] = pos[reader[t]] + 1]
              /\ done' = done /\ failed' = failed
          BY <2>0, <4>1, TakeRowTyped
        <4>3. taken' = [taken EXCEPT ![reader[t]] = Append(@, pos'[reader[t]])]
          BY <4>1 DEF TakeRow
        <4>4. pos \in [Dataset -> 0 .. MaxRows] /\ taken \in [Dataset -> Seq(1 .. MaxRows)]
          BY DEF Typed, TypeOK
        <4>5. QED
          BY <2>0, <2>1, <2>2, <3>2, <4>2, <4>3, <4>4 DEF Pull, Scan
      <3>3. QED
        BY <3>1, <3>2
    <2>3. ASSUME NEW t \in Thread, Bind(t) \/ BindFails(t) \/ Follow(t)
          PROVE  Abreast' /\ [First!Next]_First!vars
      BY <2>1, <2>3 DEF Bind, BindFails, Follow
    <2>30. ASSUME NEW t \in Thread, Chain(t) \/ TailEarly(t)
           PROVE  Abreast' /\ [First!Next]_First!vars
      <3>1. /\ UNCHANGED <<doc, pos, taken, done, failed>>
            /\ tail \in [Dataset -> {"left", "taken", "early"}]
            /\ tail[reader[t]] = "left"
        BY <2>30 DEF Chain, TailEarly, Typed, TypeOK
      <3>2. CASE Chain(t)
        <4>1. tail'[1] = "early" <=> tail[1] = "early"
          BY <2>0, <3>1, <3>2 DEF Chain
        <4>2. QED
          BY <3>1, <4>1 DEF Abreast, First!vars, First!Latest
      <3>3. CASE TailEarly(t) /\ reader[t] = 1
        <4>1. tail'[1] = "early" /\ ~done[1]
          BY <2>0, <3>1, <3>3 DEF TailEarly
        <4>2. QED
          BY <3>1, <4>1 DEF Abreast, First!Next, First!Cut, First!Latest
      <3>4. CASE TailEarly(t) /\ reader[t] # 1
        <4>1. tail'[1] = tail[1]
          BY <2>0, <3>1, <3>4 DEF TailEarly
        <4>2. QED
          BY <2>1, <3>1, <4>1
      <3>5. QED
        BY <2>30, <3>2, <3>3, <3>4
    <2>4. ASSUME NEW t \in Thread, End(t) PROVE Abreast' /\ [First!Next]_First!vars
      <3>1. UNCHANGED <<pos, tail, taken, failed>> /\ done \in [Dataset -> BOOLEAN]
        BY <2>4 DEF End, SeeEnd, NativeEnd, Typed, TypeOK
      <3>2. CASE done'[1] = done[1]
        BY <2>1, <3>1, <3>2
      <3>3. CASE done'[1] # done[1]
        <4>1. done'[1] /\ (pos[1] = Len(doc[1]) \/ tail[1] = "early")
          BY <2>0, <2>4, <3>1, <3>3 DEF End, SeeEnd, NativeEnd
        <4>2. Abreast' /\ (failed[1] \/ tail[1] = "early" \/ First!Latest = Len(doc[1]))
          BY <3>1, <4>1 DEF Abreast, First!Latest
        <4>3. done'[1] = TRUE
          BY <2>0, <4>1 DEF Typed, TypeOK
        <4>4. QED
          BY <2>0, <3>1, <4>2, <4>3 DEF First!Next, First!Finish
      <3>4. QED
        BY <3>2, <3>3
    <2>5. ASSUME NEW t \in Thread, Error(t) PROVE Abreast' /\ [First!Next]_First!vars
      <3>1. /\ UNCHANGED <<taken, tail>> /\ NativeError(reader[t]) /\ ~done[reader[t]]
            /\ pos[reader[t]] < Len(doc[reader[t]]) \/ tail[reader[t]] = "early"
        BY <2>5 DEF Error, NativeError
      <3>2. /\ pos'[1] \in Nat /\ pos[1] <= pos'[1] /\ done' \in [Dataset -> BOOLEAN]
            /\ failed' = [failed EXCEPT ![reader[t]] = TRUE]
            /\ failed \in [Dataset -> BOOLEAN] /\ done \in [Dataset -> BOOLEAN]
            /\ pos \in [Dataset -> 0 .. MaxRows]
        <4>1. /\ failed \in [Dataset -> BOOLEAN] /\ done \in [Dataset -> BOOLEAN]
              /\ pos \in [Dataset -> 0 .. MaxRows]
          BY DEF Typed, TypeOK
        <4>2. /\ pos' \in [Dataset -> 0 .. MaxRows] /\ pos[1] <= pos'[1]
              /\ done' \in [Dataset -> BOOLEAN]
              /\ failed' = [failed EXCEPT ![reader[t]] = TRUE]
          BY <2>0, <3>1, ErrorTyped
        <4>3. pos'[1] \in Nat
          BY <2>0, <4>2, BoundsAssumption
        <4>4. QED
          BY <4>1, <4>2, <4>3
      <3>3. CASE reader[t] # 1
        <4>1. /\ pos' = pos \/ pos' = [pos EXCEPT ![reader[t]] = pos[reader[t]] + 1]
              /\ done' = done \/ done' = [done EXCEPT ![reader[t]] = TRUE]
          BY <3>1 DEF NativeError
        <4>2. pos'[1] = pos[1] /\ done'[1] = done[1] /\ failed'[1] = failed[1]
          BY <2>0, <3>2, <3>3, <4>1
        <4>3. QED
          BY <2>1, <3>1, <4>2
      <3>4. CASE reader[t] = 1
        <4>1. failed'[1] = TRUE /\ done'[1] \in BOOLEAN /\ ~done[1]
          BY <2>0, <3>1, <3>2, <3>4
        <4>2. First!Latest' = First!Latest
          BY <3>1 DEF First!Latest
        <4>3. Len(doc[1]) \in Nat /\ pos[1] \in Nat
          <5>1. Len(doc[1]) \in 0 .. MaxRows /\ pos[1] \in 0 .. MaxRows
            BY <2>0, <3>2 DEF DocOK
          <5>2. QED
            BY <5>1, BoundsAssumption
        <4>4. First!Latest < Len(doc[1]) \/ tail[1] = "early"
          BY <3>1, <3>4, <4>3 DEF Abreast
        <4>5. Abreast'
          BY <3>2, <4>1, <4>2, <4>3 DEF Abreast
        <4>6. QED
          BY <2>0, <3>1, <4>1, <4>4, <4>5 DEF First!Next, First!Break
      <3>5. QED
        BY <3>3, <3>4
    <2>6. CASE UNCHANGED vars
      BY <2>1, <2>6 DEF vars
    <2>7. QED
      BY <2>2, <2>3, <2>30, <2>4, <2>5, <2>6 DEF Next, Step
  <1>3. QED
    BY <1>1, <1>2, DocHolds, TypedHolds, PTL DEF Spec, FirstStream, First!Spec

-------------------------------------------------------------------------------
(* A thread's message is of its reader's dataset or an earlier one, and    *)
(* the row it is binding is later than the one it holds.                   *)
Ahead ==
    \A t \in Thread :
        /\ msg[t][1] <= reader[t]
        /\ pc[t] = "bind" => Later(msg[t], <<reader[t], row[t]>>)

(* A consumer's message only moves forward through the document.           *)
THEOREM MessagesMoveForward == Spec => RowsMoveForward
  <1>1. DocOK /\ Init => Ahead
    <2> SUFFICES ASSUME DocOK, Init, NEW t \in Thread
                 PROVE  msg[t][1] <= reader[t] /\ pc[t] # "bind"
      BY DEF Ahead
    <2>1. msg[t] = <<0, 0>> /\ reader[t] = 1 /\ pc[t] = "idle"
      BY DEF Init
    <2>2. QED
      BY <2>1
  <1>2. DocOK /\ Typed /\ Typed' /\ Owned /\ Ahead /\ [Next]_vars
            => Ahead' /\ \A t \in Thread : msg'[t] # msg[t] => Later(msg[t], msg'[t])
    <2> SUFFICES ASSUME DocOK, Typed, Typed', Owned, Ahead, [Next]_vars
                 PROVE  Ahead' /\ \A t \in Thread : msg'[t] # msg[t] => Later(msg[t], msg'[t])
      OBVIOUS
    <2> DEFINE Goal == Ahead' /\ \A t \in Thread : msg'[t] # msg[t] => Later(msg[t], msg'[t])
    <2>0. \A t \in Thread : /\ reader[t] \in Dataset /\ reader[t] \in Nat /\ row[t] \in Nat
                            /\ msg[t][1] \in Nat /\ msg[t][2] \in Nat
      BY BoundsAssumption DEF DocOK, Typed, TypeOK
    <2>1. CASE UNCHANGED <<reader, pc, row, msg>>
      BY <2>1 DEF Ahead
    <2>2. ASSUME NEW t \in Thread, Scan(t) PROVE Goal
      <3>1. /\ UNCHANGED <<reader, msg>> /\ TakeRow(reader[t])
            /\ row' = [row EXCEPT ![t] = pos'[reader[t]]]
            /\ pc' = [pc EXCEPT ![t] = "bind"]
        BY <2>2 DEF Scan
      <3>2. pos[reader[t]] \in Nat /\ pos'[reader[t]] = pos[reader[t]] + 1
        BY <2>0, <3>1, TakeRowTyped
      <3>3. row'[t] = pos[reader[t]] + 1
            /\ \A u \in Thread : u # t => row'[u] = row[u] /\ pc'[u] = pc[u]
        BY <3>1, <3>2 DEF Typed, TypeOK
      <3>4. msg[t][1] = reader[t] => msg[t][2] <= pos[reader[t]]
        BY <2>0 DEF Owned, Past
      <3>5. Later(msg[t], <<reader[t], row'[t]>>)
        BY <2>0, <3>2, <3>3, <3>4 DEF Ahead, Later
      <3>6. QED
        BY <3>1, <3>3, <3>5 DEF Ahead
    <2>3. ASSUME NEW t \in Thread, Bind(t) PROVE Goal
      <3>1. /\ pc[t] = "bind" /\ UNCHANGED <<reader, row>>
            /\ msg'[t] = <<reader[t], row[t]>> /\ pc'[t] = "idle"
            /\ \A u \in Thread : u # t => msg'[u] = msg[u] /\ pc'[u] = pc[u]
        BY <2>3 DEF Bind, Typed, TypeOK
      <3>2. Later(msg[t], msg'[t])
        BY <3>1 DEF Ahead
      <3>3. QED
        BY <2>0, <3>1, <3>2 DEF Ahead
    <2>4. ASSUME NEW t \in Thread, BindFails(t) PROVE Goal
      <3>1. /\ UNCHANGED <<reader, row, msg>>
            /\ \A u \in Thread : pc'[u] = "bind" => pc[u] = "bind"
        BY <2>4 DEF BindFails, Typed, TypeOK
      <3>2. QED
        BY <3>1 DEF Ahead
    <2>5. ASSUME NEW t \in Thread, Chain(t) \/ TailEarly(t) \/ Follow(t) PROVE Goal
      <3>1. /\ pc[t] = "idle" /\ UNCHANGED <<pc, row, msg>>
            /\ reader' = reader \/ reader' = [reader EXCEPT ![t] = reader[t] + 1]
        BY <2>5 DEF Chain, TailEarly, Onward, Follow
      <3>2. ASSUME NEW u \in Thread
            PROVE  (reader'[u] = reader[u] \/ reader'[u] = reader[u] + 1)
                   /\ (u # t => reader'[u] = reader[u])
        BY <3>1 DEF Typed, TypeOK
      <3>3. ASSUME NEW u \in Thread PROVE msg[u][1] <= reader'[u]
        <4>1. msg[u][1] <= reader[u] /\ msg[u][1] \in Nat /\ reader[u] \in Nat
          BY <2>0 DEF Ahead
        <4>2. QED
          BY <3>2, <4>1
      <3>4. ASSUME NEW u \in Thread, pc[u] = "bind"
            PROVE  Later(msg[u], <<reader'[u], row[u]>>)
        BY <3>1, <3>2, <3>4 DEF Ahead
      <3>5. QED
        BY <3>1, <3>3, <3>4 DEF Ahead
    <2>6. QED
      BY <2>1, <2>2, <2>3, <2>4, <2>5 DEF Next, Step, vars, Pull, End, Error
  <1>3. QED
    BY <1>1, <1>2, DocHolds, TypedHolds, OwnedHolds, PTL DEF Spec, RowsMoveForward
===============================================================================
