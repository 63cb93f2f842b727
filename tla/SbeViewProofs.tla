---------------------------- MODULE SbeViewProofs ----------------------------
(***************************************************************************)
(* A use count is the number of live holders, so a buffer stays as long as *)
(* it is needed and no longer; and from that, views behave like copies.    *)
(***************************************************************************)
EXTENDS SbeView, FiniteSetTheorems, TLAPS

(* An object is alive when its kind says so.                               *)
LEMMA LiveObjects ==
    ASSUME TypeOK, NEW v \in View
    PROVE  /\ v \in Live => view[v] \in Object
           /\ v \in Live <=> view[v].kind \in Kind
  <1>1. view[v] \in Object \union {Gone}
    BY DEF TypeOK
  <1>2. Gone.kind = "gone" /\ "gone" \notin Kind
    BY DEF Gone, Kind
  <1>3. \A o \in Object : o.kind \in Kind
    BY DEF Object
  <1> QED
    BY <1>1, <1>2, <1>3 DEF Live

(* A holder is counted and its buffer is there; one that is counted as 1   *)
(* is the only one.                                                        *)
LEMMA HoldersAreCounted ==
    ASSUME TypeOK, FreedWithTheLast, NEW v \in Live
    PROVE  /\ view[v].data \in Address
           /\ count[view[v].data] \in Nat \ {0}
           /\ heap[view[v].data] \in Message
           /\ count[view[v].data] = 1 => Holders(view[v].data) = {v}
  <1> DEFINE a == view[v].data
  <1>1. v \in View /\ a \in Address
    BY LiveObjects DEF Live, Object
  <1>2. v \in Holders(a)
    BY DEF Holders
  <1>3. IsFiniteSet(Holders(a))
    BY FiniteAssumption, FS_Subset, Holders(a) \in SUBSET View DEF Holders, Live
  <1>4. Cardinality(Holders(a)) # 0
    BY <1>2, <1>3, FS_EmptySet
  <1>5. count[a] = Cardinality(Holders(a)) /\ heap[a] # Nothing
    BY <1>1, <1>2 DEF FreedWithTheLast
  <1>6. count[a] \in Nat /\ heap[a] \in Message \union {Nothing}
    BY <1>1 DEF TypeOK
  <1>7. ASSUME count[a] = 1 PROVE Holders(a) = {v}
    <2>1. Cardinality(Holders(a)) = 1
      BY <1>5, <1>7
    <2>2. \E x : Holders(a) = {x}
      BY <1>3, <2>1, FS_Singleton
    <2> QED
      BY <1>2, <2>2
  <1> QED
    BY <1>1, <1>4, <1>5, <1>6, <1>7

(* One object more at one address, and the count there goes up by one.     *)
LEMMA OneMore ==
    ASSUME TypeOK, FreedWithTheLast, TypeOK', NEW w \in View, w \notin Live,
           NEW o \in Object, view' = [view EXCEPT ![w] = o],
           count' = [count EXCEPT ![o.data] = @ + 1],
           heap'[o.data] # Nothing,
           \A a \in Address : a # o.data => heap'[a] = heap[a]
    PROVE  FreedWithTheLast'
  <1>1. o.data \in Address /\ o # Gone
    BY DEF Object, Gone, Kind
  <1>2. Live' = Live \union {w}
    BY <1>1 DEF Live, TypeOK
  <1>3. \A u \in View : u # w => view'[u] = view[u]
    BY DEF TypeOK
  <1>4. view'[w] = o
    BY DEF TypeOK
  <1> SUFFICES ASSUME NEW a \in Address
               PROVE  /\ count'[a] = Cardinality(Holders(a)')
                      /\ heap'[a] = Nothing <=> Holders(a)' = {}
    BY DEF FreedWithTheLast, Holders
  <1>5. IsFiniteSet(Holders(a))
    BY FiniteAssumption, FS_Subset, Holders(a) \in SUBSET View DEF Holders, Live
  <1>6. count[a] = Cardinality(Holders(a)) /\ (heap[a] = Nothing <=> Holders(a) = {})
    BY DEF FreedWithTheLast
  <1>7. CASE a = o.data
    <2>1. Holders(a)' = Holders(a) \union {w}
      BY <1>2, <1>3, <1>4, <1>7 DEF Holders, Live
    <2>2. w \notin Holders(a)
      BY DEF Holders
    <2>3. Cardinality(Holders(a) \union {w}) = Cardinality(Holders(a)) + 1
      BY <1>5, <2>2, FS_AddElement
    <2>4. count'[a] = count[a] + 1
      BY <1>7 DEF TypeOK
    <2> QED
      BY <1>6, <1>7, <2>1, <2>3, <2>4
  <1>8. CASE a # o.data
    <2>1. Holders(a)' = Holders(a)
      BY <1>2, <1>3, <1>4, <1>8 DEF Holders, Live
    <2>2. count'[a] = count[a] /\ heap'[a] = heap[a]
      BY <1>8 DEF TypeOK
    <2> QED
      BY <1>6, <2>1, <2>2
  <1> QED
    BY <1>7, <1>8

(* One object less, whose holding is released.                             *)
LEMMA OneLess ==
    ASSUME TypeOK, FreedWithTheLast, TypeOK', NEW v \in View, v \in Live,
           view' = [view EXCEPT ![v] = Gone], Release(view[v].data)
    PROVE  FreedWithTheLast'
  <1>1. view[v].data \in Address /\ heap[view[v].data] # Nothing
    BY HoldersAreCounted, NothingAssumption
  <1>2. Live' = Live \ {v}
    BY DEF Live, TypeOK
  <1>3. \A u \in View : u # v => view'[u] = view[u]
    BY DEF TypeOK
  <1> SUFFICES ASSUME NEW a \in Address
               PROVE  /\ count'[a] = Cardinality(Holders(a)')
                      /\ heap'[a] = Nothing <=> Holders(a)' = {}
    BY DEF FreedWithTheLast, Holders
  <1>4. IsFiniteSet(Holders(a))
    BY FiniteAssumption, FS_Subset, Holders(a) \in SUBSET View DEF Holders, Live
  <1>5. count[a] = Cardinality(Holders(a)) /\ (heap[a] = Nothing <=> Holders(a) = {})
    BY DEF FreedWithTheLast
  <1>6. CASE a = view[v].data
    <2>1. Holders(a)' = Holders(a) \ {v}
      BY <1>2, <1>3 DEF Holders, Live
    <2>2. v \in Holders(a)
      BY <1>6 DEF Holders
    <2>3. Cardinality(Holders(a) \ {v}) = Cardinality(Holders(a)) - 1
      BY <1>4, <2>2, FS_RemoveElement
    <2>4. count'[a] = count[a] - 1
      BY <1>6 DEF TypeOK, Release
    <2>5. heap'[a] = Nothing <=> count[a] = 1
      BY <1>1, <1>6 DEF TypeOK, Release
    <2>6. count[a] = 1 <=> Holders(a)' = {}
      <3>1. count[a] = 1 => Holders(a) = {v}
        BY <1>6, HoldersAreCounted
      <3>2. Holders(a) = {v} => Cardinality(Holders(a)) = 1
        BY FS_Singleton
      <3>3. Holders(a) = {v} <=> Holders(a) \ {v} = {}
        BY <2>2
      <3> QED
        BY <1>5, <2>1, <3>1, <3>2, <3>3
    <2> QED
      BY <1>5, <2>1, <2>3, <2>4, <2>5, <2>6
  <1>7. CASE a # view[v].data
    <2>1. Holders(a)' = Holders(a)
      BY <1>2, <1>3, <1>7 DEF Holders, Live
    <2>2. count'[a] = count[a] /\ heap'[a] = heap[a]
      BY <1>7 DEF TypeOK, Release
    <2> QED
      BY <1>5, <2>1, <2>2
  <1> QED
    BY <1>6, <1>7

-------------------------------------------------------------------------------
(* The inductive invariant: a release is a count above zero only because   *)
(* the counts are exact.                                                   *)
IInv == TypeOK /\ FreedWithTheLast

LEMMA InitIInv == Init => IInv
  <1> SUFFICES ASSUME Init PROVE IInv
    OBVIOUS
  <1>1. TypeOK
    BY DEF Init, TypeOK
  <1>2. Live = {}
    BY DEF Init, Live
  <1>3. \A a \in Address : Holders(a) = {}
    BY <1>2 DEF Holders
  <1> QED
    BY <1>1, <1>3, FS_EmptySet DEF IInv, Init, FreedWithTheLast

(* Making an object of another copies its fields.                          *)
LEMMA DeriveIInv ==
    ASSUME IInv, NEW v \in View, NEW w \in View, NEW k \in Kind,
           view[v].kind \in Kind, Derive(v, w, k)
    PROVE  IInv'
  <1> DEFINE o == [view[v] EXCEPT !.kind = k]
  <1>1. v \in Live /\ view[v] \in Object
    BY LiveObjects DEF IInv
  <1>2. o \in Object /\ o.data = view[v].data
    BY <1>1 DEF Object
  <1>3. view' = [view EXCEPT ![w] = o] /\ w \notin Live
    BY DEF Derive, Live
  <1>4. count' = [count EXCEPT ![o.data] = @ + 1] /\ UNCHANGED <<codecs, heap>>
    BY <1>2 DEF Derive
  <1>5. heap[o.data] \in Message
    BY <1>1, <1>2, HoldersAreCounted DEF IInv
  <1>6. TypeOK'
    <2>1. view' \in [View -> Object \union {Gone}]
      BY <1>2, <1>3 DEF IInv, TypeOK
    <2>2. count' \in [Address -> Nat]
      <3>1. o.data \in Address
        BY <1>2 DEF Object
      <3>2. count \in [Address -> Nat]
        BY DEF IInv, TypeOK
      <3> HIDE DEF o
      <3> QED
        BY <1>4, <3>1, <3>2
    <2> QED
      BY <1>4, <2>1, <2>2 DEF IInv, TypeOK, Derive
  <1>7. FreedWithTheLast'
    BY <1>2, <1>3, <1>4, <1>5, <1>6, NothingAssumption, OneMore DEF IInv
  <1> QED
    BY <1>6, <1>7 DEF IInv

LEMMA StepIInv == IInv /\ [Next]_vars => IInv'
  <1> SUFFICES ASSUME IInv, [Next]_vars PROVE IInv'
    OBVIOUS
  <1>1. ASSUME NEW c \in Codec, NEW v \in View, NewView(c, v) PROVE IInv'
    <2>1. PICK a \in Address, m \in Message :
            /\ Store(a, m)
            /\ view' = [view EXCEPT ![v] = [kind |-> "view", data |-> a, codec |-> c]]
      BY <1>1 DEF NewView
    <2> DEFINE o == [kind |-> "view", data |-> a, codec |-> c]
    <2>2. o \in Object /\ o.data = a
      BY DEF Object, Kind
    <2>3. v \notin Live
      BY <1>1 DEF NewView, Live
    <2>4. count[a] = 0
      BY <2>1, FS_EmptySet DEF IInv, FreedWithTheLast, Store
    <2>5. count' = [count EXCEPT ![o.data] = @ + 1]
      BY <2>1, <2>4 DEF Store, IInv, TypeOK
    <2>6. heap'[a] = m /\ \A b \in Address : b # a => heap'[b] = heap[b]
      BY <2>1 DEF Store, IInv, TypeOK
    <2>7. TypeOK'
      <3>1. view' \in [View -> Object \union {Gone}]
        BY <2>1, <2>2 DEF IInv, TypeOK
      <3>2. heap' \in [Address -> Message \union {Nothing}] /\ count' \in [Address -> Nat]
        BY <2>1 DEF IInv, TypeOK, Store
      <3> QED
        BY <1>1, <3>1, <3>2 DEF IInv, TypeOK, NewView
    <2>8. FreedWithTheLast'
      BY <2>1, <2>2, <2>3, <2>5, <2>6, <2>7, NothingAssumption, OneMore DEF IInv
    <2> QED
      BY <2>7, <2>8 DEF IInv
  <1>2. ASSUME NEW v \in View, NEW w \in View,
               Composite(v, w) \/ Group(v, w) \/ Entry(v, w)
        PROVE  IInv'
    <2>1. view[v].kind \in Kind
      BY <1>2 DEF Composite, Group, Entry, Kind
    <2>2. Derive(v, w, "view") \/ Derive(v, w, "group")
      BY <1>2 DEF Composite, Group, Entry
    <2> QED
      BY <2>1, <2>2, DeriveIInv DEF Kind
  <1>3. ASSUME NEW v \in View, DropView(v) PROVE IInv'
    <2>1. view' = [view EXCEPT ![v] = Gone] /\ Release(view[v].data) /\ v \in Live
      BY <1>3 DEF DropView
    <2>2. view[v].data \in Address /\ count[view[v].data] \in Nat \ {0}
      BY <2>1, HoldersAreCounted DEF IInv
    <2>3. TypeOK'
      <3>1. view' \in [View -> Object \union {Gone}]
        BY <2>1 DEF IInv, TypeOK
      <3>2. count' \in [Address -> Nat]
        BY <2>1, <2>2 DEF IInv, TypeOK, Release
      <3>3. heap' \in [Address -> Message \union {Nothing}]
        BY <2>1, <2>2 DEF IInv, TypeOK, Release
      <3> QED
        BY <1>3, <3>1, <3>2, <3>3 DEF IInv, TypeOK, DropView
    <2> QED
      BY <2>1, <2>3, OneLess DEF IInv
  <1>4. ASSUME NEW c \in Codec, DropCodec(c) PROVE IInv'
    <2>1. UNCHANGED <<view, heap, count, raised>> /\ codecs' \subseteq codecs
      BY <1>4 DEF DropCodec
    <2> QED
      BY <2>1 DEF IInv, TypeOK, FreedWithTheLast, Holders, Live
  <1>5. ASSUME UNCHANGED <<codecs, view, heap, count>>, raised' \in {raised, "ValueError", "IndexError"}
        PROVE  IInv'
    BY <1>5 DEF IInv, TypeOK, FreedWithTheLast, Holders, Live
  <1>6. ASSUME NEW c \in Codec, NewViewFails(c) PROVE IInv'
    BY <1>5, <1>6 DEF NewViewFails
  <1>7. ASSUME NEW v \in View, EntryFails(v) PROVE IInv'
    BY <1>5, <1>7 DEF EntryFails
  <1>8. CASE UNCHANGED vars
    BY <1>5, <1>8 DEF vars
  <1> QED
    BY <1>1, <1>2, <1>3, <1>4, <1>6, <1>7, <1>8 DEF Next

LEMMA IInvHolds == Spec => []IInv
  BY InitIInv, StepIInv, PTL DEF Spec

(* Type correctness; the counts never go below zero.                       *)
THEOREM TypeCorrect == Spec => []TypeOK
  <1>1. IInv => TypeOK
    BY DEF IInv
  <1> QED
    BY <1>1, IInvHolds, PTL

(* A buffer is there exactly as long as some view needs it.                *)
THEOREM CountsAreExact == Spec => []FreedWithTheLast
  <1>1. IInv => FreedWithTheLast
    BY DEF IInv
  <1> QED
    BY <1>1, IInvHolds, PTL
-------------------------------------------------------------------------------
(* What an object shows, one by one.                                       *)
LEMMA ShownOf ==
    ASSUME IInv, NEW v \in View
    PROVE  /\ v \in Live => Shows[v] = heap[view[v].data] /\ Shows[v] # Nothing
           /\ v \notin Live => Shows[v] = Nothing
  <1>1. v \in Live => heap[view[v].data] # Nothing
    BY HoldersAreCounted, NothingAssumption DEF IInv
  <1> QED
    BY <1>1 DEF Shows

(* Deriving an object shows one message more often.                        *)
LEMMA DeriveShows ==
    ASSUME IInv, NEW v \in View, NEW w \in View, NEW k \in Kind,
           view[v].kind \in Kind, Derive(v, w, k)
    PROVE  Values!Derive(v, w)
  <1> DEFINE o == [view[v] EXCEPT !.kind = k]
  <1>1. v \in Live /\ view[v] \in Object
    BY LiveObjects DEF IInv
  <1>2. o \in Object /\ o.data = view[v].data /\ o # Gone
    BY <1>1 DEF Object, Gone, Kind
  <1>3. view' = [view EXCEPT ![w] = o] /\ heap' = heap /\ w \notin Live
    BY DEF Derive, Live
  <1>4. view \in [View -> Object \union {Gone}]
    BY DEF IInv, TypeOK
  <1>5. view'[w] = o /\ \A u \in View : u # w => view'[u] = view[u]
    BY <1>3, <1>4
  <1>6. Live' = Live \union {w}
    BY <1>2, <1>5 DEF Live
  <1>7. Shows'[w] = Shows[v] /\ \A u \in View : u # w => Shows'[u] = Shows[u]
    <2>1. heap'[view'[w].data] = heap[view[v].data]
      BY <1>2, <1>3, <1>5
    <2>2. ASSUME NEW u \in View, u # w
          PROVE  (u \in Live' <=> u \in Live) /\ heap'[view'[u].data] = heap[view[u].data]
      BY <1>3, <1>5, <1>6, <2>2
    <2> QED
      BY <1>1, <1>6, <2>1, <2>2 DEF Shows
  <1>8. Shows' = [Shows EXCEPT ![w] = Shows[v]]
    BY <1>7 DEF Shows
  <1> QED
    BY <1>1, <1>3, <1>8, ShownOf DEF Values!Derive, Values!New

(* Every step is one of the abstract specification's, or shows no change.  *)
LEMMA StepShows == IInv /\ [Next]_vars => [Values!Next]_Shows
  <1> SUFFICES ASSUME IInv, [Next]_vars PROVE Values!Next \/ UNCHANGED Shows
    OBVIOUS
  <1> view \in [View -> Object \union {Gone}]
    BY DEF IInv, TypeOK
  <1>1. ASSUME NEW c \in Codec, NEW v \in View, NewView(c, v) PROVE Values!Next
    <2>1. PICK a \in Address, m \in Message :
            /\ Store(a, m)
            /\ view' = [view EXCEPT ![v] = [kind |-> "view", data |-> a, codec |-> c]]
      BY <1>1 DEF NewView
    <2> DEFINE o == [kind |-> "view", data |-> a, codec |-> c]
    <2>2. o # Gone /\ o.data = a
      BY DEF Gone
    <2>3. v \notin Live
      BY <1>1 DEF NewView, Live
    <2>4. view'[v] = o /\ \A u \in View : u # v => view'[u] = view[u]
      BY <2>1
    <2>5. Live' = Live \union {v}
      BY <2>2, <2>4 DEF Live
    <2>6. \A u \in Live : view[u].data # a
      BY <2>1 DEF IInv, FreedWithTheLast, Store, Holders
    <2>7. heap'[a] = m /\ \A b \in Address : b # a => heap'[b] = heap[b]
      BY <2>1 DEF Store, IInv, TypeOK
    <2>8. \A u \in Live : view[u].data \in Address
      BY HoldersAreCounted DEF IInv
    <2>9. Shows'[v] = m /\ \A u \in View : u # v => Shows'[u] = Shows[u]
      BY <2>2, <2>4, <2>5, <2>6, <2>7, <2>8 DEF Shows
    <2>10. Shows' = [Shows EXCEPT ![v] = m]
      BY <2>9 DEF Shows
    <2> QED
      BY <2>3, <2>10, ShownOf DEF Values!Next, Values!New
  <1>2. ASSUME NEW v \in View, NEW w \in View,
               Composite(v, w) \/ Group(v, w) \/ Entry(v, w)
        PROVE  Values!Next
    <2>1. view[v].kind \in Kind
      BY <1>2 DEF Composite, Group, Entry, Kind
    <2>2. Derive(v, w, "view") \/ Derive(v, w, "group")
      BY <1>2 DEF Composite, Group, Entry
    <2>3. Values!Derive(v, w)
      BY <2>1, <2>2, DeriveShows DEF Kind
    <2> QED
      BY <2>3 DEF Values!Next
  <1>3. ASSUME NEW v \in View, DropView(v) PROVE Values!Next
    <2>1. view' = [view EXCEPT ![v] = Gone] /\ Release(view[v].data) /\ v \in Live
      BY <1>3 DEF DropView
    <2>2. Live' = Live \ {v} /\ \A u \in View : u # v => view'[u] = view[u]
      BY <2>1 DEF Live
    <2>3. ASSUME NEW u \in Live, u # v PROVE heap'[view[u].data] = heap[view[u].data]
      <3>1. view[v].data = view[u].data => count[view[v].data] # 1
        BY <2>1, <2>3, HoldersAreCounted DEF IInv, Holders
      <3>2. view[u].data \in Address
        BY HoldersAreCounted DEF IInv
      <3> QED
        BY <2>1, <3>1, <3>2 DEF Release, IInv, TypeOK
    <2>4. Shows'[v] = Nothing /\ \A u \in View : u # v => Shows'[u] = Shows[u]
      BY <2>2, <2>3 DEF Shows, Live
    <2>5. Shows' = [Shows EXCEPT ![v] = Nothing]
      BY <2>4 DEF Shows
    <2> QED
      BY <2>1, <2>5, ShownOf DEF Values!Next, Values!Drop, Live
  <1>4. ASSUME UNCHANGED <<view, heap>> PROVE UNCHANGED Shows
    BY <1>4 DEF Shows, Live
  <1>5. ASSUME NEW c \in Codec, NewViewFails(c) \/ DropCodec(c) PROVE UNCHANGED Shows
    BY <1>4, <1>5 DEF NewViewFails, DropCodec
  <1>6. ASSUME NEW v \in View, EntryFails(v) PROVE UNCHANGED Shows
    BY <1>4, <1>6 DEF EntryFails
  <1>7. CASE UNCHANGED vars
    BY <1>4, <1>7 DEF vars
  <1> QED
    BY <1>1, <1>2, <1>3, <1>5, <1>6, <1>7 DEF Next

(* Shared buffers implement views that are values: no order of deriving    *)
(* and dropping, and no reuse of an address, shows through a view.         *)
THEOREM ViewsAreCopies == Spec => LikeCopies
  <1>1. Init => Values!Init
    BY DEF Init, Values!Init, Shows, Live
  <1> QED
    BY <1>1, IInvHolds, StepShows, PTL DEF Spec, LikeCopies, Values!Spec
==============================================================================
