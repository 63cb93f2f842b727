-------------------------------- MODULE SbeView --------------------------------
(***************************************************************************)
(* The objects behind sbe.Codec.view: which of them keeps which memory     *)
(* alive (PyView and PyGroupView of module.cc, View and GroupView of       *)
(* sbe.py, which hold their native object and nothing else).               *)
(*                                                                         *)
(* new_view copies the input into a buffer on the heap.  Composites,       *)
(* groups and group entries are derived from a view and share its buffer   *)
(* by a counted pointer; the last holder frees it, and the allocator may   *)
(* hand the address out again.  Python drops any object at any time, in    *)
(* any order: no view refers to the one it was derived from.               *)
(***************************************************************************)
EXTENDS Naturals, FiniteSets

CONSTANTS Codec,    \* sbe.Codec objects
          View,     \* view and group objects
          Message,  \* encoded messages
          Entries,  \* message -> the number of entries of its groups
          MaxIndex, \* bound on the index passed to entry()
          Address,  \* where buffers may be put
          Nothing   \* no message

ASSUME NothingAssumption == Nothing \notin Message

ASSUME EntriesAssumption == Entries \in [Message -> Nat] /\ MaxIndex \in Nat

ASSUME FiniteAssumption == IsFiniteSet(View)

VARIABLES codecs, \* the codecs that exist
          view,   \* view or group -> its fields, "gone" when there is none
          heap,   \* address -> the message stored there
          count,  \* address -> the use count of the buffer there
          raised  \* the exception of the last call, "none" if it returned

vars == <<codecs, view, heap, count, raised>>

Kind == {"view", "group"}
Gone == [kind |-> "gone"]
Live == {v \in View : view[v] # Gone}
Object == [kind : Kind, data : Address, codec : Codec]

Init ==
    /\ codecs = Codec
    /\ view = [v \in View |-> Gone]
    /\ heap = [a \in Address |-> Nothing]
    /\ count = [a \in Address |-> 0]
    /\ raised = "none"

(* Variant: the first holder is not counted. *)
StoreUncounted(a, m) ==
    /\ heap[a] = Nothing
    /\ heap' = [heap EXCEPT ![a] = m]
    /\ UNCHANGED count

(* make_shared: a buffer at an address that is free.                       *)
Store(a, m) ==
    /\ heap[a] = Nothing
    /\ heap' = [heap EXCEPT ![a] = m]
    /\ count' = [count EXCEPT ![a] = 1]

(* Variant: the last holder does not free the buffer. *)
ReleaseLeaks(a) ==
    /\ count' = [count EXCEPT ![a] = @ - 1]
    /\ UNCHANGED heap

(* One holder less; the last one frees the buffer.                         *)
Release(a) ==
    /\ count' = [count EXCEPT ![a] = @ - 1]
    /\ heap' = [heap EXCEPT ![a] = IF count[a] = 1 THEN Nothing ELSE @]

(* codec.view(data): the buffer moves into the new PyView.                 *)
NewView(c, v) ==
    /\ c \in codecs
    /\ view[v] = Gone
    /\ \E a \in Address, m \in Message :
         /\ Store(a, m)
         /\ view' = [view EXCEPT ![v] = [kind |-> "view", data |-> a, codec |-> c]]
    /\ raised' = "none"
    /\ UNCHANGED codecs

(* The codec refuses the data (no template of its own, too long, cut off): *)
(* the buffer is freed on the way out.                                     *)
NewViewFails(c) ==
    /\ c \in codecs
    /\ raised' = "ValueError"
    /\ UNCHANGED <<codecs, view, heap, count>>

(* Variant: the new object borrows v's data without counting itself. *)
DeriveBorrows(v, w, kind) ==
    /\ view[w] = Gone
    /\ view' = [view EXCEPT ![w] = [view[v] EXCEPT !.kind = kind]]
    /\ raised' = "none"
    /\ UNCHANGED <<codecs, heap, count>>

(* A new object w that copies v's pointer to the data.                     *)
Derive(v, w, kind) ==
    /\ view[w] = Gone
    /\ view' = [view EXCEPT ![w] = [view[v] EXCEPT !.kind = kind]]
    /\ count' = [count EXCEPT ![view[v].data] = @ + 1]
    /\ raised' = "none"
    /\ UNCHANGED <<codecs, heap>>

(* view.composite(name) *)
Composite(v, w) == view[v].kind = "view" /\ Derive(v, w, "view")

(* view.group(name) *)
Group(v, w) == view[v].kind = "view" /\ Derive(v, w, "group")

(* group.entry(i) *)
Entry(v, w) ==
    /\ view[v].kind = "group"
    /\ \E i \in 0 .. MaxIndex : i < Entries[heap[view[v].data]]
    /\ Derive(v, w, "view")

(* i >= group_.Len() *)
EntryFails(v) ==
    /\ view[v].kind = "group"
    /\ \E i \in 0 .. MaxIndex : i >= Entries[heap[view[v].data]]
    /\ raised' = "IndexError"
    /\ UNCHANGED <<codecs, view, heap, count>>

(* The last Python reference to v goes away.                               *)
DropView(v) ==
    /\ v \in Live
    /\ view' = [view EXCEPT ![v] = Gone]
    /\ Release(view[v].data)
    /\ UNCHANGED <<codecs, raised>>

(* The last Python reference to a codec goes away.                         *)
DropCodec(c) ==
    /\ c \in codecs
    /\ codecs' = codecs \ {c}
    /\ UNCHANGED <<view, heap, count, raised>>

Next ==
    \/ \E c \in Codec : NewViewFails(c) \/ DropCodec(c) \/ \E v \in View : NewView(c, v)
    \/ \E v \in View : EntryFails(v) \/ DropView(v)
    \/ \E v, w \in View : Composite(v, w) \/ Group(v, w) \/ Entry(v, w)

Spec == Init /\ [][Next]_vars
-------------------------------------------------------------------------------
(* Type invariant. *)
TypeOK ==
    /\ codecs \subseteq Codec
    /\ view \in [View -> Object \union {Gone}]
    /\ heap \in [Address -> Message \union {Nothing}]
    /\ count \in [Address -> Nat]
    /\ raised \in {"none", "ValueError", "IndexError"}

(* sbe.py:19-21: the data stays as long as any view, composite or entry    *)
(* refers to it, and no longer: the count is the number of those alive, so *)
(* the buffer is there exactly when some object needs it.                  *)
Holders(a) == {v \in Live : view[v].data = a}

FreedWithTheLast ==
    \A a \in Address :
        /\ count[a] = Cardinality(Holders(a))
        /\ heap[a] = Nothing <=> Holders(a) = {}

(* Every view reads the message it was made from, whatever else is dropped *)
(* and wherever later buffers are put: it behaves like a copy.             *)
Shows == [v \in View |-> IF v \in Live THEN heap[view[v].data] ELSE Nothing]

Values == INSTANCE ViewValues WITH shows <- Shows

LikeCopies == Values!Spec

-------------------------------------------------------------------------------
(* module.cc:500-502: "The returned PyView keeps the codec [...] alive".   *)
CodecOutlivesViews == \A v \in Live : view[v].codec \in codecs
===============================================================================
