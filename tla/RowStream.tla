------------------------------- MODULE RowStream -------------------------------
(***************************************************************************)
(* What pulling the rows of one dataset promises: each row once, in order, *)
(* none left out; the end is reported when every row has been handed out.  *)
(* A row that breaks the grammar is reported instead; from then on rows    *)
(* may be missing, but never repeated or out of order.  A stream that is   *)
(* cut may also end, or break, before its last row.                        *)
(***************************************************************************)
EXTENDS Naturals, Sequences

CONSTANT MaxRows \* bound on the rows of a dataset

VARIABLES size,      \* how many rows the dataset has
          delivered, \* the rows handed out, by number
          broken,    \* a row was refused
          cut,       \* the rest of the source was taken away
          ended      \* the end was reported

vars == <<size, delivered, broken, cut, ended>>

Latest == IF delivered = <<>> THEN 0 ELSE delivered[Len(delivered)]

Init ==
    /\ size \in 0 .. MaxRows
    /\ delivered = <<>>
    /\ broken = FALSE
    /\ cut = FALSE
    /\ ended = FALSE

Deliver ==
    /\ ~ended
    /\ \E r \in Latest + 1 .. size :
         /\ broken \/ r = Latest + 1
         /\ delivered' = Append(delivered, r)
    /\ UNCHANGED <<size, broken, cut, ended>>

Break ==
    /\ ~ended
    /\ cut \/ Latest < size
    /\ broken' = TRUE
    /\ ended' \in BOOLEAN
    /\ UNCHANGED <<size, delivered, cut>>

Cut ==
    /\ ~ended
    /\ cut' = TRUE
    /\ UNCHANGED <<size, delivered, broken, ended>>

Finish ==
    /\ broken \/ cut \/ Latest = size
    /\ ended' = TRUE
    /\ UNCHANGED <<size, delivered, broken, cut>>

Next == Deliver \/ Break \/ Cut \/ Finish

Spec == Init /\ [][Next]_vars

===============================================================================
