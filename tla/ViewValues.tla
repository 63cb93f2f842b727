------------------------------ MODULE ViewValues ------------------------------
(***************************************************************************)
(* What a user of sbe views may rely on: a view shows the message it was   *)
(* made from for as long as it lives, as if it had a copy of its own.      *)
(* SbeView.tla implements this module with shared buffers.                 *)
(***************************************************************************)
CONSTANTS View,    \* view and group objects
          Message, \* encoded messages
          Nothing  \* what an object that does not exist shows

VARIABLE shows \* object -> the message it shows

Init == shows = [v \in View |-> Nothing]

New(v, m) == shows[v] = Nothing /\ shows' = [shows EXCEPT ![v] = m]

Derive(v, w) == shows[v] # Nothing /\ New(w, shows[v])

Drop(v) == shows[v] # Nothing /\ shows' = [shows EXCEPT ![v] = Nothing]

Next ==
    \E v \in View :
        \/ \E m \in Message : New(v, m)
        \/ \E w \in View : Derive(v, w)
        \/ Drop(v)

Spec == Init /\ [][Next]_shows

===============================================================================
