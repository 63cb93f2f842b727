-------------------------------- MODULE Zigzag --------------------------------
(***************************************************************************)
(* A number written by _enc_sint32 of envelope.py and read with            *)
(* _dec_varint and _dec_zigzag64.  No message of the package has a field   *)
(* of this kind.                                                           *)
(***************************************************************************)
EXTENDS Wire

VARIABLES number, \* the number to write
          bytes,  \* what is on the wire after the tag
          result  \* what was read

Nothing == <<>>
vars == <<number, bytes, result>>

(* A zero is left out. *)
Init ==
    /\ number \in Int32Range \ {0}
    /\ bytes = <<>>
    /\ result = Nothing

Encode ==
    /\ bytes = <<>>
    /\ bytes' = EncVarint[EncZigzag(number)]
    /\ UNCHANGED <<number, result>>

Decode ==
    /\ bytes # <<>>
    /\ LET word == DecVarint(bytes, 1, Len(bytes)) IN
       result' = IF word.ok THEN [word EXCEPT !.v = DecZigzag(@)] ELSE Bad
    /\ UNCHANGED <<number, bytes>>

Next == Encode \/ Decode

Spec == Init /\ [][Next]_vars
-------------------------------------------------------------------------------
(* envelope.py:71: "Signed int32 with zig-zag encoding": every number      *)
(* reads back.                                                             *)
ZigzagReadsBack == result # Nothing => result.ok /\ result.v = number
===============================================================================
