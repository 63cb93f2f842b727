--------------------------------- MODULE Wire ---------------------------------
(***************************************************************************)
(* The integers of envelope.py on the wire: varint, int32 and zig-zag.     *)
(* Python integers have no width; the code puts the widths in by hand.     *)
(* Base and Word scale 2^7 and 2^64 down: a byte is a digit of base Base,  *)
(* plus Base when more digits follow.                                      *)
(***************************************************************************)
EXTENDS Integers, Sequences

CONSTANTS Base,   \* 2^7
          Groups, \* the bytes _dec_varint reads at most, 10
          Word,   \* 2^64
          Int32   \* 2^32

(* What a digit is worth: 1 << shift. *)
Place[g \in 0 .. Groups] == IF g = 0 THEN 1 ELSE Base * Place[g - 1]

(* The last of the bytes is needed for the word, and reaches past it.      *)
ASSUME WidthAssumption ==
    /\ {Base, Groups, Word, Int32} \subseteq Nat \ {0} /\ Base > 1
    /\ Place[Groups - 1] < Word /\ Word <= Place[Groups]
    /\ Int32 < Word /\ Int32 % 2 = 0 /\ Word % 2 = 0

Int32Range == -(Int32 \div 2) .. Int32 \div 2 - 1

(* while v >= 0x80: a digit and "more"; v & 0x7F is what is left over, for *)
(* a negative v as well.                                                   *)
EncVarint[v \in Int] ==
    IF v >= Base THEN <<Base + (v % Base)>> \o EncVarint[v \div Base]
                 ELSE <<v % Base>>

Bad == [ok |-> FALSE]
Got(v, i) == [ok |-> TRUE, v |-> v, i |-> i]

(* Variant: & 0x7F is left out. *)
DecVarintUnmasked(buf, from, n) ==
    LET read[g \in 0 .. Groups] ==
            LET i == from + g IN
            IF i > n \/ g = Groups THEN Bad
            ELSE IF buf[i] < Base THEN Got(buf[i] * Place[g], i + 1)
            ELSE LET rest == read[g + 1]
                 IN  IF rest.ok THEN Got(rest.v + buf[i] * Place[g], rest.i) ELSE Bad
    IN  read[0]

(* The number at index from of buf, whose last index is n, and the index   *)
(* after it; g digits are read.  A ValueError when the bytes end first     *)
(* ("truncated varint") or when the shift passes 63 ("varint overflow").   *)
DecVarint(buf, from, n) ==
    LET read[g \in 0 .. Groups] ==
            LET i == from + g IN
            IF i > n \/ g = Groups THEN Bad
            ELSE IF buf[i] < Base THEN Got(buf[i] * Place[g], i + 1)
            ELSE LET rest == read[g + 1]
                 IN  IF rest.ok THEN Got(rest.v + (buf[i] - Base) * Place[g], rest.i) ELSE Bad
    IN  read[0]

(* Variant: a negative number is written as it is. *)
Int32WordUnsigned(v) == v

(* The word that stands for a status: v &= 2^64 - 1 when it is negative.   *)
Int32Word(v) == IF v < 0 THEN v % Word ELSE v

(* A decoded word as a number. *)
DecInt32(w) == IF w >= Word \div 2 THEN w - Word ELSE w

(* (v << 1) ^ (v >> 63) & 2^64-1: a negative v has all ones on the right,  *)
(* and the exclusive or then turns the 64 low bits of 2v around, leaving   *)
(* the sign, which no mask takes away.                                     *)
EncZigzag(v) == IF v >= 0 THEN 2 * v ELSE -(2 * v) - 1 - Word

(* (v >> 1) ^ -(v & 1) *)
DecZigzag(w) == IF w % 2 = 0 THEN w \div 2 ELSE -(w \div 2) - 1
===============================================================================
