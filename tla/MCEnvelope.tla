------------------------------ MODULE MCEnvelope ------------------------------
(* Envelope with real bytes and words of 16 bits, and int32 of 12.         *)
EXTENDS Envelope

Short == <<97>>
Long == <<195, 169>>
Key == <<97, 98>>

MCFieldErrors == {<< <<>>, Short, <<>>, <<>> >>, << Long, <<>>, Short, <<Short, <<>>>> >>}

(* One key is a prefix of another, and one is set to two values.           *)
MCMeta == {<<Key, Short>>, <<Key, <<>>>>, <<Short, Long>>}

SomeAppError == <<Long, <<>>, << <<>>, Short >>, <<>>, <<>>>>

(* A number on both sides of every width.                                  *)
MCMade ==
    {<<status, <<>>, <<>>, <<>>>> :
        status \in {0, -2048, -129, -128, -65, -1, 63, 64, 127, 128, 2047}}
    \union {<<-2, transport, Short, error>> :
        transport \in {<<>>, Long}, error \in {<<>>, <<SomeAppError>>}}
    \union {<<0, <<>>, <<>>, <<New("AppError")>>>>}

(* Field 9 of every wire type, a tag of two bytes, and field 2 with a wire *)
(* type not its own.                                                       *)
MCUnknown ==
    {<<72, 200, 1>>, <<73, 8, 0, 18, 9, 1, 1, 1, 1>>, <<74, 2, 18, 1>>, <<77, 18, 1, 1, 1>>,
     <<130, 1, 1, 18>>, <<16, 5>>}

(* Tags of known fields, of an unknown one and of no wire type there is,   *)
(* small lengths, and bytes with more to follow that make a character.     *)
MCRaw == UNION {[1 .. k -> {0, 2, 8, 15, 18, 34, 169, 195}] : k \in 0 .. 5}
===============================================================================
