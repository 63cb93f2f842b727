------------------------------- MODULE Envelope -------------------------------
(***************************************************************************)
(* The Envelope of envelope.py, with the AppError, the FieldErrors and the *)
(* metadata inside: it is built, encoded, received and decoded.            *)
(*                                                                         *)
(* A message is the tuple of its fields, by number; a string is its UTF-8  *)
(* bytes, an optional or repeated field a sequence, metadata a sequence of *)
(* key and value in the dict's order.  The decoders of the four kinds of   *)
(* message are one loop that differs in the fields it knows; a decoder     *)
(* called for a submessage is a frame on a stack.  The channel             *)
(* hands over the bytes as they were sent, with fields that this version   *)
(* does not know, or cut short; or they are any bytes at all.              *)
(***************************************************************************)
EXTENDS Wire, SequencesExt

CONSTANTS Made,        \* the envelopes as their constructors make them
          FieldErrors, \* what with_field adds
          Meta,        \* what with_meta sets, pairs of a key and a value
          MaxDetails,  \* bounds on both
          MaxMeta,
          Unknown,     \* encodings of fields that no version here reads
          Raw          \* bytes that were not encoded here

VARIABLES sent,    \* the envelope that is built, and then encoded
          how,     \* "built"; its bytes came "whole", "extended", "cut"; "raw": none
          buf,     \* the bytes to decode
          frames,  \* the decoders at work, Envelope.decode first
          outcome  \* "none", "ok" or "ValueError"

state == <<sent, how, buf, frames, outcome>>

(* The fields of each kind of message, by number.                          *)
Fields ==
    [Envelope   |-> <<"int32", "string", "bytes", "AppError">>,
     AppError   |-> <<"string", "string", "strings", "FieldError", "Entry">>,
     FieldError |-> <<"string", "string", "string", "strings">>,
     Entry      |-> <<"string", "string">>]

Message == DOMAIN Fields
WireOf(kind) == IF kind = "int32" THEN 0 ELSE 2
New(type) == [k \in DOMAIN Fields[type] |-> IF Fields[type][k] = "int32" THEN 0 ELSE <<>>]

(* UTF-8, as far as characters of two bytes. *)
IsText(s) ==
    \A k \in DOMAIN s :
        /\ s[k] >= 192 => k < Len(s) /\ s[k + 1] \in 128 .. 191
        /\ s[k] \in 128 .. 191 => k > 1 /\ s[k - 1] >= 192

Byte == 0 .. 2 * Base - 1
String == {s \in Seq(Byte) : IsText(s)}
AFieldError == String \X String \X String \X Seq(String)
AnEntry == String \X String
AnAppError == String \X String \X Seq(String) \X Seq(AFieldError) \X Seq(AnEntry)
AnEnvelope == Int32Range \X String \X Seq(Byte) \X {s \in Seq(AnAppError) : Len(s) <= 1}

-------------------------------------------------------------------------------
Tag(num, wire) == EncVarint[num * 8 + wire]

(* Variant: an empty string of a list is left out like an empty field. *)
DelimitedNonEmpty(num, s) ==
    IF s = <<>> THEN <<>> ELSE Tag(num, 2) \o EncVarint[Len(s)] \o s

Delimited(num, s) == Tag(num, 2) \o EncVarint[Len(s)] \o s

(* encode: a zero or empty field is left out, the elements of a repeated   *)
(* field and a message are written even when they are empty.  A message    *)
(* inside another is encoded first, and written as the bytes it made.      *)
EncodeField(num, kind, value) ==
    CASE kind = "int32" ->
            IF value = 0 THEN <<>> ELSE Tag(num, 0) \o EncVarint[Int32Word(value)]
      [] kind \in {"string", "bytes"} ->
            IF value = <<>> THEN <<>> ELSE Delimited(num, value)
      [] OTHER -> FlattenSeq([k \in DOMAIN value |-> Delimited(num, value[k])])

FieldsOf(type, m) == [k \in DOMAIN m |-> EncodeField(k, Fields[type][k], m[k])]
EncodeEach(type, ms) == [k \in DOMAIN ms |-> FlattenSeq(FieldsOf(type, ms[k]))]

EncodeInside(a) ==
    [a EXCEPT ![4] = EncodeEach("FieldError", @), ![5] = EncodeEach("Entry", @)]
Parts(e) ==
    FieldsOf("Envelope",
             [e EXCEPT ![4] = EncodeEach("AppError", [k \in DOMAIN @ |-> EncodeInside(@[k])])])

(* _skip_field, from where the tag ended; 0 for its ValueErrors.  Fixed    *)
(* fields are not measured.                                                *)
SkipField(b, i, n, wire) ==
    LET prefix == DecVarint(b, i, n) IN
    CASE wire = 0 /\ prefix.ok -> prefix.i
      [] wire = 1 -> i + 8
      [] wire = 2 /\ prefix.ok /\ prefix.i + prefix.v - 1 <= n -> prefix.i + prefix.v
      [] wire = 5 -> i + 4
      [] OTHER -> 0

(* The bytes as sent, with an unknown field before, between or after the   *)
(* known ones, or either without some of the last bytes.                   *)
Received(e, kind) ==
    LET parts == Parts(e) IN
    CASE kind = "whole" -> {FlattenSeq(parts)}
      [] kind = "extended" ->
            {FlattenSeq(InsertAt(parts, k, u)) : k \in 1 .. Len(parts) + 1, u \in Unknown}
      [] kind = "cut" ->
            UNION {{SubSeq(b, 1, k) : k \in 0 .. Len(b) - 1} :
                     b \in {FlattenSeq(parts) \o u : u \in Unknown \union {<<>>}}}
      [] kind = "raw" -> Raw

-------------------------------------------------------------------------------
Frame(type, num, first, last) ==
    [type |-> type, num |-> num, i |-> first, last |-> last, m |-> New(type)]
Top == Last(frames)
OnTop(frame) == [frames EXCEPT ![Len(frames)] = frame]

(* A dict has a key once.  A field of another version is one that this one *)
(* knows how to skip, and no more.                                         *)
ASSUME EnvelopeAssumption ==
    /\ MaxDetails \in Nat /\ MaxMeta \in Nat
    /\ Made \subseteq AnEnvelope /\ FieldErrors \subseteq AFieldError /\ Meta \subseteq AnEntry
    /\ \A e \in Made : \A a \in ToSet(e[4]) :
          /\ Len(a[4]) <= MaxDetails /\ Len(a[5]) <= MaxMeta
          /\ \A j, k \in DOMAIN a[5] : a[5][j][1] = a[5][k][1] => j = k
    /\ Raw \subseteq Seq(Byte) /\ Unknown \subseteq Seq(Byte)
    /\ \A u \in Unknown :
          LET tag == DecVarint(u, 1, Len(u))
              num == tag.v \div 8
              wire == tag.v % 8
          IN  /\ tag.ok
              /\ num \in DOMAIN Fields["Envelope"] => wire # WireOf(Fields["Envelope"][num])
              /\ SkipField(u, tag.i, Len(u), wire) = Len(u) + 1
    /\ \A type \in Message : 8 * Len(Fields[type]) + 7 < Word

Init ==
    /\ sent \in Made
    /\ how = "built"
    /\ buf = <<>> /\ frames = <<>>
    /\ outcome = "none"

(* metadata[key] = value: a key keeps its place.                           *)
Put(metadata, entry) ==
    LET old == {k \in DOMAIN metadata : metadata[k][1] = entry[1]} IN
    IF old = {} THEN Append(metadata, entry)
    ELSE [k \in DOMAIN metadata |-> IF k \in old THEN entry ELSE metadata[k]]

(* with_field and with_meta of the envelope's error.                       *)
WithField ==
    /\ how = "built" /\ sent[4] # <<>> /\ Len(sent[4][1][4]) < MaxDetails
    /\ \E e \in FieldErrors : sent' = [sent EXCEPT ![4][1][4] = Append(@, e)]
    /\ UNCHANGED <<how, buf, frames, outcome>>

WithMeta ==
    /\ how = "built" /\ sent[4] # <<>>
    /\ \E entry \in Meta : sent' = [sent EXCEPT ![4][1][5] = Put(@, entry)]
    /\ Len(sent'[4][1][5]) <= MaxMeta
    /\ UNCHANGED <<how, buf, frames, outcome>>

(* encode, the channel, and a call of decode with what arrives.  Bound: no *)
(* bytes object has as many bytes as the word counts.                      *)
Receive ==
    /\ how = "built"
    /\ Len(FlattenSeq(Parts(sent))) < Word
    /\ how' \in {"whole", "extended", "cut"} \union
               (IF sent = New("Envelope") THEN {"raw"} ELSE {})
    /\ buf' \in Received(sent, how')
    /\ frames' = <<Frame("Envelope", 0, 1, Len(buf'))>>
    /\ UNCHANGED <<sent, outcome>>

(* while i < n: a tag, which a field of the message's may have, and the    *)
(* number after it, which is a value or a length.                          *)
Running == how # "built" /\ outcome = "none" /\ Top.i <= Top.last
TagRead == DecVarint(buf, Top.i, Top.last)
Num == TagRead.v \div 8
WireType == TagRead.v % 8
KindOf == Fields[Top.type][Num]
Known ==
    /\ Num \in DOMAIN Fields[Top.type]
    /\ WireType = WireOf(KindOf)
Prefix == DecVarint(buf, TagRead.i, Top.last)

(* end = i + n is the cursor after a string or a message; the slice up to  *)
(* it stops where the bytes do.                                            *)
End == Prefix.i + Prefix.v
SliceLast == Min({End - 1, Top.last})

(* Variant: the byte at end is taken as well. *)
SliceOneMore == SubSeq(buf, Prefix.i, Min({End, Top.last}))

Slice == SubSeq(buf, Prefix.i, SliceLast)

Decodes == KindOf \in {"string", "strings"} => IsText(Slice)

Reads(kinds) == Running /\ TagRead.ok /\ Known /\ KindOf \in kinds /\ Prefix.ok /\ Decodes

Take(value, i) ==
    /\ frames' = OnTop([Top EXCEPT !.m[Num] = value, !.i = i])
    /\ UNCHANGED <<sent, how, buf, outcome>>

(* v, i = _dec_varint(data, i); out.status = _dec_int32(v) *)
ReadInt32 == Reads({"int32"}) /\ Take(DecInt32(Prefix.v), Prefix.i)

(* _dec_string, _dec_bytes: the last one wins. *)
ReadString == Reads({"string", "bytes"}) /\ Take(Slice, End)

(* out.args.append(v) *)
ReadElement == Reads({"strings"}) /\ Take(Append(Top.m[Num], Slice), End)

(* Variant: the decoder is told where the message should end. *)
EnterUnbounded ==
    /\ Reads(Message)
    /\ frames' = Append(OnTop([Top EXCEPT !.i = End]),
                        Frame(KindOf, Num, Prefix.i, End - 1))
    /\ UNCHANGED <<sent, how, buf, outcome>>

(* sub, i = _dec_bytes(data, i), and a decoder for sub. *)
Enter ==
    /\ Reads(Message)
    /\ frames' = Append(OnTop([Top EXCEPT !.i = End]),
                        Frame(KindOf, Num, Prefix.i, SliceLast))
    /\ UNCHANGED <<sent, how, buf, outcome>>

(* The decoder on top is through: a later error replaces an earlier one.   *)
Return ==
    /\ how # "built" /\ outcome = "none"
    /\ Top.i > Top.last
    /\ \/ /\ Len(frames) = 1
          /\ outcome' = "ok"
          /\ UNCHANGED frames
       \/ /\ Len(frames) > 1
          /\ LET caller == frames[Len(frames) - 1]
                 stored == CASE Top.type = "AppError" -> <<Top.m>>
                             [] Top.type = "FieldError" -> Append(caller.m[Top.num], Top.m)
                             [] Top.type = "Entry" -> Put(caller.m[Top.num], Top.m)
             IN  frames' = Append(SubSeq(frames, 1, Len(frames) - 2),
                                  [caller EXCEPT !.m[Top.num] = stored])
          /\ UNCHANGED outcome
    /\ UNCHANGED <<sent, how, buf>>

(* Variant: the cursor is not moved past a field that is skipped. *)
SkipToHere == Top.i

SkipTo == SkipField(buf, TagRead.i, Top.last, WireType)

Skip ==
    /\ Running
    /\ TagRead.ok
    /\ ~Known
    /\ SkipTo # 0
    /\ frames' = OnTop([Top EXCEPT !.i = SkipTo])
    /\ UNCHANGED <<sent, how, buf, outcome>>

(* A ValueError, from whichever decoder is on top, ends them all.          *)
Refuse ==
    /\ Running
    /\ \/ ~TagRead.ok
       \/ TagRead.ok /\ Known /\ ~Prefix.ok
       \/ TagRead.ok /\ Known /\ Prefix.ok /\ ~Decodes
       \/ TagRead.ok /\ ~Known /\ SkipTo = 0
    /\ outcome' = "ValueError"
    /\ UNCHANGED <<sent, how, buf, frames>>

Decode == ReadInt32 \/ ReadString \/ ReadElement \/ Enter \/ Return \/ Skip \/ Refuse

Next == WithField \/ WithMeta \/ Receive \/ Decode

Spec == Init /\ [][Next]_state

(* A call of decode goes on; nobody has to make one. *)
FairSpec == Spec /\ WF_state(Decode)
-------------------------------------------------------------------------------
(* Type invariant: what comes of the builders is no larger than its bounds.*)
(* Decoders call each other as the messages nest, and each reads bytes     *)
(* that its caller has put behind it.                                      *)
TypeOK ==
    /\ \A e \in ToSet(sent[4]) : Len(e[4]) <= MaxDetails /\ Len(e[5]) <= MaxMeta
    /\ how \in {"built", "whole", "extended", "cut", "raw"}
    /\ outcome \in {"none", "ok", "ValueError"}
    /\ IF how = "built" THEN frames = <<>> ELSE Len(frames) \in 1 .. 3
    /\ frames # <<>> => frames[1].type = "Envelope" /\ frames[1].last = Len(buf)
    /\ \A d \in 2 .. Len(frames) :
          LET caller == frames[d - 1] IN
          /\ Fields[caller.type][frames[d].num] = frames[d].type
          /\ frames[d].last <= caller.last
          /\ frames[d].last < caller.i

(* What is encoded is decoded, fields that are not known make no           *)
(* difference, and neither is ever refused.                                *)
RoundTrip ==
    how \in {"whole", "extended"} /\ outcome # "none" => outcome = "ok" /\ Top.m = sent

(* What is decoded of bytes cut short is part of what was sent: strings    *)
(* may be shorter and fields missing, and nothing is there besides.        *)
PartField(kind, a, b) ==
    CASE kind = "int32" -> a \in {0, b}
      [] kind \in {"string", "bytes"} -> IsPrefix(a, b)
      [] OTHER -> Len(a) <= Len(b) /\ \A k \in DOMAIN a : IsPrefix(a[k], b[k])

PartInside(type, a, b) == \A k \in DOMAIN a : PartField(Fields[type][k], a[k], b[k])

PartOfAppError(a, b) ==
    /\ \A k \in 1 .. 3 : PartField(Fields["AppError"][k], a[k], b[k])
    /\ Len(a[4]) <= Len(b[4])
    /\ \A k \in DOMAIN a[4] : PartInside("FieldError", a[4][k], b[4][k])
    /\ \A k \in DOMAIN a[5] : \E j \in DOMAIN b[5] : PartInside("Entry", a[5][k], b[5][j])

PartOf(a, b) ==
    /\ \A k \in 1 .. 3 : PartField(Fields["Envelope"][k], a[k], b[k])
    /\ Len(a[4]) <= Len(b[4])
    /\ \A k \in DOMAIN a[4] : PartOfAppError(a[4][k], b[4][k])

NothingInvented == how # "raw" /\ outcome = "ok" => PartOf(Top.m, sent)

(* What a varint reads as, said without a loop and of any bytes: the       *)
(* digits up to the first byte without a follower, which must come in time *)
(* (envelope.py:84-98).                                                    *)
Worth(b, from) ==
    LET worth[k \in 0 .. Groups] ==
            IF k = 0 THEN 0 ELSE worth[k - 1] + (b[from + k - 1] % Base) * Place[k - 1]
    IN  worth

ReadsAsDigits(b, from, n, read) ==
    LET lengths == {k \in 1 .. Groups : from + k - 1 <= n}
        more(k) == b[from + k - 1] >= Base
    IN  \/ \E k \in lengths :
              /\ ~more(k) /\ \A j \in 1 .. k - 1 : more(j)
              /\ read = Got(Worth(b, from)[k], from + k)
        \/ (\A k \in lengths : more(k)) /\ read = Bad

BytesReadAsDigits == Running => ReadsAsDigits(buf, Top.i, Top.last, TagRead)

(* A decode that was called ends, whatever the bytes. *)
Ends == how # "built" ~> outcome # "none"

-------------------------------------------------------------------------------
(* tests/test_envelope.py:149: malformed input is a ValueError; what was   *)
(* cut inside a field is malformed.                                        *)
CutInsideIsRefused ==
    how = "cut" /\ outcome = "ok" =>
        \E k \in 0 .. 4 : buf = FlattenSeq(SubSeq(Parts(sent), 1, k))
===============================================================================
