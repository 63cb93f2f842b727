--------------------------------- MODULE Cells ---------------------------------
(***************************************************************************)
(* How the cells of a row reach a message.  DatasetReader.scan and         *)
(* bind_row do not set fields: they write the row as PXF text, one         *)
(* `column = value` line per cell, and have unmarshal read that text back. *)
(*                                                                         *)
(* Text is a sequence of characters.  Those that mean something to the     *)
(* lexer are told apart; the name of a column is one character, and so is  *)
(* a keyword.  A kind whose text is written as it is has a character of    *)
(* its own: digits "1", names "w", times "T".  The fields have presence    *)
(* (wrappers, optional fields, messages).                                  *)
(***************************************************************************)
EXTENDS Naturals, FiniteSets, SequencesExt

CONSTANTS Type,      \* field of the message -> the kind of value it takes
          Required,  \* the fields marked (pxf.required)
          Defaulted, \* the fields with a (pxf.default)
          Columns,   \* the column lists of the datasets
          Cell,      \* field -> the cells a dataset has in that column
          Limits,    \* the limits callers pass, 0 for the default
          DefaultLimits

Field == DOMAIN Type

(* The kinds of CellToPyTuple, those alike to both sides as one: a number  *)
(* is an int or a float, a time a timestamp or a duration.                 *)
RawKind == {"number", "ident", "time"}
ValueKind == RawKind \union {"string", "bool", "bytes"}
Letter == {"quote", "backslash", "newline", "n", "1", "w", "T"}
Char == Letter \union {"b", "=", "null", "true", "false"} \union Field

(* What a value that is no string is made of.                              *)
Sign == [kind \in ValueKind |->
            CASE kind = "ident" -> "w" [] kind = "time" -> "T" [] OTHER -> "1"]

(* A bool is true when it is not empty.                                    *)
Text(kind, s) == [kind |-> kind, text |-> s]
Value == {v \in [kind : ValueKind, text : Seq(Letter)] :
              /\ v.kind # "string" => v.text \in Seq({Sign[v.kind]})
              /\ v.kind = "bool" => Len(v.text) <= 1}
Absent == Text("absent", <<>>)
Null == Text("null", <<>>)
Unset == Null
Limit == [bytes : Nat, digits : Nat]

(* No cell in raw text is empty: a number has a digit.                     *)
Blank == {Text(kind, <<>>) : kind \in RawKind}

ASSUME CellsAssumption ==
    /\ Type \in [Field -> ValueKind] /\ "newline" \notin Field
    /\ Required \subseteq Field /\ Defaulted \subseteq Field \ Required
    /\ \A cols \in Columns : cols \in Seq(Field) /\ IsInjective(cols)
    /\ \A f \in Field : Cell[f] \subseteq (Value \union {Absent, Null}) \ Blank
    /\ Limits \subseteq Limit /\ DefaultLimits \in Limit

VARIABLES columns, \* the reader's columns
          limits,  \* the reader's limits
          pc,      \* "read", "bind", "decode", "load" or "raised"
          by,      \* who binds the row: "scan", or the caller by "hand"
          row,     \* the cells of the row at hand
          body,    \* the text bind_row made of them
          raw,     \* the message decoded from it
          msg,     \* the caller's message
          refusal, \* why the row did not get into it, or "none"
          meant    \* history: what the last row that bound says

vars == <<columns, limits, pc, by, row, body, raw, msg, refusal, meant>>

Effective(l) == [k \in DOMAIN l |-> IF l[k] = 0 THEN DefaultLimits[k] ELSE l[k]]
Exceeds(value, l) == \/ value.kind = "bytes" /\ Len(value.text) > l.bytes
                     \/ value.kind = "number" /\ Len(value.text) > l.digits

Empty == [f \in Field |-> Unset]
Stale == [f \in Field |-> Text(Type[f], <<Sign[Type[f]]>>)]

Init ==
    /\ columns \in Columns
    /\ limits \in Limits
    /\ pc = "read" /\ by = "scan"
    /\ row = <<>> /\ body = <<>>
    /\ raw = Empty
    /\ msg \in {Empty, Stale}
    /\ refusal = "none"
    /\ meant = msg

Refuse(why) == pc' = "raised" /\ refusal' = why

(* The call is over, with what it held.                                    *)
Forget == by' = "scan" /\ row' = <<>> /\ body' = <<>> /\ raw' = Empty /\ refusal' = "none"

(* reader_->Next and RowToList.  The reader applies the default to a bytes *)
(* literal, not its own limit (protowire-cpp#160), and leaves numbers to   *)
(* the binding, which knows the fields.                                    *)
Read ==
    /\ pc = "read"
    /\ \E cells \in [DOMAIN columns -> UNION {Cell[f] : f \in Field}] :
        /\ \A k \in DOMAIN columns : cells[k] \in Cell[columns[k]]
        /\ \A k \in DOMAIN columns :
                cells[k].kind = "bytes" => ~Exceeds(cells[k], DefaultLimits)
        /\ row' = cells
    /\ pc' = "bind"
    /\ UNCHANGED <<columns, limits, by, body, raw, msg, refusal, meant>>

-------------------------------------------------------------------------------
Replaced(s, c, new) == FlattenSeq([k \in DOMAIN s |-> IF s[k] = c THEN new ELSE <<s[k]>>])

(* Variant: the quote is escaped first. *)
EscapedQuoteFirst(s) ==
    LET quotes == Replaced(s, "quote", <<"backslash", "quote">>)
        slashes == Replaced(quotes, "backslash", <<"backslash", "backslash">>)
    IN  Replaced(slashes, "newline", <<"backslash", "n">>)

(* The three replace() calls of _cell_to_pxf, in their order.              *)
Escaped(s) ==
    LET slashes == Replaced(s, "backslash", <<"backslash", "backslash">>)
        quotes == Replaced(slashes, "quote", <<"backslash", "quote">>)
    IN  Replaced(quotes, "newline", <<"backslash", "n">>)

(* base64: four characters for every three bytes, padded at the end.       *)
Padding(n) == (3 - (n % 3)) % 3
Encoded(s) == LET n == 4 * ((Len(s) + 2) \div 3)
              IN  [k \in 1 .. n |-> IF k > n - Padding(Len(s)) THEN "=" ELSE "1"]
Decoded(s) == [k \in 1 .. 3 * (Len(s) \div 4) - Cardinality({k \in DOMAIN s : s[k] = "="}) |-> "1"]

(* _cell_to_pxf of a cell whose kind is known.                             *)
Rendered(cell) ==
    CASE cell.kind = "null" -> <<"null">>
      [] cell.kind = "string" -> <<"quote">> \o Escaped(cell.text) \o <<"quote">>
      [] cell.kind \in RawKind -> cell.text
      [] cell.kind = "bool" -> IF cell.text # <<>> THEN <<"true">> ELSE <<"false">>
      [] cell.kind = "bytes" -> <<"b", "quote">> \o Encoded(cell.text) \o <<"quote">>

(* Variant: the text of an absent cell is what str() makes of None. *)
LineOfNone(f, cell) ==
    <<f, "=">> \o (IF cell = Absent THEN <<"None">> ELSE Rendered(cell)) \o <<"newline">>

Line(f, cell) ==
    IF cell = Absent THEN <<>> ELSE <<f, "=">> \o Rendered(cell) \o <<"newline">>

(* Variant: scan does not pass the limits on. *)
BindLimitsLost == DefaultLimits

(* scan binds under the reader's limits, bind_row without limits under the *)
(* defaults.                                                               *)
BindLimits == IF by = "scan" THEN Effective(limits) ELSE DefaultLimits

(* bind_row.  A caller may pass other columns than the reader's, or cells  *)
(* that no reader gave.                                                    *)
Bind ==
    /\ pc = "bind"
    /\ \/ /\ by' \in {"scan", "hand"}
          /\ body' = FlattenSeq([k \in DOMAIN row |-> Line(columns[k], row[k])])
          /\ pc' = "decode"
          /\ UNCHANGED refusal
       \/ /\ by' = "hand"
          /\ Refuse("arity") \/ (row # <<>> /\ Refuse("unknownKind"))
          /\ UNCHANGED body
    /\ UNCHANGED <<columns, limits, row, raw, msg, meant>>

-------------------------------------------------------------------------------
(* The PXF lexer and parser, for the text that bind_row writes.  A string  *)
(* ends at a quote that no backslash precedes; a raw line feed in it is an *)
(* error.                                                                  *)
Ended(s, kind, text) ==
    [s EXCEPT !.at = "name", !.text = <<>>, !.fields = [@ EXCEPT ![s.field] = Text(kind, text)]]

Began(s, c) ==
    CASE c = "quote" -> [s EXCEPT !.at = "string"]
      [] c = "b" -> [s EXCEPT !.at = "b"]
      [] c = "1" -> [s EXCEPT !.at = "number", !.text = <<c>>]
      [] c = "w" -> [s EXCEPT !.at = "ident", !.text = <<c>>]
      [] c = "T" -> [s EXCEPT !.at = "time", !.text = <<c>>]
      [] c = "null" -> Ended(s, "null", <<>>)
      [] c = "true" -> Ended(s, "bool", <<"1">>)
      [] c = "false" -> Ended(s, "bool", <<>>)
      [] OTHER -> [s EXCEPT !.at = "error"]

Error(s) == [s EXCEPT !.at = "error"]
More(s, c) == [s EXCEPT !.text = Append(@, c)]

Lexed(s, c) ==
    CASE s.at = "name" /\ c = "newline" -> s
      [] s.at = "name" /\ c \in Field -> [s EXCEPT !.at = "=", !.field = c]
      [] s.at = "=" /\ c = "=" -> [s EXCEPT !.at = "value"]
      [] s.at = "value" -> Began(s, c)
      [] s.at \in RawKind /\ c = "newline" -> Ended(s, s.at, s.text)
      [] s.at \in RawKind /\ c = Sign[s.at] -> More(s, c)
      [] s.at = "b" /\ c = "quote" -> [s EXCEPT !.at = "bytes"]
      [] s.at = "bytes" /\ c = "quote" -> Ended(s, "bytes", Decoded(s.text))
      [] s.at = "bytes" /\ c \in {"1", "="} -> More(s, c)
      [] s.at = "string" /\ c = "quote" -> Ended(s, "string", s.text)
      [] s.at = "string" /\ c = "backslash" -> [s EXCEPT !.at = "escape"]
      [] s.at = "string" /\ c \notin {"quote", "backslash", "newline"} -> More(s, c)
      [] s.at = "escape" /\ c \in {"quote", "backslash"} -> [More(s, c) EXCEPT !.at = "string"]
      [] s.at = "escape" /\ c = "n" -> [More(s, "newline") EXCEPT !.at = "string"]
      [] OTHER -> Error(s)

Start == [at |-> "name", field |-> "none", text |-> <<>>, fields |-> [f \in Field |-> Absent]]

Parsed(text) ==
    LET state[k \in 0 .. Len(text)] == IF k = 0 THEN Start ELSE Lexed(state[k - 1], text[k])
    IN  state[Len(text)]

(* A field that is absent takes its default, one that is null stays unset. *)
Completed(fields) ==
    [f \in Field |-> IF fields[f] # Absent THEN fields[f]
                     ELSE IF f \in Defaulted THEN Text(Type[f], <<>>) ELSE Unset]

(* unmarshal up to its native call's return.  Whether null is a value for  *)
(* (pxf.required) is the native decoder's business.                        *)
Decode ==
    /\ pc = "decode"
    /\ LET end == Parsed(body)
           fields == end.fields
           given == {f \in Field : fields[f].kind \in ValueKind}
       IN  \/ end.at # "name" /\ Refuse("syntax") /\ UNCHANGED raw
           \/ /\ end.at = "name"
              /\ \/ \E f \in given : fields[f].kind # Type[f] /\ Refuse("type")
                 \/ \E f \in given : Exceeds(fields[f], BindLimits) /\ Refuse("limit")
                 \/ \E f \in Required \ given : Refuse("required")
              /\ UNCHANGED raw
           \/ /\ end.at = "name"
              /\ \A f \in given : fields[f].kind = Type[f] /\ ~Exceeds(fields[f], BindLimits)
              /\ \A f \in Required : fields[f] # Absent
              /\ raw' = Completed(fields)
              /\ pc' = "load"
              /\ UNCHANGED refusal
    /\ UNCHANGED <<columns, limits, by, row, body, msg, meant>>

(* What a row says, by the meaning of its cells (pxf.py:567-573).          *)
CellOf(f) == IF \E k \in DOMAIN columns : columns[k] = f
             THEN row[CHOOSE k \in DOMAIN columns : columns[k] = f] ELSE Absent
Said == [f \in Field |->
            IF CellOf(f) = Absent /\ f \in Defaulted THEN Text(Type[f], <<>>)
            ELSE IF CellOf(f) \in {Absent, Null} THEN Unset ELSE CellOf(f)]

(* Variant: unmarshal does not clear the message. *)
LoadMerges ==
    /\ pc = "load"
    /\ msg' = [f \in Field |-> IF raw[f] = Unset THEN msg[f] ELSE raw[f]]
    /\ meant' = Said
    /\ pc' = "read"
    /\ Forget
    /\ UNCHANGED <<columns, limits>>

(* msg.Clear(), then msg.MergeFromString(raw).                             *)
Load ==
    /\ pc = "load"
    /\ msg' = raw
    /\ meant' = Said
    /\ pc' = "read"
    /\ Forget
    /\ UNCHANGED <<columns, limits>>

(* The caller catches the error and may go on with the next row.           *)
Caught ==
    /\ pc = "raised"
    /\ pc' = "read"
    /\ Forget
    /\ UNCHANGED <<columns, limits, msg, meant>>

Next == Read \/ Bind \/ Decode \/ Load \/ Caught

Spec == Init /\ [][Next]_vars
-------------------------------------------------------------------------------
(* Type invariant. *)
TypeOK ==
    /\ columns \in Columns /\ limits \in Limits
    /\ pc \in {"read", "bind", "decode", "load", "raised"} /\ by \in {"scan", "hand"}
    /\ row \in Seq(Value \union {Absent, Null})
    /\ body \in Seq(Char)
    /\ {raw, msg, meant} \subseteq [Field -> Value \union {Unset}]
    /\ refusal \in {"none", "arity", "unknownKind", "syntax", "type", "limit", "required"}

(* A message that is used for row after row holds exactly what the last    *)
(* row that bound says: every cell as the reader read it, whatever         *)
(* characters it has, nothing of the row before, and nothing of a row that *)
(* was refused (bind_row, pxf.py:549-601, over unmarshal).                 *)
HoldsTheLastRow == msg = meant

(* "Other characters round-trip verbatim" (pxf.py:613-615): whatever the   *)
(* reader could read is PXF again once it is written for the binding; what *)
(* refuses a row that scan took is its content.                            *)
ScanRefusesForContent ==
    by = "scan" =>
        /\ refusal # "syntax"
        /\ refusal = "type" =>
                \E k \in DOMAIN row : row[k].kind \in ValueKind \ {Type[columns[k]]}
        /\ refusal = "required" => \E f \in Required : CellOf(f) \in {Absent, Null}

(* "binds each row under the same ones" (DatasetReader.from_bytes): a row  *)
(* with a cell past a limit of the reader never gets into the message, and *)
(* one without is not refused for its size.                                *)
ReadersLimitsBind ==
    by = "scan" =>
        /\ pc = "load" => \A k \in DOMAIN row : ~Exceeds(row[k], Effective(limits))
        /\ refusal = "limit" => \E k \in DOMAIN row : Exceeds(row[k], Effective(limits))
===============================================================================
