-------------------------------- MODULE MCCells --------------------------------
(* Cells with a field of every kind and every string of up to two          *)
(* characters.                                                             *)
EXTENDS Cells

MCType == [s |-> "string", i |-> "number", b |-> "bytes", t |-> "string",
           o |-> "bool", e |-> "ident", d |-> "time"]

(* t has no column: a dataset need not name every field.                   *)
MCColumns == {<<"s", "i">>, <<"i", "b">>, <<"i", "o", "e">>, <<"d", "i">>}

Strings == {Text("string", s) : s \in BoundedSeq({"quote", "backslash", "newline", "n"}, 2)}
Numbers == {Text("number", [k \in 1 .. n |-> "1"]) : n \in {1, 2, 3}}
Blobs == {Text("bytes", [k \in 1 .. n |-> "1"]) : n \in {1, 3, 5, 6, 7}}

(* In every column also a value of another kind.                           *)
MCCell ==
    [s |-> Strings \union {Absent, Null, Text("number", <<"1">>)},
     i |-> Numbers \union {Absent, Null, Text("string", <<>>)},
     b |-> Blobs \union {Absent, Null, Text("string", <<"n">>)},
     o |-> {Text("bool", <<"1">>), Text("bool", <<>>), Absent, Null, Text("ident", <<"w">>)},
     e |-> {Text("ident", <<"w">>), Text("ident", <<"w", "w">>), Absent, Null,
            Text("bool", <<"1">>)},
     d |-> {Text("time", <<"T">>), Text("time", <<"T", "T">>), Absent, Null,
            Text("string", <<"T">>)},
     t |-> {Absent}]

(* The defaults, lower ones, higher ones.                                  *)
MCLimits == {[bytes |-> 0, digits |-> 0], [bytes |-> 3, digits |-> 1],
             [bytes |-> 9, digits |-> 3]}
MCDefaults == [bytes |-> 6, digits |-> 2]
===============================================================================
