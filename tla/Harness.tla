-------------------------------- MODULE Harness --------------------------------
(***************************************************************************)
(* scripts/check_decode.py: one row of the conformance corpus is run       *)
(* through a decoder, and the exit code tells the gate how it ended.  The  *)
(* pb-render rows run pxf.marshal_bytes, which is MarshalDepth's machine.  *)
(*                                                                         *)
(* A Python script that an exception ends exits 1, which is also the code  *)
(* for "the decoder refused the row".  What the script must get right is   *)
(* therefore who raised, where, and what: event is that.  At most one      *)
(* --limit is given, as the corpus does.                                   *)
(***************************************************************************)
EXTENDS MarshalDepth

ASSUME DefaultIsALimit == 0 \in Limit

VARIABLES format, \* --format
          spec,   \* what --limit is: "none", "number", ...
          asked,  \* the number it asks for, 0 when there is none
          stage,  \* how far the script is
          event,  \* history: who ended the run, and with what exception
          exit    \* the exit code, Running until there is one

harness == <<format, spec, asked, stage, event, exit>>
all == <<vars, harness>>

Running == 3
Format == {"pxf", "pb", "pb-render", "sbe", "envelope"}
Exception == {"ValueError", "DecodeError", "OSError", "TypeError", "KeyError", "RuntimeError",
              "SystemExit", "KeyboardInterrupt"}
Event == [by : {"nobody", "args", "limits", "files", "schema", "parser", "decoder", "runtime",
                "python", "script"},
          raised : Exception \union {"none"}]

(* What --limit can be for a format: the name is checked before the number. *)
Specs(f) == {"none", "unknown"} \union
            CASE f \in {"pb", "envelope"} -> {"unsupported"}
              [] f = "pxf" -> {"number", "tooLarge", "notNumber"}
              [] OTHER -> {"number", "tooLarge", "notNumber", "unsupported"}

(* Variant: the limits are parsed and not passed on. *)
PassedNever(l) == 0

(* The dictionary of limits goes to the call as it was parsed.             *)
Passed(l) == l

HInit ==
    /\ format \in Format
    /\ spec \in Specs(format)
    /\ asked \in Limit /\ (spec = "number" \/ asked = 0)
    /\ stage = "args"
    /\ event = [by |-> "nobody", raised |-> "none"]
    /\ exit = Running
    /\ Init /\ limit = Passed(asked)

-------------------------------------------------------------------------------
(* Variant: `except Exception`. *)
MainCatchesExceptions == Exception \ {"SystemExit", "KeyboardInterrupt"}

(* main: `except BaseException` is exit 2.                                 *)
MainCatches == Exception

(* The one class that the try around the decode turns into a reject.       *)
Rejected == IF format = "pb" THEN {"DecodeError"} ELSE {"ValueError"}

Exit(code, who, what) ==
    /\ stage' = "exited"
    /\ exit' = code
    /\ event' = [by |-> who, raised |-> what]

(* An exception outside the try; what nothing catches is Python's exit 1.  *)
Fail(who, what) == Exit(IF what \in MainCatches THEN 2 ELSE 1, who, what)

(* An exception inside the try.                                            *)
Try(who, what) == IF what \in Rejected THEN Exit(1, who, what) ELSE Fail(who, what)

Go(s) == stage' = s /\ UNCHANGED <<event, exit>>

(* argparse exits 2 on its own.                                            *)
Args ==
    /\ stage = "args"
    /\ Go("run") \/ Exit(2, "args", "SystemExit")
    /\ UNCHANGED <<format, spec, asked, vars>>

(* _run, up to the limits: no envelope row is decoded, whatever its limit. *)
Envelope ==
    /\ stage = "run" /\ format = "envelope"
    /\ Exit(1, "script", "none")
    /\ UNCHANGED <<format, spec, asked, vars>>

ParseLimits ==
    /\ stage = "run" /\ format # "envelope"
    /\ \/ spec \in {"none", "number", "tooLarge"} /\ Go("files")
       \/ spec \in {"unknown", "unsupported"} /\ Fail("limits", "SystemExit")
       \/ spec = "notNumber" /\ Fail("limits", "ValueError")
    /\ UNCHANGED <<format, spec, asked, vars>>

(* The FileDescriptorSet and the input are read.                           *)
Files ==
    /\ stage = "files"
    /\ Go("bind") \/ Fail("files", "OSError")
    /\ UNCHANGED <<format, spec, asked, vars>>

(* The schema is bound before the try: by the native decoder and an empty  *)
(* document for pxf, which refuses a schema with a required field, too;    *)
(* by Python's pool for the others; and by the codec, which takes the      *)
(* limits, for sbe.                                                        *)
BindFails ==
    /\ stage = "bind"
    /\ \/ \E e \in (IF format = "pxf" THEN {"ValueError"}
                    ELSE {"DecodeError", "TypeError", "KeyError"}) : Fail("schema", e)
       \/ format = "sbe" /\ Fail("schema", "ValueError")
       \/ format = "sbe" /\ spec = "tooLarge" /\ Fail("limits", "TypeError")
       \/ format = "sbe" /\ limit < 0 /\ Fail("limits", "ValueError")
    /\ UNCHANGED <<format, spec, asked, vars>>

Bind ==
    /\ stage = "bind"
    /\ format = "sbe" => spec # "tooLarge" /\ limit >= 0
    /\ Go("decode")
    /\ UNCHANGED <<format, spec, asked, vars>>

(* _decode_pxf, _decode_pb, _decode_sbe: nanobind's TypeError for a limit  *)
(* that is no int, ApplyLimits' error, then what the decoder makes of the  *)
(* input.  sbe also loads the result into a message.                       *)
Decode ==
    /\ stage = "decode" /\ format \in {"pxf", "pb", "sbe"}
    /\ \/ spec = "tooLarge" /\ Try("limits", "TypeError")
       \/ spec # "tooLarge" /\ limit < 0 /\ Try("limits", "ValueError")
       \/ /\ spec # "tooLarge" /\ limit >= 0
          /\ \/ Exit(0, "decoder", "none")
             \/ Try("decoder", IF format = "pb" THEN "DecodeError" ELSE "ValueError")
             \/ Try("runtime", "RuntimeError")
             \/ format = "sbe" /\ Try("runtime", "DecodeError")
    /\ UNCHANGED <<format, spec, asked, vars>>

-------------------------------------------------------------------------------
(* Variant: the encoder is not held back until the schema is bound. *)
RenderUnbound ==
    /\ format = "pb-render" /\ exit = Running
    /\ Next
    /\ UNCHANGED harness

(* _pb_render, while the native call runs.                                 *)
Render ==
    /\ stage = "decode" /\ format = "pb-render" /\ spec # "tooLarge"
    /\ Next
    /\ UNCHANGED harness

ParserFailed == {"malformed", "tooDeepToParse"}

(* Variant: every ValueError of the call is a reject. *)
RenderEndsRejecting ==
    /\ stage = "decode" /\ format = "pb-render"
    /\ \/ outcome = "text" /\ Exit(0, "decoder", "none")
       \/ outcome \in ParserFailed /\ Try("parser", "ValueError")
       \/ outcome \in {"tooDeepToWrite", "unwritable"} /\ Try("decoder", "ValueError")
    /\ UNCHANGED <<format, spec, asked, vars>>

(* What the call raised: a read that failed is raised again, the encoder   *)
(* never ran; all else that is a ValueError is a reject.                   *)
RenderEnds ==
    /\ stage = "decode" /\ format = "pb-render"
    /\ \/ outcome = "text" /\ Exit(0, "decoder", "none")
       \/ outcome \in ParserFailed /\ Fail("parser", "ValueError")
       \/ outcome \in {"tooDeepToWrite", "unwritable"} /\ Try("decoder", "ValueError")
       \/ outcome = "badSchema" /\ Try("schema", "ValueError")
       \/ outcome = "negative" /\ Try("limits", "ValueError")
       \/ spec = "tooLarge" /\ Try("limits", "TypeError")
    /\ UNCHANGED <<format, spec, asked, vars>>

(* Control-C, or no memory, while Python runs.                             *)
Interrupted ==
    /\ stage \notin {"args", "exited"} /\ pc \in {"start", "done"}
    /\ Fail("python", "KeyboardInterrupt")
    /\ UNCHANGED <<format, spec, asked, vars>>

HNext == \/ Args \/ Envelope \/ ParseLimits \/ Files \/ BindFails \/ Bind \/ Decode
         \/ Render \/ RenderEnds \/ Interrupted

HSpec == HInit /\ [][HNext]_all
-------------------------------------------------------------------------------
(* Type invariant of the script, and that the encoder waits for its turn. *)
HTypeOK ==
    /\ format \in Format /\ spec \in Specs(format) /\ asked \in Limit
    /\ stage \in {"args", "run", "files", "bind", "decode", "exited"}
    /\ event \in Event
    /\ exit \in 0 .. 2 \union {Running}
    /\ exit = Running <=> stage # "exited"
    /\ pc # "start" => format = "pb-render" /\ stage \in {"decode", "exited"}

(* "Only an error from the decode itself is a reject" (check_decode.py:26):*)
(* exit 1 says that the decoder, or for pb-render the encoder, met the row *)
(* and refused it.  An envelope row is always a reject.  Two ways to exit  *)
(* 1 from before the decoder are in the code and are left out here: a      *)
(* negative limit, and a schema that only the C++ pool refuses.            *)
ExitOneIsARefusal ==
    exit = 1 => \/ event.by = "decoder" \/ format = "envelope"
                \/ limit < 0 \/ outcome = "badSchema"

(* "Running the row without it would not test the limit" (line 52): exit 0 *)
(* says that the decoder took the row under the limit that was asked for;  *)
(* what pb-render accepts is no deeper than that.                          *)
ExitZeroIsAcceptance ==
    exit = 0 =>
        /\ event = [by |-> "decoder", raised |-> "none"]
        /\ spec \in {"none", "number"} /\ limit = asked
        /\ format = "pb-render" =>
              outcome = "text" /\ deepestPxf <= (IF asked > 0 THEN asked ELSE DefaultDepth)
===============================================================================
