# A verification project for protowire-python

protowire-python is the Python port of protowire: a thin Python package over a
nanobind extension (`src/_protowire/module.cc`) that wraps the C++ library
protowire-cpp. It reads and writes PXF (a text format for protobuf messages), SBE (a
fixed-layout binary format) and a response envelope. The formats themselves live in
protowire-cpp, which is not in this repository; what this repository adds, and what is
modelled here, is everything around the calls: which object changes when, in what
order, under whose limits, and what a caller may rely on when a step in between fails
or another thread runs.

Paths below are relative to the repository root.

## 1. Inventory

| Component | Code | State | Operations |
|---|---|---|---|
| Decoding into a message | `pxf.py:300-360`, `sbe.py:121-124`, `module.cc:139-260` | the caller's message | native decode, `Clear`, `MergeFromString`, wrapping the `Result` |
| Encoder nesting limit | `pxf.py:182-241`, `module.cc:380-413` | two depth counters during one call | parse under a recursion limit, encode under `max_nesting_depth` |
| Schema transfer | `_schema.py`, `module.cc:46-82, 422-460`, `sbe.py:86-102` | visited names, order; the C++ pool | import walk, `BuildSchema`, lookup by name |
| Row streaming | `pxf.py:420-547`, `module.cc:296-378` | position, `done`, the caller's message | pull, `scan` = take + bind, `tail`, chaining |
| SBE views | `sbe.py:16-72, 126-127`, `module.cc:499-578` | heap buffers and their counts; codecs | `view`, `composite`, `group`, `entry`, dropping |
| Response envelope | `envelope.py` | the envelope that is built; cursors of nested decoders during one call | `with_field`, `with_meta`, encode, decode |
| Cells | `pxf.py:549-622` | the caller's message | cell to PXF text, and back through `unmarshal` |
| Result | `pxf.py:45-176, 366-403` | immutable | presence queries |
| Descriptor validation | `pxf.py:168-176`, `module.cc:262-293` | none | passes through |
| Conformance harness | `scripts/check_decode.py` | how far one row got | parse `--limit`, read, bind, decode, exit with a verdict |
| Benchmarks, packaging | `scripts/bench_*.py`, `dump_envelope.py`, CMake, workflows | none | no logic of the library |

**How they interact.** Every PXF and SBE entry point first turns the descriptor into a
`FileDescriptorSet` (schema transfer) and sends it with the input in one synchronous
call into the extension. The extension never releases the interpreter lock, so a native
call is atomic to other Python threads; the lines of Python around it are not.
`DatasetReader.scan` is a native call followed by `bind_row`, which is `unmarshal`.
The only memory shared between Python objects after a call is the SBE view's buffer.
The conformance harness runs the decoders and, for `pb-render`, the encoder, and turns what
they raise into an exit code.

**What is hard here.** Two threads between the lines of a decode into one message;
failure or an asynchronous exception after `Clear`; three different notions of depth
(PXF blocks, protobuf submessages, the runtime's 100 levels) that are off from each
other by one or by a factor of two; order and uniqueness in the import walk; a row that
is consumed and then fails to bind; a `Done` flag that is read on both sides of the
call that sets it; buffers whose holders are dropped in any order; integers without a
width where the wire format has one; input that ends in the middle of anything; a row that is
written as text and parsed again under limits that must be the reader's; an exit code that
means "refused" and is also what Python gives a script that crashed. There is no
persistence, no network, no timeout and no retry in this code.

## 2. Modules

| Module | Models | Checked by | Proved in |
|---|---|---|---|
| `AtomicDecode` | the promise of a decode to an exclusive owner | refined by `Unmarshal` | |
| `Unmarshal` | the three decoders, line by line | `unmarshal` | `UnmarshalProofs` |
| `MarshalDepth` | the depth accounting of `pxf.marshal` | `harness`, `marshal_int_max`, `marshal_one_too_deep` | `HarnessProofs` |
| `Harness` | `check_decode.py`, composed with `MarshalDepth` | `harness` | `HarnessProofs` |
| `Schema` | walk, build, lookup | `schema` | `SchemaProofs` |
| `RowStream` | the promise of pulling one dataset's rows | refined by `DatasetReader` | |
| `DatasetReader` | readers, consumers, chaining | `dataset_reader` | `DatasetReaderProofs` |
| `Cells` | what `scan` and `bind_row` make of a row's cells | `cells` | `CellsProofs` |
| `ViewValues` | the promise of a view: a value | refined by `SbeView` | |
| `SbeView` | views, groups, buffers, codecs | `sbe_view`, `sbe_view_codec` | `SbeViewProofs` |
| `Wire` | the integers of the envelope's wire format, as functions | used by the two below | |
| `Zigzag` | one number through the zig-zag encoder and back | `wire_zigzag` | |
| `Envelope` | the builders, `Envelope.encode` and `decode` with everything inside | `envelope`, `envelope_cut` | `EnvelopeProofs` |

`Induction` holds what several proofs share: induction on a set of naturals, sequences of
elements of a set, and how `FlattenSeq` unfolds.

`MC*` modules only give the constants values. Definitions introduced by a comment
that begins with `Variant` are not part of the specifications: each is the code
with one plausible mistake in it, kept to show that a property notices it.

### Unmarshal

`unmarshal`, `unmarshal_full` and `sbe.Codec.unmarshal` share one shape: native decode,
`msg.Clear()`, `msg.MergeFromString(raw)`. `pc` is the line a thread is at; `content[m]` is
the sequence of merges message `m` holds since its last `Clear`, each named by its call,
because `MergeFromString` appends to repeated fields and overwrites singular ones: two
merges in a row are a mixture. `Interrupt` is a `KeyboardInterrupt`, which CPython delivers
to the main thread between bytecodes. `MergeFails` is the runtime's own depth limit, the
caveat of `pxf.py:211-212`; it may leave what it had read or nothing.
`past`, `before` are history. `Owned` are the messages that are never in two calls at once
(their callers see to it); the others are shared freely. Both kinds are in one run, so that
what holds of an owned message holds beside calls that mix up a shared one.

### MarshalDepth

The message is whatever the environment enters: `stack` is the path the parser is on, each
frame with its protobuf and its PXF depth. `PbCost` and `PxfCost` say what a kind of field
costs in each count, from the wire format and from protowire-cpp's encoder (external).
A map entry is a submessage to the parser and not a block to the encoder (the value is); a
literal is a submessage and not a block; a list is a block and not a submessage.

### Harness

One run of the script for one row of the corpus. `stage` is how far it is, `event` who raised
what, and `exit` the code. The model turns on where an exception is raised: inside the `try`
around the decode (`Try`: the class that the format's `except` names is exit 1), or outside
(`Fail`: `main` catches everything, exit 2; what it let through would be Python's own exit 1).
For `pb-render` the native call is `MarshalDepth` itself, stepping between `Bind` and
`RenderEnds`; a harness step is one of its steps or leaves it alone (`RunsTheEncoder`). The
other decoders succeed or fail as the environment likes. At most one `--limit` is given.

### Schema

The recursive `walk` of `_schema.py` is run with an explicit stack of frames, one frame per
active call. `Start`..`Send` are Python, `BuildFile` and `Find` C++. The `*_bytes`
functions skip the walk (`Bring`): their set is any sequence of files. File objects carry the
pool they come from, because `sbe.Codec` accepts files from several pools and the walk
tells files apart by name only. A file built against a file of the same name from another
pool may or may not resolve, and a second file of a name is accepted when it is identical
(`Repeats`), which another pool's may be: `BuildFile` has both outcomes. With several pools it
is the order of the arguments that decides which file of a name a codec gets:
`FirstPassedWins`, where `OnePoolSucceeds` is silent.

### DatasetReader

One document of several datasets, one reader per dataset, several threads. A native
`next` is one step; `scan` is two, `Scan` (the row is taken) and `Bind` or `BindFails`.
`tail` and the construction of the next reader are `Chain`; `Follow` is another thread that
is handed the reader already made. After a row that does not parse, the native reader may
stand before it, after it or be done: the code does not say, so all three are allowed.
`pxf.py:529` asks for `tail` after `done`, and `tail` checks nothing: `Chain` is a caller that
keeps to it, `TailEarly` one that does not. After an early `tail` the reader goes on with what it
has buffered and may end or fail anywhere, and the reader made of the rest is refused or finds
the next dataset. `RowStream` has `cut` for that: from then on the stream may end early, and
still never repeats a row or leaves one out between two that it gave.

### Cells

`DatasetReader` has rows that bind and rows that do not; `Cells` is what that depends on.
A row is written as PXF text (`Bind`), the text is read by the lexer and the parser
(`Decode`, from the escapes that `_cell_to_pxf` says it relies on; external), and the message
cleared and loaded (`Load`). All nine kinds of cell are there. Strings are escaped and quoted,
bytes become base64, a bool a keyword. The rest (`RawKind`) go out as they are: a number is an int
or a float, a time a timestamp or a duration, which differ in no branch of `_cell_to_pxf`.
Text is a sequence of characters that are told apart only where the lexer does: those that it
escapes, one for all the others of a string, and one for each raw kind; a column's name is one
character; base64 is four characters for three bytes, the last of them padding where bytes are
missing.
The reader holds bytes cells to the default limit and numbers to none; the
binding holds both to the reader's (`scan`) or to the defaults (`bind_row` by hand), and a
caller by hand may also get the arity or a cell's kind wrong. What the native decoder says
to `null` in a required field is left open. The locals of a call are forgotten when it ends,
so the state space is that of any number of rows into one message. The limits on the whole
text and on nesting are not in this module: a row of scalars is flat.

### SbeView

`new_view` puts a copy of the input at a free address; every derived object copies the
counted pointer. `Release` frees at zero, and a freed address can be used again, so
a view with a stale pointer would show another message. Reads (`int`, `string`, ...) return
copies and change nothing; what they would show is the refinement's `shows`.

### Wire, Zigzag, Envelope

`Wire` keeps the widths apart from the code: `Base` stands for 2^7, `Groups` for the ten bytes
that a shift of at most 63 allows, `Word` for 2^64. `WidthAssumption` is what the proportions
have in common with the real ones: the last byte is needed and reaches past the word.
`EncZigzag` is `_enc_zigzag64` as Python parses it, `a ^ (b & mask)`; `Zigzag` encodes one
number with it and decodes the bytes.

The sender builds an envelope with `with_field` and `with_meta`, then encodes it.
`Envelope` has one frame per decoder at work, each with its own cursor `i` and end `last` (the
code gives a nested decoder a copy of the bytes; here it gets a part of the same buffer, which
`TypeOK` keeps inside what the caller has put behind it). The four decoders, the inline loop
for a metadata entry among them, differ only in the fields they know, so one set of actions
serves all with `Fields` as the table. `ReadString`, `ReadElement` and `Enter` move the cursor
to `End`, which may lie past the bytes, as `_dec_string` and `_dec_bytes` do; `Skip` measures
length-delimited fields and not fixed ones, as `_skip_field` does. Strings are UTF-8 with
characters of one and two bytes, so that a cut can fall inside a character. `Place`, `EncVarint` and
`DecVarint` are recursive functions, not RECURSIVE operators, so that they can be reasoned
about. The environment is the channel: the bytes arrive whole, with an unknown field anywhere between the known ones,
or cut after any byte; or they are any bytes at all, which nobody encoded.

## 3. Runs

| Run | Question | Bounds and why they suffice |
|---|---|---|
| `unmarshal` | what survives sharing a message between threads; is a decode atomic to its owner, and does it end | 2 threads of which one is interrupted, one owned and one shared message, 2 calls; every API, an input of each format that is refused; limits -1, 0, 1 and 4. Depths are scaled so that 2 stands for 100: one input fits, one is at the default limit and one submessage too deep, one has two PXF levels for each of protobuf's. A mixture needs two calls that overlap, a load that is replaced two that do not |
| `harness` | does the parser ever refuse what the encoder would write, and does an exit code mean what the gate takes it for | limits -1..4 with the default at 3, every path of the eight kinds of field up to the limit and one past it; every format, every kind of `--limit`, every exception the stages raise |
| `marshal_int_max` | the largest limit that passes the check | the one limit 7, which stands for INT_MAX; violated, see findings |
| `marshal_one_too_deep` | is one level too deep always the encoder's to refuse | limits 0 to 2, default 3; violated, see findings |
| `schema` | is the set in order, without duplicates, buildable and complete | four files, each importing any of those before it, in every order (the fourth none, two or three: diamonds and shared imports), a fifth file from another pool with a name in common, up to two starting files |
| `dataset_reader` | rows once, in order, to the end, across two chained readers | 2 threads, documents of 1 or 2 datasets of 0 to 2 rows, every row good, unbindable or malformed, `tail` at any time: two rows are enough for one to be lost, repeated or swapped, and for two threads to have one each |
| `cells` | does a message that is reused hold the last row, whatever its cells contain | strings of up to two characters of four (a backslash before a quote is the case that tells the orders of escaping apart); bytes and numbers below, at and above each limit; a field of every kind, in four column lists; every column also with a value of another kind; reader's limits at, below and above the defaults; any number of rows |
| `sbe_view` | is a shared buffer as good as a copy, and is it freed | 3 objects at once, 2 addresses (so that an address is reused), 2 messages, 2 codecs |
| `sbe_view_codec` | does a view keep its codec | same; violated, see findings |
| `wire_zigzag` | does the zig-zag encoder match the decoder | digits of 3 bits, words of 8 (a third byte has one bit too many, as the tenth has six), every int32 but 0; violated, see findings |
| `envelope` | round trip, unknown fields, truncation, foreign bytes, termination | real bytes with words of 16 bits; a status on both sides of every width of a varint; fields empty and not, 0 to 2 details, 0 to 2 metadata entries, of which one key is a prefix of the other and one is set again; an unknown field of each wire type the code steps over, one with a two-byte tag, and a known number with a wire type not its own, whose contents look like fields; a cut at every byte; every sequence of up to five of eight bytes, of which two continue a varint |
| `envelope_cut` | is what ends inside a field refused | same; violated (by an unknown fixed64 field that is cut short), see findings |

`CHECK_DEADLOCK FALSE` everywhere but in `cells`, whose caller always goes on: a call ends, a document ends, and the number of calls is bounded;
nothing has to happen afterwards.

**Fairness.** `Unmarshal!FairSpec`: weak fairness of the next line of every thread that is
inside a call, which the interpreter's switch interval gives; nobody owes a call or an
interrupt. `Schema!FairSpec`: one thread takes its next step. `DatasetReader!FairSpec`:
consumers keep pulling past rows that do not bind (a caller that catches the error and goes
on) and chain to the next dataset; liveness is claimed for documents whose rows all parse.
`Envelope!FairSpec`: a call of `decode` goes on until it returns or raises; nobody has to make one.

**Findings.** (1) `marshal_int_max`: `depth + 1` overflows a signed int at INT_MAX (`module.cc:398`).
(2) `sbe_view_codec`: the comment at `module.cc:500-502` says a view keeps the codec alive;
it holds the data only. Whether a read then fails depends on what protowire-cpp's `View`
refers to, which is outside this repository.
(3) `wire_zigzag`:
`_enc_sint32` writes every negative number as one byte, wrong from -65 down, because of the
precedence of `&` over `^`. No code calls it. (4) `envelope_cut`: the tests state that malformed
input is a `ValueError`; bytes that end inside a string, a blob, a submessage or a fixed-width
unknown field decode without one. `NothingInvented` says what is left: what comes out is a
part of what was sent. (5) `marshal_one_too_deep`: `CHANGELOG.md:82-86` says that a message one
level too deep is refused with the encoder's error. If its deepest block holds a literal (a
Timestamp, say), its bytes nest two levels past the limit and the parser refuses it first
("proto parse failed"). `EncoderDecides` is what holds: whatever the encoder would write, the
parser lets through.

Seen on the way, without a run of their own: `_dec_int32`
(`envelope.py:122`) reduces nothing to the 32 bits its docstring names, so a status decodes to
any 64-bit number, or more where the tenth byte of a varint has more than one bit.
In `check_decode.py`: a negative `--limit` for a pxf or pb-render row is refused by
`ApplyLimits` (`module.cc:144-166`) or `PxfMarshal` inside the `try`, so the row is a reject,
although lines 23-27 say that a row must never pass because the harness broke before it
reached the decoder (an sbe row exits 2), and no property that holds can say otherwise; so is a pb-render row whose schema only the C++ pool
refuses. `ExitOneIsARefusal` names both. Lines 25-26 say that the schema is bound before the
input is read; `_run` reads the input first, which changes no exit code. An envelope
row exits 1 whatever its `--limit`, where line 51 has exit 2 for a limit that does not apply. And
a literal on the deepest block makes a pb-render row one level too deep exit 2, not 1.

## 4. Proofs

All theorems hold for every value of the constants that satisfies the named assumptions.

* `UnmarshalProofs`. `TypeCorrect`; `NeverMixes`: `Spec => []NoMixing`. `NoMixing` alone is
  not inductive: the strengthening says that a thread at the merge line has a message in which
  everything was put after its call began (`Clear` removed the rest, and calls that ended
  before can add nothing), and that the bookkeeping of calls is consistent (`past`
  contains only ended calls, a running call is not ended). `LowLimitsLoad`: `Spec =>
  []LowLimitNeverFails`, from the fact that past the native decode the input was accepted and
  `DepthAssumption` (bytes nest at most one deeper than the PXF), which is what
  `BytesNestOneDeeper` proves of the accounting itself. `StaysLoaded`: `Spec =>
  []LoadedUntilReplaced`, from `Accounted` (what a message lost, it lost to the `Clear` of a call
  that is recorded as having replaced it). `AtomicForItsOwner`: the refinement of `AtomicDecode`
  for each owned message, whatever is done to the shared ones; its invariant `Owner` says what an
  owned message holds at each line of its call.
* `HarnessProofs`. Of `MarshalDepth`: `TypeCorrect`; `BytesNestOneDeeper`: along any path the
  protobuf count exceeds the PXF count by at most one, and by none above a leaf, since leaves
  have nothing below them: that second half is the strengthening. `ParserYields`:
  `EncoderDecides`, by the same invariant and what the room left to the parser says of the depth
  it has met (`RoomInv`). Of the script: `RunsTheEncoder`: `HSpec => Spec` of
  `MarshalDepth`, so that its theorems hold inside the harness (`EncoderInHarness`);
  `RejectsAreRefusals` and `AcceptsAreAcceptances`.
  `Verdict` adds what the exit code alone forgets: the limit in force is the one asked for, past
  the parsing only limits that apply are left, and the encoder has no outcome before it ran.
* `DatasetReaderProofs`. `RowsAreDealtOut`, `ChainingSkipsNothing`, `MessagesMoveForward` and the
  refinement `FirstIsAStream`, for any number of threads, datasets and rows, and `tail` called at
  any time. The
  strengthenings: every row given is behind the position of its reader and in order
  (`Past`, `InOrder`), so a row that is taken next has no owner yet; a reader that is done with no
  error stands at its end, which is what a chained one may rely on.
* `SchemaProofs`. `TypeCorrect`; `SetInOrder`: `DependencyFirst /\ NoDuplicateNames`. The
  invariant describes the stack: frames climb strictly in `Rank`, the dependencies before
  a frame's index are all visited, and no file on the stack has a visited name. Acyclicity
  (`Rank`) and unique names inside one pool are the assumptions, both guaranteed by Python's
  descriptor pool. `OnePoolAlwaysBuilds`: files of one pool always build; every file asked for
  waits, is on the stack, or has its name among the visited ones, and what the walk has sent
  contains the dependencies of each of its files (`Gathered`). `OrderOfArgumentsDecides`:
  `Spec => []FirstPassedWins`, for files of any pools; its invariant `PassedBy` counts the files
  begun: everything on the stack is of the pool of the last of them, and each one before it is in
  the set or has its name taken by a file of an earlier one's pool.
* `CellsProofs`. `TypeCorrect`; `RowsReplaceEachOther`: `Spec => []HoldsTheLastRow`;
  `WrittenTextIsRead`: `Spec => []ScanRefusesForContent`; `LimitsBindRows`: `Spec =>
  []ReadersLimitsBind`. The argument is that the text `bind_row` writes is read back as the row it
  was written from, whatever the row: by induction over the length of a string (an escaped
  string has no bare quote and unescapes to itself), of a blob (base64 in threes) and of raw text
  (no character of it ends it), and over the number of columns. `CellsInv` then says what text, outcome and message are at each line.
* `SbeViewProofs`. `TypeCorrect`; `CountsAreExact`: `Spec => []FreedWithTheLast`;
  `ViewsAreCopies`: `Spec => Values!Spec`, the refinement of the abstract specification, for
  any number of views and addresses.

* `EnvelopeProofs`. `TypeCorrect`: decoders nest as the types of the messages do, so at most
  three are at work, and each is kept within bytes that its caller has put behind it (`StackOK`).
  `VarintsAreDigits`: `Spec => []BytesReadAsDigits`; the recursive functions of `Wire` are shown
  to be defined and to unfold, then a varint is read digit by digit. `SentIsReceived`: `Spec =>
  []RoundTrip`, and `PartIsReceived`: `Spec => []NothingInvented`, for envelopes with any strings,
  details and metadata, any fields of other versions, a cut at any byte, and every width,
  the real ones (128, 10, 2^64, 2^32) among them. The argument: what `encode` writes is a
  sequence of items, each an element of a list, another field or a field of another version
  (`Script`, by induction over fields and elements; `InnerAhead`, `EnvelopeAhead`). A varint reads
  the same wherever it stands, and not at all when it is cut (`VarintAhead`). So where the bytes
  carry the rest of a script, the code reads the next item as the script does, refuses it because
  it was cut, or, behind the end of the bytes, has a part of it (`ItemAhead`, `ReadOrStuck`,
  `ValueThere`, `CutIsPart`). `RoundTrip` says nothing until a decode ends; `SentInv` says it of the
  stack at work: each decoder is in a script of its own, a caller waits for the message that its
  callee reads, and what is cut at the top of the stack is cut at the bottom (`Chain`, `CutBelow`),
  so bytes that are whole are never refused. It uses that metadata has a key once (a dict) and that the
  encoding is shorter than the word counts (`Receive`'s bound), and nothing about how the bytes
  were cut.

Only model-checked: liveness (`EveryCallEnds`, `Ends`, `ReadToTheEnd`), because fairness and
ENABLED are out of the prover's reach. `Zigzag` has a run that refutes it and nothing to
prove. Every safety property, action property and refinement that a passing run checks is
also a theorem. The library's induction theorems cannot be used here, since they take an operator
as a parameter; induction over data goes by `Induction`'s `InductionOnSet`, whose
parameter is a set.

## 5. Not modelled, and the plan

Left to prove: nothing that the runs check but liveness. The proofs of `Envelope` are the
longest, and what they say of `Wire` could stand alone if another component came to use it.
Left out: `Result` (immutable data), descriptor validation (passes through), benchmarks
and packaging (no logic), the grammar of PXF and the layout of SBE (protowire-cpp). Where code
in this repository depends on those, the module says what it takes of them and leaves the rest
to the environment.
