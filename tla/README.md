# TLA+ models of the HPACK Huffman codec

The repository holds a Huffman codec for HPACK (RFC 7541 §5.2 and Appendix B): an F*/Low*
development, the C that KaRaMeL extracts from it (`cbits/generated/Hpack_Huffman.c`), a small
hand-written shim (`cbits/hpack_huffman.c`), Python scripts that print the tables, makefiles that
regenerate the C, and the KaRaMeL runtime headers it is compiled with. The F* proofs stop where
extraction starts: preconditions are erased, tables are copied, tail calls become loops, and the
shim, the scripts, the makefiles and the headers are trusted. The modules here model the
*extracted* C on the *shipped* tables and those trusted parts, state what the RFC, the F*
interfaces and the documents promise, check that with TLC, and prove with TLAPS the safety
properties of all of them: for every code, input, capacity and decode table that meet the stated
assumptions, for any sequence of calls of the shim, for every table the generator may be given, for
any number of edits and failures in the pipeline, and for words and bytes of any size in the headers.

## Inventory

| component | source | state | operations | what makes it correct |
|---|---|---|---|---|
| RFC table and its laws | `fstar/Hpack.Huffman.Table.fst`, `Table.Properties.fst` | none (257 constants) | – | prefix-free, lengths 5..30, EOS is 30 ones |
| reference decoder, nibble automaton | `Spec.Codec.fst`, `Spec.Decode.fst`, `Spec.Dfa.fst` | partial codeword, output | `bit_step`, `step`, `decode_bits` | greedy decoding, EOS fails, at most 7 ones of padding |
| decode table | `Lowstar.DfaTables.fst`, `Refine.DfaTable.fst(i)`, the arrays in `Hpack_Huffman.c` | 4096 cells in 16 chunks, 256 accept flags | `read_cell`, `accept_at` | every cell is the automaton's `step` |
| decoder | `dfa_loop`, `Lowstar.Dfa.fst(i)` | bit index, state id, bytes written, `dst`, `out_len` | one call | the contract of `Lowstar.Dfa.fsti` |
| encode arrays | `Lowstar.Tables.fst`, `Refine.Encode.fst` | `huff_code`, `huff_len` | – | equal to the RFC table |
| encoder | `sum_loop`, `encode_len`, `encode_loop`, `encode`, `Lowstar.Codec.fst` | bit total; 64-bit accumulator, residue length, bytes out, `dst` | two calls | the codes in order, padding of ones, the announced length |
| C shim | `cbits/hpack_huffman.c` | none; the caller's buffers | `encode_len`, `encode`, `decode` over `size_t` | keeps the erased preconditions; round trip |
| generators | `gen_dfa_tables.py`, `gen_lowstar_tables.py` | search queue, id order, rows | one run | every reachable state once, ids consistent, cells right |
| build pipeline | `fstar/Makefile`, `strip_header.py` | files on disk | `make tables`, `extract`, `generate`, `verify` | the vendored C is one extraction, of verified sources |
| 128-bit integers | `krmllib/minimal/*UInt128*`, `*uint128*`, `internal/types.h` | none | arithmetic, shifts, masks, comparisons | every build computes the same numbers |
| byte order | `krml/lowstar_endianness.h`, `load128`, `store128` | a byte buffer | loads and stores of 16 to 128 bits | the order the name says, on every host |
| reference codec, differential test | `test/ref_huffman.c`, `test/test_diff.c` | state id, flags, bytes written | one call | agrees with the decoder where both accept |
| F* lemmas, facade, other krmllib headers, tests, benchmark | rest of `fstar/`, `krmllib/`, `test/`, `bench/` | none | – | – |

How they interact: the generators read the RFC table and print the arrays; the arrays are
proved equal to the automaton and the table; the decoder walks the decode table one nibble at a
time and the encoder looks up the encode arrays; the shim forwards the caller's buffers to both;
the makefiles run the generators, the provers and the extraction over files that a failing command
leaves half done. The codec is sequential: there are no threads, callbacks or messages, and nothing
is persisted at run time. The runtime headers are compiled in and belong to the trusted base
(`README.md`, ARCHITECTURE.md), but the codec calls none of their 128-bit or byte-order functions.

What is hard here is numeric and positional: codes of 5 to 30 bits that straddle nibbles,
bytes and table chunks; a destination that fills up inside a valid stream; EOS completing
inside the stream at any bit offset; padding that is too long or holds a zero; products and
casts that are exact only under a length bound the extracted C no longer checks; two separate
computations of one length; the contents of `dst` and `out_len` after a rejection, and what an
earlier call left in them; loops that end only because an index reaches a multiple of four; targets
of a makefile that stop half way; carries and shifts at the edge of a word. `PROJECT.json` lists each as a hazard, at its
line, with the properties that would catch it.

## Modules

| module | models |
|---|---|
| `HpackTable` | the RFC table of `Table.fst`, an entry as a bit string |
| `HuffmanSpec` | the reference decoder and the nibble automaton over any code; the laws of the code as assumptions |
| `NibbleTable` | a decode table in chunks: `read_cell`, unpacking a cell, and `TableCorrect` |
| `DfaTables` | the shipped chunks, accept flags and state keys |
| `DecodeContract` | what a decode call promises: one answer, which one, and when |
| `DfaDecoder` | one call of `Hpack_Huffman_decode` |
| `EncodeContract` | what an encode call and the announcement before it promise |
| `Encoder` | `Hpack_Huffman_encode_len`, then `Hpack_Huffman_encode` |
| `EncodeTables` | the shipped `huff_code` and `huff_len`, and `EncodeTablesCorrect` |
| `Codec` | the shim's three functions, called in any order by one caller; composes encoding and decoding |
| `DfaGenerator` | one run of `gen_dfa_tables.py` |
| `GeneratedTable` | what the script prints, as an instance of `NibbleTable`, against the automaton of `HuffmanSpec` |
| `BuildPipeline` | the targets of `fstar/Makefile` |
| `Radix` | a number's digits in a base, and the number of some digits |
| `Words` | unsigned words of so many bits, their operators, the constant-time masks |
| `UInt128Spec` | what the 128-bit operations promise, on numbers |
| `UInt128Verified`, `UInt128Gcc64`, `UInt128Msvc` | the three implementations |
| `UInt128` | a build that has chosen one of them, and its caller |
| `Endianness` | byte-order conversion, loads and stores, between two hosts |
| `MCDfaDecoder`, `MCEncoder`, `MCCodec`, `MCDfaGenerator`, `MCUInt128`, `MCEndianness` | instances for TLC |
| `NaturalProofs` | lemmas the other proofs share: sets of numbers, powers, division, digits in a base |
| `HuffmanSpecProofs` | theorems about the reference codec, which the proofs of the codec rest on where they mention it |
| `DfaDecoderProofs` | the decoder: its invariants; completeness and refinement |
| `EncoderProofs` | the encoder: its invariants; round trip and refinement |
| `CodecProofs` | the shim |
| `DfaGeneratorProofs` | the generator |
| `BuildPipelineProofs` | the pipeline |
| `KrmllibProofs` | the byte order and the 128-bit integers |

**Data.** A code, a partial codeword and the accumulator are bit strings. In the source a partial
codeword is the pair (`acc`, `nbits`) and a code the pair (`huff_code[b]`, `huff_len[b]`), each
naming an `nbits`-bit number; the 64-bit accumulator is a string of 64 bits, so a shift loses the
bits it pushes out. Bytes, cells, state ids and counters are the integers of the code; uint32 and
uint64 sums wrap at `U32` and `U64`.

**Decoder.** A step of `DfaDecoder` is one turn of the loop in `dfa_loop`: `EndOfInput` (accept
flag), `Reject` (the cell leads to the fail id), `NoRoom` (a symbol and no space), `Emit` (a symbol
stored) and `Advance` (no symbol). The loop's locals `g`, `cur`, `written` are variables of those
names; `pc` tells a running call from one that has returned; `rc` and `out_len` are what the
caller finds. The guards are exclusive because the branches are. A ghost, `cut`, records where each
stored symbol's code ended; no guard reads it.

**Encoder.** `sum_loop` and `encode_loop` take one step for each symbol. One step of `encode_loop` shifts
the code in, drains every whole byte (`Drained` is the inner `for`), and masks the accumulator.
`encode_len` is the division and the cast; `encode_padded` and `encode_aligned` are the two ways
`encode` ends. The ghost `ends` records the running bit total of `sum_loop`.

**Shim.** `Codec` has the caller's two buffers, the `size_t` and the `uint32_t` values of the code,
and an action for each function: the guard, the clamp and the casts are the shim's, and the call
behind them answers as `DecodeContract` says or with `Encoding`, which `DfaDecoder` and `Encoder`
are shown to implement. A call is one step because nothing runs beside it; that the rest of a
buffer stays is what `RestUntouched` and `WithinLength` show. The buffers live from call to call,
so a stale byte or length can show. `decode` takes any prefix of what `enc` holds, not just what
the latest `encode` returned.

**Generator.** `Expand` takes a state from the queue, `Visit` looks at one successor, `EndSearch` is
the first assertion, `Row` one state's cells and accept flag, `PrintModule` the last assertions. A
failed assertion ends the script with nothing printed (`exit`).

**Pipeline.** A file's content is the version of what it was made from, `Slip` when a generator
printed something else, `Partial` when a command was cut short, `Missing` when it is gone. Each
command of a recipe is one step that ends well or fails; a failing `cp` or `rm` leaves any subset of
its files copied, cut or removed. Between targets the developer may change the table or move to
another toolchain.

**128-bit integers.** The operations take the representation of their header: a pair of words
(extracted code, SSE register) or a number (`__int128`). `UInt128` chooses among them as
`types.h` does. Answers are compared as numbers. A shift by the width or more, which C leaves
undefined, takes its count modulo the width, as amd64 and arm64 do: the shift by 0 that the code
treats apart would go wrong.

**Byte order.** A host has a byte order, and takes either the system's conversions or a generic
branch; one host stores an integer, another loads it.

**Buffers.** `dst` holds a marker `Old`, which is no byte, where nothing was stored, so "untouched"
is visible. `src` and `dst` are separate functions: the code's contract asks for disjoint buffers.

## What the runs check

The codec's runs take the shipped tables, not a toy code. All runs keep deadlock checking on: a call
that has returned may only stutter (`Returned`, `Finished`, `Ended`), so a deadlock would be a call
that gets stuck.

`dfa_decoder` (38,958 states). Inputs: the encodings of the empty message, of every byte, of
pairs of symbols of each code length from 5 to 30, and of four-symbol messages; each of these with
a byte of ones appended, with its last byte removed, and with its last bit cleared; every one-byte
stream; and EOS after a symbol of each length, which puts it at every offset in a nibble.
Capacities are 0 to 3, so four-symbol messages never fit and shorter ones both do and do not.
`MaxLen` is 10 and `U32` is 80, the same tight relation `8 * MaxLen <= U32` that the code needs
(the code has slack there: 2^30 against 2^32), and the longest inputs have nine bytes, the most the
bound allows. Beyond it `8 * src_len` may wrap; that below it nothing does is proved for every length.

 - `TypeOK`: indices, ids and counters stay where the arrays and types are.
 - `ParsedPrefix`: the bits read are the codes of the bytes stored, then the state's partial codeword.
 - `AcceptedIsPadded`: an accepted stream was read to the end and ends in at most seven ones.
 - `AcceptsOnlyEncodings`: an accepted stream is the encoding of the bytes returned, bit for bit.
 - `EncodingDecoded`: an encoded message comes back, whole when it fits and cut to the capacity,
   with -1, when it does not. `Parses` are the messages, each with the positions where its codes end.
 - `RestUntouched`: past the reported length `dst` is as it was, whatever the answer.
 - `ImplementsContract`: the call refines `DecodeContract`, whose answers come from the reference
   decoder `decode_bits`; this is also the direction that every invalid stream is rejected.
 - `Terminates`: the call returns.

`encoder` (3,298 states). Messages: empty; every byte; pairs of symbols of each length; all
messages of three and four symbols of lengths 5, 7 and 28, which meet every residue the accumulator can hold;
and seven symbols of the longest and of the shortest code. `MaxLen` is 8 with `U32` 256: the tight relation
`32 * MaxLen <= U32`, which is 2^27 against 2^32 in the code.

 - `TypeOK`: counts stay inside `dst` and their types, and the accumulator is clear above its residue.
 - `EncodedSoFar`: the bytes drained and the residue are the codes read, each where `encode_len` counts it.
 - `LengthExact`: `encode` returns what `encode_len` announced.
 - `WithinLength`: nothing is ever stored past the announced length. The contract asks the caller for
   `4 * len + 1` bytes; this shows that `encode_len` bytes are enough.
 - `EmitsCodes`: the result is the codes in order and at most seven ones.
 - `DecodesToMessage`: the reference decoder returns the message from the result.
 - `ImplementsContract`: the two calls refine `EncodeContract`: first the announcement, then the
   answer, the padded codes in one piece.
 - `Terminates`: both calls return.

Inputs longer than these meet no new case: the loops keep a state id, or a residue of at most seven
bits, from one turn to the next, and nothing else but counters. The assumptions on the tables are
evaluated over all 4096 cells and all pairs of the 257 codes, and the theorems below hold at every
length.

`codec` (37,399 states). Five calls, which is enough for: encode a long message, decode it,
encode a shorter one, announce it, decode. `MAX_LEN` is 4 with `U32` 128 (the tight relation
`32 * MAX_LEN <= U32`); messages of 0 to 4 bytes, so that they are below and at the bound and encode to
below, at and above it, and one of 129 bytes that a cast to 32 bits would let through; `dec` has 130 cells
and capacities are 0, 2, 127 (`UINT32_MAX`) and 129 (which a cast would turn into 1).

 - `TypeOK`: no store leaves a buffer, no length exceeds one.
 - `RoundTrip`: decoding exactly what `encode` returned, with room for it, gives the message, for
   messages and encodings below the bound, whatever earlier calls left behind.
 - `ReportsThisCall`: what `out_len` counts in `dec` is the beginning of what *this* stream decodes to.
 - `AnnouncedIsReturned`: `encode_len` and `encode` agree, refused messages included.
 - `WholeOrNothing`: an encode call stores the whole encoding, or answers 0 and changes nothing.
 - `CapacityHonoured`: nothing at or past the stated capacity is changed.

`dfa_generator` runs the script on the RFC table: `PrintsShipped`, no assertion fails and the states,
cells and flags are the shipped ones, in the same order; `ServesDecoder`, they meet the assumptions
`TableTyped` and `TableCorrect` of `NibbleTable`; `Terminates`. `small_dfa_generator` runs it
on fifteen tables of 17 codes (complete codes of four and five bits with EOS in various places, a
one-bit EOS, the unary code, and a table with an entry missing) and chunks of 32:

 - `IdsInOrder`: each state found has one id, and the queue is the tail of the order.
 - `ClosedAndReached`: at the end of the search the states are those reachable from the start.
 - `PrintsAutomaton`: whatever is printed is, cell by cell, the `step` and `is_accepting` of `HuffmanSpec`.
 - `GivesUpWithCause`: the script exits only on a table that cannot be packed: an entry missing, a code
   too long for a key or short enough for two in a nibble, too many states, or chunks left unfilled.
 - `Terminates`: the script ends.

`build_pipeline`: two changes of the table or the toolchain and one command that fails, at any
point, with any number of targets before, between and after. Two changes are needed to tell an old
extraction from an older one; one failure leaves every leftover that a target can leave, and a
second, in a run that has already stopped, can only leave leftovers of the same kind.

 - `ModulesWhole`: no committed table module is ever missing or truncated.
 - `OneExtraction`: a vendored tree that has all its files, whole, is from one extraction and toolchain.
 - `VendorsCurrentModules`: after a `make generate` that ended well it is from the modules as they are.
 - `VerifiedShipsTable`: after `verify` and `generate` both ended well it is the RFC table's.

`uint128` (101,136 states): `ImplementsNumbers`, each call refines `UInt128Spec`. Words have 6 bits; the
operands are all pairs of the words 0, 1, 7, 8, 31, 32 and 63, the edges of halves, signs and
wraps; every shift count and every right factor. All carries between the four half-word products
occur with these.

`endianness` (50,689 states): bytes have one bit, so that all 2-, 4- and 8-byte integers can be
stored, and 64 of 16 bytes.

 - `WireOrder`: the bytes stored are those the accessor's name says, and no others change.
 - `ReadsBack`: a load gives back the value stored, or its bytes reversed when the orders differ.

## Where the code and its documents disagree

Three runs end with the counterexample to a sentence of the repository.

 - `round_trip_unbounded`. `README.md` line 28: "Round-trip: `decode(encode(x)) === x`." A message below
   the bound may encode to a stream that `decode` refuses (`hpack_huffman.c` line 48), and a message at
   the bound encodes to nothing. The F* theorem is for messages below 2^24 bytes. `RoundTrip` holds.
 - `generate_verifies`. `fstar/Makefile` line 7 and ARCHITECTURE.md line 404 say that `make generate`
   verifies. It depends on `extract` only, and extraction does not check the modules that tie the
   tables to the RFC table. A generator slip, or an edited table, is vendored by a `make generate`
   that ends well. `VerifiedShipsTable` holds: with `make verify` on the same sources it is not.
 - `wire_order_everywhere`. `htole64` of the generic big-endian branch (`lowstar_endianness.h` line 118)
   builds on `htobe32`, which is the identity in that branch: it exchanges the halves of a word but
   no bytes. Such hosts agree among themselves, which is why `ReadsBack` compares hosts that have it
   both or neither. The little-endian branch has the same text and is right. The codec is not affected.

**Fairness.** `WF_vars(Loop)`, `WF_vars(Calls)` and `WF_vars(Running)`: a C function that has been
called, or a script that has been started, is run until it returns. The code is sequential and waits
for nothing, so a turn of the loop that can be taken is taken. The caller of `Codec` and the
developer of `BuildPipeline` are under no obligation, so those have no fairness and no liveness
property; nor do `UInt128` and `Endianness`, whose calls are one step each.

## What is proved

Every safety property that a run checks is a theorem, the three refinements included; only
`PrintsShipped`, which is about one table, is not. They rest on these assumptions; TLC evaluates
each at the start of the runs, those of the codec on the shipped tables, and `EncodeTablesCorrect`
with them.

 - `CodeTyped`, `PrefixFree`, `EosAssumption`: the laws of the RFC table, which F* proves in
   `Table.Properties`. The decoder's theorems need no bound on the code lengths.
 - `TableTyped`, `TableCorrect`: each cell is the automaton's step and each flag its padding test,
   which F* proves in `Refine.DfaTable`; `PrintedServesDecoder` below proves it of the script.
 - `BoundsAssumption`, `EncoderBounds`, `CodecBounds`: the caller keeps the length bound, or the shim
   does; no code of a byte is longer than 30 bits; the caller's buffers are as large as the contract asks.
 - `ParsesAssumption`: the shape of the parses that `EncodingDecoded` quantifies over.
 - `GeneratorBounds`, `CodesDistinct`: the table the script reads has at most 257 entries, sequences
   of bits, and a full one has no code twice. It need not be prefix-free.
 - `PipelineBounds`: `MaxEdits` and `MaxFaults` are numbers.
 - `ByteBounds`: a byte has at least two values (256 in the code), and the integers stored as `n` bytes
   fit in them. `WordBounds`, `OperandsFit`: a word has an even number of bits (64 in the code), and the
   operands fit in two.

| theorem | states |
|---|---|
| `DecodeEncode` | the reference decoder returns every message from its encoding |
| `EncodeDecode` | the reference decoder accepts nothing but encodings |
| `TypeCorrect` | `Spec => []TypeOK` for the decoder |
| `ParseCorrect` | `Spec => []ParsedPrefix` |
| `AcceptanceSound` | `Spec => []AcceptedIsPadded` |
| `AcceptsEncodings` | `Spec => []AcceptsOnlyEncodings` |
| `RestKept` | `Spec => []RestUntouched` |
| `DecodingComplete` | `Spec => []EncodingDecoded` |
| `DecoderImplements` | `Spec => ImplementsContract`: the decoder refines `DecodeContract` |
| `EncoderTyped` | `Spec => []TypeOK` for the encoder |
| `StreamCorrect` | `Spec => []EncodedSoFar` |
| `LengthsAgree` | `Spec => []LengthExact` |
| `NoOverrun` | `Spec => []WithinLength` |
| `EncodingCorrect` | `Spec => []EmitsCodes` |
| `EncoderRoundTrip` | `Spec => []DecodesToMessage` |
| `EncoderImplements` | `Spec => ImplementsContract`: the encoder refines `EncodeContract` |
| `CodecTyped` | `Spec => []TypeOK` for the shim |
| `RoundTripCorrect` | `Spec => []RoundTrip` |
| `ReportsCorrect` | `Spec => []ReportsThisCall` |
| `AnnouncedCorrect` | `Spec => []AnnouncedIsReturned` |
| `EncodesWhole` | `Spec => WholeOrNothing`, an action property |
| `CapacityKept` | `Spec => CapacityHonoured`, an action property |
| `IdsAreInOrder` | `Spec => []IdsInOrder` for the generator |
| `SearchComplete` | `Spec => []ClosedAndReached` |
| `ExitsAreJustified` | `Spec => []GivesUpWithCause` |
| `PrintedIsAutomaton` | `Spec => []PrintsAutomaton` |
| `PrintedServesDecoder` | `Spec => []ServesDecoder` |
| `ModulesStayWhole` | `Spec => []ModulesWhole` for the pipeline |
| `TreeFromOneExtraction` | `Spec => []OneExtraction` |
| `GenerateVendorsCurrent` | `Spec => []VendorsCurrentModules` |
| `VerifiedTreeIsTheTable` | `Spec => []VerifiedShipsTable` |
| `WireOrderCorrect` | `TransferSpec => []WireOrder` for the byte order |
| `ReadsBackCorrect` | `TransferSpec => []ReadsBack` |
| `ArithmeticCorrect` | `Spec => ImplementsNumbers`: the 128-bit integers refine `UInt128Spec` |

*Reference codec.* Its decoder is a recursive function and its encoder a fold, so the proofs need
induction. `NatSetInduction` gets it for sets of numbers from the well-foundedness of `<`; `Stages`
and `DecodeGo` then give the decoder's states one by one, and `EncodeBits` the encoder's positions
(`LaysOut`: symbol `k` stands between `at[k - 1]` and `at[k]`). `DecodeEncode`: inside a code the
decoder waits (`NoCodeInside` is prefix-freeness), at its end it emits that symbol, and it accepts
the padding (`ReadsInside`, `ReadsSymbol`, `LaidOutDecodes`). `EncodeDecode`: a live state is a parse
of the bits read (`LiveIsParsed`), and a parse padded with at most seven ones is one encoding only
(`EncodingUnique`). `Grows` and `StepPrefixed` say that the output only grows and does not depend on
what was emitted before; the refinement proofs use them.

*Decoder.* `TypeOK` and `ParsedPrefix` are each inductive, the second given the first. A lemma
follows four `bit_step`s through a nibble and shows that a cell that is right for the automaton adds
the four bits to the parse (`NibbleFollows`, `CellFollows`); `Emit` and `Advance` then preserve
`ParsedPrefix` by `SymbolRead` and `NoSymbolRead`. `AcceptedIsPadded` needs in addition that the
accept flag of the final state is the padding test of its partial codeword; with `EncodingUnique`
the parse and the padding give `AcceptsOnlyEncodings`.

*Completeness* needs more, because `ParsedPrefix` alone allows a decoder that never emits. The
strengthening for completeness, `CleanResidue`, adds that no code is a prefix of the partial
codeword of a state the call reaches (kept by each bit, `BitStepTight`). With prefix-freeness, two parses of
the same bits then agree symbol by symbol (`SameStart`, `NoOtherSymbol`), so a valid encoding is
neither rejected (`NotRejected`) nor ended early (`AllRead`).

*Decoder refinement.* `Tracks` ties the loop to the reference decoder: after `g` bits that decoder is
in the state `cur` stands for and has emitted what is stored. A turn keeps it (`CellTracks`), and the
three ways to return answer as the contract allows: at the end with the whole output (`EndAnswers`),
at a dead cell or a full destination with the first bytes of it (`GiveUpAnswers`).

*Encoder.* The invariant is `IInv`: the type invariant; the bit counts (`Counted`: `ends` are the
partial sums of the code lengths, and after `encode_len` its answer is their total in bytes); where
stores have happened (`Kept`: below `out`, in order, nothing beyond); that the codes read end within
what has been produced (`Placed`); and three of the properties. The properties alone are not
inductive: `LengthExact` compares `elen` with a count of drained bytes that no step relates to it,
unless `Counted` and `EncodedSoFar` tie both to the same sum. `WithinLength` then follows from `Kept`
and the bound of every partial sum by the total. One lemma per action (`SumStep`, `LenReturn`,
`LoopStep`, `PaddedStep`, `AlignedStep`) gives `Inductive`; `ShiftInWindow`, `ByteAtBits` and
`DrainedCell` say what the bit operations do to a window of the accumulator. When the call has
returned, the result is laid out as the codes and ones, so it is `Encoding(src)`
(`ResultIsEncoding`): the round trip is then `DecodeEncode`, and the refinement follows step by step.

*Shim.* The invariant adds to the types what each buffer holds: `Encoded`, the first `elen` cells of
`enc` are the encoding of the latest message `encode` accepted, which a refused call leaves alone;
`Announced`, the latest announcement is the length `encode` would return; `Decoded`, `rc`, `out_len`
and the first `out_len` cells of `dec` are an answer to the latest stream and capacity.
`RoundTrip` and `ReportsThisCall` relate values that different calls left, so neither is inductive
alone. The bound keeps the casts exact (`NoWrap`), the clamp keeps whatever the stream can need
(`Clamped`, `SeesAll`), and `EncodingFits` bounds an encoding by `4 * len`.

*Generator.* That the search ends with a closed set says nothing of the turns before, so the
invariant `Inv` says what a turn has done: the queue is the end of the order that is not expanded
yet and no state has two ids (`Ids`); each state was found as a successor of one with a smaller id
(`Reached`); the successors of every expanded state, and those of the state at hand that have been
looked at, are found (`Closed`). `IInv` adds the rows: every row so far is the cells and the flag of
its state (`Rows`), which later states do not change because ids never do; what each phase has
established (`Phases`); and `GivesUpWithCause`. A nibble emits two symbols only if a code of a byte has three bits
or fewer (`NibbleEmits`), and a state too long for its key is part of a code that is too long
(`LongStateLongCode`, by its first over-long state on the way from the start). `AutomatonStep`
shows that the script's walk and `step` of `HuffmanSpec` match when codes are distinct, and `CellPacks`
that a cell names that state, so what is printed is the automaton (`PrintedIsAutomaton`). For 256
states in chunks of 256 this is `TableTyped` and `TableCorrect` for the printed chunks, flags and
keys (`PrintedServesDecoder`), and the decoder's theorems apply to whatever the script prints.

*Pipeline.* `VerifiedShipsTable` compares what two targets left behind, perhaps with others between,
so `Inv` follows the running target (`Schedule`: what it has to do is the rest of its recipe) and
records what each command has left for those after it: the tables printed (`Printed`), the files
staged by the extraction (`Staged`), the files copied so far (`Copied`). `OneSource` holds all whole
files to one extraction, and `Ships` is what a target that ended well has established. `Places`,
`Position` and `Progress` say which command of which recipe is next; then there is one lemma for
each action.

*Byte order and 128-bit integers* rest on the digits of a number in a base: a number is its digits,
digits are those of the number they make, and both halves of the digits are a quotient and a
remainder (`NumberOfDigits`, `DigitsOfNumber`, `TwoHalves` and their like in `NaturalProofs`, by
induction on the number of digits).

*Byte order.* A conversion is then a permutation of an integer's bytes: the shifts and masks of the
generic branches reverse four bytes (`Swap32`), and by exchanging the halves eight (`Swap64`), as
the system's conversions do. So a conversion is nothing between equal orders and a reversal between
different ones (`Converts`), and the bytes come out in the order asked for (`StoredBytes`). The
big-endian `htole64` is set apart (`MisplacedTwice`: it undoes itself). Accessors of 128 bits store and load two words at the right places (`StoreWord`,
`Store128`, `Loaded128`). The invariant `IInv` says that the buffer is what the store made of an
empty one (`StoreMade`) and the result what the load made of the buffer (`LoadMade`), since
`ReadsBack` alone relates a value only to a value of another call; `LoadsNumber` and
`LoadsMisplaced` then give what comes back.

*128-bit integers.* The bitwise operators are defined by bits, and a bit of a result is found from
the same bit of the operands (`AndBits`, `OrBits`, `XorBits`), so laws about words follow from laws
about {0, 1}. `SignBitIs` is the trick behind the constant-time comparisons: the top bit of
`x ^ ((x ^ y) | ((x - y) ^ y))` says whether `x < y`, by the top bits of three words; the masks are then all ones or
zero (`GteMaskIs`, `EqMaskIs`), and the carry of a sum and the borrow of a difference are that bit
(`SumOfPairs`, `DifferenceOfPairs`). A shift by less than a word splits both words in the same place
(`SmallLeft`, `SmallRight`), one by a word or more is a shift of one of them (`LargeLeft`,
`LargeRight`). A product is put together from four products of half words, none of whose sums wraps
(`ShortProduct`, `LongProduct`). The SSE code compares four lanes at once (`MsvcLanes`,
`MsvcEqMask`). `VerifiedAnswers`, `Gcc64Answers` and `MsvcAnswers` collect this for every
operation and its arguments. The invariant `Represents`, that what the caller holds stands for one of
the operands, makes each step a call of `UInt128Spec`.

**Model-checked only.** `Terminates`, because liveness is out of the prover's reach. `PrintsShipped`,
which compares 4096 constants. And that each assumption holds of the shipped tables, which TLC
evaluates and F* proves. The three disagreements with documents are counterexamples and need no proof.

## What is not modelled

 - `test/ref_huffman.c` and the differential test. The reference codec is nghttp2's, vendored; a
   model of it would be a copy of its 4112 cells. What the test compares, agreement on accepted
   streams, is checked against the reference decoder of the F* sources (`ImplementsContract`).
 - `gen_lowstar_tables.py` prints the first 256 entries one after the other and has no state; its
   output is checked in full by `EncodeTablesCorrect`.
 - The F* lemmas, which are proofs about the definitions modelled here, and the facade, which renames.
 - In the pipeline: `make clean`, F*'s cache of checked modules (keyed by content), and the layout
   of the printed modules.
 - In the headers: compiler attributes, abort and loop macros; the masks of other widths (the same
   code over another width); the 128-bit multiplication that only the `__int128` header has; the
   branch of the MSVC `gte_mask` that is disabled with `&& 0`.
 - Overlapping buffers: the contract excludes them, although the extracted header does not say so.

## Further work

The operations left out of the 128-bit integers: the masks of other widths and the second
multiplication of the `__int128` header. A composition of `Codec` with `DfaDecoder` and `Encoder` as
machines, in place of their answers, would make a theorem of the argument above that a call of the
shim may be one step.
