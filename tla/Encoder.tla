---- MODULE Encoder ----
(***************************************************************************)
(* A caller who sizes a message with Hpack_Huffman_encode_len and then     *)
(* encodes it with Hpack_Huffman_encode (cbits/generated/Hpack_Huffman.c): *)
(* sum_loop counts the bits; encode_loop shifts each code into a 64-bit    *)
(* accumulator and drains whole bytes; encode pads the last one.           *)
(*                                                                         *)
(* A pair (huff_code[b], huff_len[b]) is the bit string Code[b], and the   *)
(* accumulator is the string of its W bits, most significant first, so     *)
(* what a shift pushes out is lost.                                        *)
(***************************************************************************)
EXTENDS HuffmanSpec

CONSTANTS U32, U64, \* the numbers of uint32 and of uint64 values
          MaxLen,   \* len < MaxLen, the caller's obligation
          Messages, \* the byte strings the caller may encode
          Old       \* what a destination cell holds before the call

W == 64  \* the width of the accumulator

(* len_in_range: no code is longer than 30 bits.  With len < 2^27 the      *)
(* total then fits 32 bits.                                                *)
ASSUME EncoderBounds ==
    /\ MaxLen \in Nat /\ U32 \in Nat /\ U64 \in Nat
    /\ 32 * MaxLen <= U32 /\ U32 <= U64
    /\ Old \notin Byte
    /\ \A y \in Byte : Len(Code[y]) <= 30
    /\ \A m \in Messages : m \in Seq(Byte) /\ Len(m) < MaxLen

VARIABLES src, dst,        \* the arguments; dst has 4 * len + 1 cells
          pc, i,           \* the call and its position in src
          acc, elen,       \* encode_len: the bits so far, the answer
          out, nbits, bits, \* encode: bytes out, and the accumulator's residue
          ret,             \* encode: the answer
          ends             \* ghost: ends[k] is acc after k symbols

vars == <<src, dst, pc, i, acc, elen, out, nbits, bits, ret, ends>>
lengths == <<acc, elen, ends>>
stream == <<dst, out, nbits, bits, ret>>

Zero == [m \in 1..W |-> 0]

Init ==
    /\ src \in Messages
    /\ dst = [k \in 0..4 * Len(src) |-> Old]
    /\ pc = "encode_len" /\ i = 0
    /\ acc = 0 /\ elen = 0 /\ ends = <<>>
    /\ out = 0 /\ nbits = 0 /\ bits = Zero /\ ret = 0

--------------------------------------------------------------------------
(* encode_len *)

sum_loop ==
    /\ pc = "encode_len" /\ i # Len(src)
    /\ acc' = (acc + Len(Code[src[i + 1]])) % U64
    /\ ends' = Append(ends, acc')
    /\ i' = i + 1
    /\ UNCHANGED <<src, pc, elen, stream>>

(* Mutant of encode_len: rounded down. *)
encode_len_floor ==
    /\ pc = "encode_len" /\ i = Len(src)
    /\ elen' = (acc \div 8) % U32
    /\ pc' = "encode" /\ i' = 0
    /\ UNCHANGED <<src, acc, ends, stream>>

encode_len ==
    /\ pc = "encode_len" /\ i = Len(src)
    /\ elen' = ((acc + 7) \div 8) % U32
    /\ pc' = "encode" /\ i' = 0
    /\ UNCHANGED <<src, acc, ends, stream>>

--------------------------------------------------------------------------
(* encode *)

(* bits << cb | code *)
(* Mutant of ShiftIn: a code longer than 16 bits is shifted by 16 only. *)
ShiftInShort(w, code) ==
    LET c == IF Len(code) <= 16 THEN Len(code) ELSE 16
    IN  [m \in 1..W |-> IF m <= W - c THEN w[m + c] ELSE code[m - (W - Len(code))]]

ShiftIn(w, code) ==
    [m \in 1..W |-> IF m <= W - Len(code) THEN w[m + Len(code)]
                    ELSE code[m - (W - Len(code))]]

(* (uint8_t)(bits >> shift) *)
ByteAt(w, shift) ==
    LET b(j) == w[W - shift - 8 + j]
    IN  128 * b(1) + 64 * b(2) + 32 * b(3) + 16 * b(4)
          + 8 * b(5) + 4 * b(6) + 2 * b(7) + b(8)

(* Mutant of LowBitsOf: one bit too many survives the mask. *)
LowBitsOneMore(w, n) == [m \in 1..W |-> IF m < W - n THEN 0 ELSE w[m]]

(* bits & ((1 << n) - 1) *)
LowBitsOf(w, n) == [m \in 1..W |-> IF m <= W - n THEN 0 ELSE w[m]]

(* Mutant of Drained: the last byte first. *)
DrainedBackwards(buf, at, w, n) ==
    [k \in DOMAIN buf |->
        IF k \in at..at + n \div 8 - 1 THEN ByteAt(w, (n % 8) + 8 * (k - at)) ELSE buf[k]]

(* The bytes of w's lowest n bits, from the top, after the first `at` of buf. *)
Drained(buf, at, w, n) ==
    [k \in DOMAIN buf |->
        IF k \in at..at + n \div 8 - 1 THEN ByteAt(w, n - 8 * (k - at + 1)) ELSE buf[k]]

encode_loop ==
    /\ pc = "encode" /\ i # Len(src)
    /\ LET code == Code[src[i + 1]]
           bits1 == ShiftIn(bits, code)
           nbits1 == nbits + Len(code)
       IN  /\ dst' = Drained(dst, out, bits1, nbits1)
           /\ out' = (out + nbits1 \div 8) % U32
           /\ nbits' = nbits1 % 8
           /\ bits' = LowBitsOf(bits1, nbits1 % 8)
    /\ i' = i + 1
    /\ UNCHANGED <<src, pc, ret, lengths>>

(* Mutant of Pads: an aligned result is padded with a byte of ones. *)
PadsAlways == nbits >= 0

Pads == nbits > 0

(* Mutant of PadOnes: zeros. *)
PadZeros == ByteAt(ShiftIn(bits, [m \in 1..8 - nbits |-> 0]), 0)

(* The last byte: the residue, then ones. *)
PadOnes == ByteAt(ShiftIn(bits, [m \in 1..8 - nbits |-> 1]), 0)

(* Mutant of encode_padded: the padded byte is not counted. *)
encode_padded_uncounted ==
    /\ pc = "encode" /\ i = Len(src) /\ Pads
    /\ dst' = [dst EXCEPT ![out] = PadOnes]
    /\ ret' = out
    /\ pc' = "done"
    /\ UNCHANGED <<src, i, out, nbits, bits, lengths>>

encode_padded ==
    /\ pc = "encode" /\ i = Len(src) /\ Pads
    /\ dst' = [dst EXCEPT ![out] = PadOnes]
    /\ ret' = (out + 1) % U32
    /\ pc' = "done"
    /\ UNCHANGED <<src, i, out, nbits, bits, lengths>>

(* Mutant of encode_aligned: nothing to do for an empty message. *)
encode_nonempty ==
    /\ pc = "encode" /\ i = Len(src) /\ ~Pads /\ out > 0
    /\ ret' = out
    /\ pc' = "done"
    /\ UNCHANGED <<src, dst, i, out, nbits, bits, lengths>>

encode_aligned ==
    /\ pc = "encode" /\ i = Len(src) /\ ~Pads
    /\ ret' = out
    /\ pc' = "done"
    /\ UNCHANGED <<src, dst, i, out, nbits, bits, lengths>>

Returned == pc = "done" /\ UNCHANGED vars

Calls == sum_loop \/ encode_len \/ encode_loop \/ encode_padded \/ encode_aligned

Next == Calls \/ Returned

Spec == Init /\ [][Next]_vars /\ WF_vars(Calls)

--------------------------------------------------------------------------
(* No count leaves its type or its buffer, and above its residue the       *)
(* accumulator is clear.                                                   *)
TypeOK ==
    /\ src \in Seq(Byte) /\ Len(src) < MaxLen
    /\ dst \in [0..4 * Len(src) -> Byte \cup {Old}]
    /\ pc \in {"encode_len", "encode", "done"}
    /\ i \in 0..Len(src)
    /\ acc \in 0..30 * Len(src) /\ ends \in Seq(Nat)
    /\ elen \in 0..4 * Len(src)
    /\ out \in 0..4 * Len(src) /\ ret \in 0..4 * Len(src)
    /\ nbits \in 0..7
    /\ bits \in [1..W -> Bit] /\ \A m \in 1..W - nbits : bits[m] = 0

(* Where the code of the next symbol starts after k symbols. *)
EndOf(k) == IF k = 0 THEN 0 ELSE ends[k]

(* Bit p of what encode has produced: drained to dst, or still in bits. *)
StreamBit(p) ==
    IF p < 8 * out THEN (dst[p \div 8] \div Weight[(p % 8) + 1]) % 2
    ELSE bits[W - nbits + (p - 8 * out) + 1]

(* The bytes drained, then the accumulator's residue, are the codes of the *)
(* symbols read, each where encode_len counted it.                         *)
EncodedSoFar ==
    pc = "encode" =>
        /\ 8 * out + nbits = EndOf(i)
        /\ \A k \in 1..i : \A j \in 1..Len(Code[src[k]]) :
              StreamBit(EndOf(k - 1) + j - 1) = Code[src[k]][j]

(* encode returns the length encode_len announced. *)
LengthExact == pc = "done" => ret = elen

(* encode stores nothing past the announced length, at any moment: a       *)
(* buffer of encode_len bytes would do, though the contract asks for       *)
(* 4 * len + 1.                                                            *)
WithinLength ==
    pc # "encode_len" => \A k \in DOMAIN dst : k >= elen => dst[k] = Old

encoded == [k \in 1..ret |-> dst[k - 1]]

(* The result is the codes of the message one after the other, ending      *)
(* where encode_len counted, and at most seven ones up to the next byte.   *)
EmitsCodes ==
    pc = "done" =>
        LET n == Len(src)
        IN  /\ encoded \in Seq(Byte)
            /\ 8 * ret - EndOf(n) \in 0..7
            /\ \A p \in EndOf(n)..8 * ret - 1 : bit_at(encoded, p) = 1
            /\ \A k \in 1..n :
                  /\ ends[k] = EndOf(k - 1) + Len(Code[src[k]])
                  /\ ends[k] <= 8 * ret
                  /\ \A j \in 1..Len(Code[src[k]]) :
                        bit_at(encoded, EndOf(k - 1) + j - 1) = Code[src[k]][j]

(* The result is a valid encoding of the message and of no other: the      *)
(* reference decoder accepts it and returns the message.                   *)
DecodesToMessage ==
    pc = "done" => decode_bits(bytes_to_bits(encoded)) = [ok |-> TRUE, out |-> src]

(* Both calls return. *)
Terminates == <>(pc = "done")

(* The two calls answer, in their order, what Lowstar.Codec.fst promises   *)
(* of them: the length, then the encoding, whole and in that length.       *)
Answered(done, x) == IF done THEN [called |-> TRUE, value |-> x] ELSE [called |-> FALSE]
Contract == INSTANCE EncodeContract WITH
    announced <- Answered(pc # "encode_len", elen),
    answer <- Answered(pc = "done", encoded)
ImplementsContract == Contract!Spec
====
