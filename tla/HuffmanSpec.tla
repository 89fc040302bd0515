---- MODULE HuffmanSpec ----
(***************************************************************************)
(* The reference decoder of the F* development (Spec.Codec, Spec.Decode,   *)
(* Spec.Dfa), over any code.  The source carries a partial codeword as a   *)
(* pair (acc, nbits), the nbits-bit number acc; here it is that bit        *)
(* string.  An automaton state also collects the bytes it has emitted.     *)
(***************************************************************************)
EXTENDS Integers, Sequences, SequencesExt

CONSTANT Code  \* Code[y] is the bit string of symbol y's code

Bit  == {0, 1}
Byte == 0..255
EOS  == 256
Symbol == 0..256

(* What Table.Properties proves of the RFC table: symbols have codes, no   *)
(* code is a prefix of another, and EOS is more than 7 ones.               *)
CodesDiffer(y, z) ==
    \E i \in 1..Len(Code[y]) : i <= Len(Code[z]) /\ Code[y][i] # Code[z][i]

ASSUME CodeTyped == Code \in [Symbol -> Seq(Bit)]

ASSUME PrefixFree == \A y, z \in Symbol : y # z => CodesDiffer(y, z)

ASSUME EosAssumption ==
    /\ Len(Code[EOS]) > 7
    /\ \A i \in 1..Len(Code[EOS]) : Code[EOS][i] = 1

--------------------------------------------------------------------------
(* Bytes as bits, most significant first; positions count from 0. *)

Weight == <<128, 64, 32, 16, 8, 4, 2, 1>>

bit_at(bytes, g) == (bytes[g \div 8 + 1] \div Weight[(g % 8) + 1]) % 2

bytes_to_bits(bytes) == [i \in 1..8 * Len(bytes) |-> bit_at(bytes, i - 1)]

nibble_bits(n) == <<(n \div 8) % 2, (n \div 4) % 2, (n \div 2) % 2, n % 2>>

--------------------------------------------------------------------------
(* The automaton: a state is live with a partial codeword, or failed. *)

Live(bits) == [live |-> TRUE, bits |-> bits, out |-> <<>>]
Fail == [live |-> FALSE, bits |-> <<>>, out |-> <<>>]

Codeword == {Code[y] : y \in Symbol}
lookup_v(bits) == CHOOSE y \in Symbol : Code[y] = bits

(* One bit: extend the partial codeword; a complete codeword is emitted, EOS fails. *)
bit_step(s, b) ==
    LET bits == Append(s.bits, b)
    IN  IF ~s.live THEN s
        ELSE IF bits \notin Codeword THEN [s EXCEPT !.bits = bits]
        ELSE IF bits = Code[EOS] THEN [Fail EXCEPT !.out = s.out]
        ELSE [Live(<<>>) EXCEPT !.out = Append(s.out, lookup_v(bits))]

(* Four bits: the transition the table implements. *)
step(s, n) ==
    LET b == nibble_bits(n)
    IN  bit_step(bit_step(bit_step(bit_step(s, b[1]), b[2]), b[3]), b[4])

valid_padding_v(bits) == Len(bits) <= 7 /\ \A i \in 1..Len(bits) : bits[i] = 1

is_accepting(s) == s.live /\ valid_padding_v(s.bits)

(* The states of the greedy decoder: the k-th after k bits. *)
decode_go(bits) ==
    LET state[k \in 0..Len(bits)] ==
            IF k = 0 THEN Live(<<>>) ELSE bit_step(state[k - 1], bits[k])
    IN  state

(* The whole of a bit string: its bytes, when it is a valid encoding. *)
decode_bits(bits) ==
    LET end == decode_go(bits)[Len(bits)]
    IN  [ok |-> is_accepting(end), out |-> end.out]

--------------------------------------------------------------------------
(* What decoding may answer (Lowstar.Dfa.fsti, decode_dfa, and             *)
(* ARCHITECTURE.md for a destination too small): 0 and the decoded bytes   *)
(* when the stream is valid and they fit, and -1 otherwise, with some      *)
(* first bytes of them, never more than the destination holds.             *)
DecodeAnswers(bytes, cap) ==
    LET d == decode_bits(bytes_to_bits(bytes))
    IN  IF d.ok /\ Len(d.out) <= cap
        THEN {[rc |-> 0, out |-> d.out]}
        ELSE {[rc |-> -1, out |-> SubSeq(d.out, 1, n)] :
                  n \in {m \in 0..cap : m <= Len(d.out)}}

--------------------------------------------------------------------------
(* Encoding: the codes one after the other, then ones up to the next byte. *)

encode_bits(bytes) == FlattenSeq([k \in 1..Len(bytes) |-> Code[bytes[k]]])

(* The byte whose bits stand after the first p of a bit string. *)
byte_at(bits, p) ==
    128 * bits[p + 1] + 64 * bits[p + 2] + 32 * bits[p + 3] + 16 * bits[p + 4]
      + 8 * bits[p + 5] + 4 * bits[p + 6] + 2 * bits[p + 7] + bits[p + 8]

padded(bytes) == encode_bits(bytes) \o <<1, 1, 1, 1, 1, 1, 1>>

Encoding(bytes) ==
    [j \in 1..Len(padded(bytes)) \div 8 |-> byte_at(padded(bytes), 8 * (j - 1))]
====
