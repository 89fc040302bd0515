---- MODULE DfaDecoder ----
(***************************************************************************)
(* One call of Hpack_Huffman_decode: the loop dfa_loop of                  *)
(* cbits/generated/Hpack_Huffman.c, one action per way through its body.   *)
(* The bit index, the bit total and the byte count are uint32 in the code  *)
(* and wrap at U32 here; table cells and state ids stay far below 2^32.    *)
(***************************************************************************)
EXTENDS NibbleTable

CONSTANTS U32,     \* the number of uint32 values
          MaxLen,  \* src_len < MaxLen, the caller's obligation
          DstLen,  \* the length of the destination buffer
          Inputs,  \* the byte strings the caller may pass
          Parses,  \* messages, each with the bit position where every code ends
          Old      \* what a destination cell holds before the call

ASSUME BoundsAssumption ==
    /\ MaxLen \in Nat /\ DstLen \in Nat /\ U32 \in Nat \ {0}
    /\ 8 * MaxLen <= U32
    /\ DstLen < U32
    /\ Old \notin Byte
    /\ \A s \in Inputs : s \in Seq(Byte) /\ Len(s) < MaxLen

ASSUME ParsesAssumption ==
    \A p \in Parses : /\ p.msg \in Seq(Byte) /\ p.ends \in Seq(Nat)
                      /\ Len(p.ends) = Len(p.msg)

VARIABLES src, dst_cap,           \* the arguments
          dst, out_len, rc,       \* what the caller finds afterwards
          pc, g, cur, written,    \* the loop's state
          cut                     \* ghost: cut[k] is the bit after the k-th symbol's code

vars == <<src, dst_cap, dst, out_len, rc, pc, g, cur, written, cut>>
args == <<src, dst_cap>>

Init ==
    /\ src \in Inputs /\ dst_cap \in 0..DstLen
    /\ dst = [i \in 0..DstLen - 1 |-> Old]
    /\ out_len = 0 /\ rc = 1
    /\ pc = "loop"
    /\ g = 0 /\ cur = 0 /\ written = 0
    /\ cut = <<>>

--------------------------------------------------------------------------
nbit_total == (8 * Len(src)) % U32

(* Mutant of nib: the low nibble of a byte first. *)
nibLowFirst ==
    LET bx == src[g \div 8 + 1]
    IN  IF g % 8 = 0 THEN bx % 16 ELSE bx \div 16

nib ==
    LET bx == src[g \div 8 + 1]
    IN  IF g % 8 = 0 THEN bx \div 16 ELSE bx % 16

cell == read_cell(cur, nib)

Reading == pc = "loop" /\ g # nbit_total

(* Mutant of Return: a failing call reports no bytes. *)
ReturnNothing(r) ==
    /\ pc' = "done"
    /\ rc' = r
    /\ out_len' = (IF r = 0 THEN written ELSE 0)
    /\ UNCHANGED <<args, dst, g, cur, written, cut>>

Return(r) ==
    /\ pc' = "done"
    /\ rc' = r
    /\ out_len' = written
    /\ UNCHANGED <<args, dst, g, cur, written, cut>>

StepOver ==
    /\ g' = (g + 4) % U32
    /\ cur' = cell_next(cell)
    /\ UNCHANGED <<args, out_len, rc, pc>>

(* Mutants of HasRoom: one cell too many, one too few. *)
HasRoomPastEnd == written <= dst_cap
HasRoomForTwo == written + 1 < dst_cap

HasRoom == written < dst_cap

(* Mutant of EndOfInput: any state may end the input. *)
EndAnywhere ==
    /\ pc = "loop" /\ g = nbit_total
    /\ Return(0)

(* The input is used up: the accept flag of the state decides. *)
EndOfInput ==
    /\ pc = "loop" /\ g = nbit_total
    /\ Return(IF dfa_accept[cur] = 1 THEN 0 ELSE -1)

(* The nibble completes EOS inside the stream. *)
Reject ==
    /\ Reading /\ cell_next(cell) = FailId
    /\ Return(-1)

(* Mutants of NoRoom: a truncated answer passes for a whole one; the loop  *)
(* is not left.                                                            *)
NoRoomAccepts ==
    /\ Reading /\ cell_next(cell) # FailId /\ cell_emits(cell)
    /\ ~HasRoom
    /\ Return(0)
NoRoomStays ==
    /\ Reading /\ cell_next(cell) # FailId /\ cell_emits(cell)
    /\ ~HasRoom
    /\ rc' = -1
    /\ UNCHANGED <<args, dst, out_len, pc, g, cur, written, cut>>

(* The nibble completes a symbol and dst is full. *)
NoRoom ==
    /\ Reading /\ cell_next(cell) # FailId /\ cell_emits(cell)
    /\ ~HasRoom
    /\ Return(-1)

(* The nibble completes a symbol, which goes to dst. *)
Emit ==
    /\ Reading /\ cell_next(cell) # FailId /\ cell_emits(cell)
    /\ HasRoom
    /\ dst' = [dst EXCEPT ![written] = cell_sym(cell)]
    /\ written' = (written + 1) % U32
    /\ cut' = Append(cut, g + 4 - Len(state_bits[cell_next(cell)]))
    /\ StepOver

(* The nibble completes no symbol. *)
Advance ==
    /\ Reading /\ cell_next(cell) # FailId /\ ~cell_emits(cell)
    /\ UNCHANGED <<dst, written, cut>>
    /\ StepOver

Returned == pc = "done" /\ UNCHANGED vars

Loop == EndOfInput \/ Reject \/ NoRoom \/ Emit \/ Advance

Next == Loop \/ Returned

Spec == Init /\ [][Next]_vars /\ WF_vars(Loop)

--------------------------------------------------------------------------
(* The variables range over what the code's types and the call allow. *)
TypeOK ==
    /\ src \in Seq(Byte) /\ Len(src) < MaxLen
    /\ dst_cap \in 0..DstLen
    /\ dst \in [0..DstLen - 1 -> Byte \cup {Old}]
    /\ out_len \in 0..dst_cap /\ rc \in {-1, 0, 1}
    /\ pc \in {"loop", "done"}
    /\ g \in 0..8 * Len(src) /\ g % 4 = 0
    /\ cur \in StateId
    /\ written \in 0..dst_cap
    /\ cut \in Seq(Int) /\ Len(cut) = written

Start(k) == IF k = 0 THEN 0 ELSE cut[k]  \* where the code after k symbols starts

MatchesAt(bits, from) ==
    \A i \in 1..Len(bits) : bit_at(src, from + i - 1) = bits[i]

(* What has been read is, bit for bit, the codes of the bytes written, in  *)
(* order, then the partial codeword of the current state: however codes    *)
(* straddle nibbles, bytes and table chunks, no bit is lost or read twice. *)
ParsedPrefix ==
    /\ \A k \in 1..written :
          /\ dst[k - 1] \in Byte
          /\ cut[k] = Start(k - 1) + Len(Code[dst[k - 1]])
          /\ MatchesAt(Code[dst[k - 1]], Start(k - 1))
    /\ Start(written) + Len(state_bits[cur]) = g
    /\ MatchesAt(state_bits[cur], Start(written))

(* A call that answers 0 has read the whole input, and what follows the    *)
(* last symbol's code is at most seven bits, all ones.                     *)
AcceptedIsPadded ==
    rc = 0 =>
        /\ out_len = written
        /\ g = 8 * Len(src)
        /\ g - Start(out_len) <= 7
        /\ \A i \in Start(out_len)..g - 1 : bit_at(src, i) = 1

(* A call that answers 0 was given the one encoding of the bytes it        *)
(* returns: no second stream, with EOS in it, a spare byte of padding or   *)
(* a zero in it, is taken for the same message.                            *)
AcceptsOnlyEncodings ==
    rc = 0 => src = Encoding([k \in 1..out_len |-> dst[k - 1]])

(* Bytes of dst past the reported length keep what they held, whether the  *)
(* call accepts, rejects or runs out of room.                              *)
RestUntouched ==
    pc = "done" => \A i \in out_len..DstLen - 1 : dst[i] = Old

(* src is p.msg encoded: its codes one after the other, ending where       *)
(* p.ends says, then at most seven ones.                                   *)
EndOf(p, k) == IF k = 0 THEN 0 ELSE p.ends[k]
IsParse(p) ==
    LET n == Len(p.msg)
    IN  /\ 8 * Len(src) - EndOf(p, n) \in 0..7
        /\ \A i \in EndOf(p, n)..8 * Len(src) - 1 : bit_at(src, i) = 1
        /\ \A k \in 1..n :
              /\ p.ends[k] = EndOf(p, k - 1) + Len(Code[p.msg[k]])
              /\ p.ends[k] <= 8 * Len(src)
              /\ MatchesAt(Code[p.msg[k]], EndOf(p, k - 1))

(* An encoded message is decoded: the call answers 0 with the message when *)
(* it fits, and -1 with as much of it as fits when it does not.            *)
EncodingDecoded ==
    pc = "done" => \A p \in Parses : IsParse(p) =>
        LET n == Len(p.msg)
        IN  /\ rc = (IF n <= dst_cap THEN 0 ELSE -1)
            /\ out_len = (IF n <= dst_cap THEN n ELSE dst_cap)
            /\ \A k \in 1..out_len : dst[k - 1] = p.msg[k]

(* The call returns, whatever the input and the capacity. *)
Terminates == <>(pc = "done")

Result ==
    IF pc = "done" THEN [rc |-> rc, out |-> [i \in 1..out_len |-> dst[i - 1]]]
    ELSE [rc |-> 1, out |-> <<>>]

(* The call answers as Lowstar.Dfa.fsti promises: one answer, right for    *)
(* every stream the reference decoder accepts or rejects.                  *)
Contract == INSTANCE DecodeContract WITH answer <- Result
ImplementsContract == Contract!Spec
====
