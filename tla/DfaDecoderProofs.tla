---- MODULE DfaDecoderProofs ----
(***************************************************************************)
(* Proofs about dfa_loop, for every prefix-free code whose EOS is more     *)
(* than seven ones and for every table that implements its automaton (the  *)
(* assumptions of HuffmanSpec and NibbleTable).  The loop stays inside its *)
(* buffers, its position always splits the input into the codes of what    *)
(* it wrote and one partial codeword, and what it accepts is padded; the   *)
(* last part is the converse.                                              *)
(***************************************************************************)
EXTENDS DfaDecoder, HuffmanSpecProofs

(* A cell's successor is a state or the fail id, and its symbol is a byte. *)
LEMMA CellTyped ==
    ASSUME NEW id \in StateId, NEW n \in Nibble
    PROVE  /\ read_cell(id, n) \in Nat
           /\ cell_next(read_cell(id, n)) \in 0..FailId
           /\ cell_sym(read_cell(id, n)) \in Byte
<1>1. PICK p \in 0..4095 : p = id * 16 + n
  BY DEF StateId, Nibble
<1>2. PICK k \in 0..15 : k = p \div 256
  <2>1. p \div 256 \in 0..15
    OBVIOUS
  <2> QED
    BY <2>1
<1>3. read_cell(id, n) \in Nat
  <2>1. read_cell(id, n) = dfa_chunk[k][p % 256]
    BY <1>1, <1>2 DEF read_cell, read_chunk
  <2>2. dfa_chunk[k] \in Chunk
    BY TableTyped
  <2>3. p % 256 \in 0..255
    OBVIOUS
  <2> QED
    BY <2>1, <2>2, <2>3 DEF Chunk
<1>4. cell_next(read_cell(id, n)) <= FailId
  <2>1. CellOK(id, n)
    BY TableCorrect
  <2> QED
    BY <2>1 DEF CellOK
<1>5. cell_next(read_cell(id, n)) >= 0 /\ cell_next(read_cell(id, n)) \in Int
  BY <1>3 DEF cell_next
<1>6. cell_sym(read_cell(id, n)) \in Byte
  BY <1>3 DEF cell_sym, Byte
<1> QED
  BY <1>3, <1>4, <1>5, <1>6 DEF FailId

(* Below U32 the wrapping of uint32 is the identity. *)
LEMMA NoWrap ==
    ASSUME NEW x \in Nat, x < U32
    PROVE  x % U32 = x
  BY BoundsAssumption

(* With src_len < MaxLen the bit total is exact. *)
LEMMA BitTotal ==
    ASSUME TypeOK
    PROVE  /\ src \in Seq(Byte) /\ Len(src) \in Nat
           /\ nbit_total = 8 * Len(src)
           /\ nbit_total < U32
<1>1. src \in Seq(Byte) /\ Len(src) < MaxLen
  BY DEF TypeOK
<1>2. 8 * Len(src) \in Nat /\ 8 * Len(src) < U32
  BY <1>1, BoundsAssumption
<1> QED
  BY <1>1, <1>2, NoWrap DEF nbit_total

(* An iteration that reads stays within src: its nibble and the next index. *)
LEMMA NibbleRead ==
    ASSUME TypeOK, Reading
    PROVE  /\ g + 4 \in 0..8 * Len(src)
           /\ (g + 4) % 4 = 0
           /\ (g + 4) % U32 = g + 4
           /\ nib \in Nibble
<1>1. g \in 0..8 * Len(src) /\ g % 4 = 0 /\ g # 8 * Len(src) /\ Len(src) \in Nat
  BY BitTotal DEF TypeOK, Reading
<1>2. g + 4 \in 0..8 * Len(src) /\ (g + 4) % 4 = 0
  BY <1>1
<1>3. (g + 4) % U32 = g + 4
  <2>1. g + 4 \in Nat /\ g + 4 < U32
    BY <1>1, <1>2, BitTotal, BoundsAssumption
  <2> QED
    BY <2>1, NoWrap
<1>4. g \div 8 + 1 \in 1..Len(src)
  BY <1>1
<1>5. src[g \div 8 + 1] \in Byte
  BY <1>4, BitTotal
<1>6. nib \in Nibble
  BY <1>5 DEF nib, Nibble, Byte
<1> QED
  BY <1>2, <1>3, <1>6

--------------------------------------------------------------------------
(* Every reachable state is typed: no index leaves its buffer or its table *)
(* and no uint32 wraps.                                                    *)
THEOREM TypeCorrect == Spec => []TypeOK
<1>1. Init => TypeOK
  BY BoundsAssumption DEF Init, TypeOK, StateId
<1>2. TypeOK /\ [Next]_vars => TypeOK'
  <2> SUFFICES ASSUME TypeOK, [Next]_vars PROVE TypeOK'
    OBVIOUS
  <2>1. CASE EndOfInput
    BY <2>1 DEF EndOfInput, Return, TypeOK, args
  <2>2. CASE Reject
    BY <2>2 DEF Reject, Return, TypeOK, args
  <2>3. CASE NoRoom
    BY <2>3 DEF NoRoom, Return, TypeOK, args
  <2>4. ASSUME Reading, cell_next(cell) # FailId, StepOver
        PROVE  g' \in 0..8 * Len(src') /\ g' % 4 = 0 /\ cur' \in StateId
    <3>1. g' = g + 4 /\ src' = src
      BY <2>4, NibbleRead DEF StepOver, args
    <3>2. cur' \in StateId
      <4>1. cell_next(cell) \in 0..FailId
        BY <2>4, NibbleRead, CellTyped DEF TypeOK, cell
      <4> QED
        BY <2>4, <4>1 DEF StepOver, StateId, FailId
    <3> QED
      BY <2>4, <3>1, <3>2, NibbleRead
  <2>5. CASE Emit
    <3>1. g' \in 0..8 * Len(src') /\ g' % 4 = 0 /\ cur' \in StateId
      BY <2>4, <2>5 DEF Emit
    <3>2. written' = written + 1 /\ written' \in 0..dst_cap
      <4>1. written + 1 \in Nat /\ written + 1 <= dst_cap /\ written + 1 < U32
        BY <2>5, BoundsAssumption DEF Emit, HasRoom, TypeOK
      <4> QED
        BY <2>5, <4>1, NoWrap DEF Emit, TypeOK
    <3>3. dst' \in [0..DstLen - 1 -> Byte \cup {Old}]
      BY <2>5, NibbleRead, CellTyped DEF Emit, TypeOK, cell
    <3>4. cut' \in Seq(Int) /\ Len(cut') = written'
      <4>1. state_bits[cell_next(cell)] \in Seq(Bit)
        <5>1. cell_next(cell) \in 0..FailId
          BY <2>5, NibbleRead, CellTyped DEF Emit, TypeOK, cell
        <5>2. cell_next(cell) \in StateId
          BY <2>5, <5>1 DEF Emit, StateId, FailId
        <5> QED
          BY <5>2, TableTyped
      <4>2. g + 4 - Len(state_bits[cell_next(cell)]) \in Int
        BY <4>1 DEF TypeOK
      <4> QED
        BY <2>5, <3>2, <4>2 DEF Emit, TypeOK
    <3> QED
      BY <2>5, <3>1, <3>2, <3>3, <3>4 DEF Emit, StepOver, TypeOK, args
  <2>6. CASE Advance
    BY <2>4, <2>6 DEF Advance, StepOver, TypeOK, args
  <2>7. CASE UNCHANGED vars
    BY <2>7 DEF vars, TypeOK
  <2> QED
    BY <2>1, <2>2, <2>3, <2>5, <2>6, <2>7 DEF Next, Loop, Returned
<1> QED
  BY <1>1, <1>2, PTL DEF Spec

--------------------------------------------------------------------------
(* The parse: one bit of the reference automaton, then four, then a step   *)
(* of the loop.                                                            *)

(* Started at bit position from with nothing emitted, s has read the input *)
(* up to position i: at most one code, then the partial codeword.          *)
Follows(s, from, i) ==
    s.live =>
        \/ /\ s.out = <<>>
           /\ from + Len(s.bits) = i
           /\ MatchesAt(s.bits, from)
        \/ \E y \in Byte :
              /\ s.out = <<y>>
              /\ MatchesAt(Code[y], from)
              /\ from + Len(Code[y]) + Len(s.bits) = i
              /\ MatchesAt(s.bits, from + Len(Code[y]))
        \/ Len(s.out) >= 2

LEMMA MatchesAppend ==
    ASSUME NEW bits \in Seq(Bit), NEW from \in Int, NEW b \in Bit,
           MatchesAt(bits, from), b = bit_at(src, from + Len(bits))
    PROVE  MatchesAt(Append(bits, b), from)
<1> SUFFICES ASSUME NEW i \in 1..Len(bits) + 1
             PROVE  bit_at(src, from + i - 1) = Append(bits, b)[i]
  BY DEF MatchesAt
<1>1. CASE i <= Len(bits)
  BY <1>1 DEF MatchesAt
<1>2. CASE i = Len(bits) + 1
  <2>1. from + i - 1 = from + Len(bits)
    BY <1>2
  <2> QED
    BY <1>2, <2>1
<1> QED
  BY <1>1, <1>2

LEMMA FollowsExtended ==
    ASSUME NEW s \in State, NEW t \in State, NEW from \in Int, NEW i \in Int,
           NEW b \in Bit, b = bit_at(src, i), s.live, Follows(s, from, i),
           t.bits = Append(s.bits, b), t.out = s.out
    PROVE  Follows(t, from, i + 1)
<1>1. s.bits \in Seq(Bit) /\ Len(s.bits) \in Nat /\ Len(t.bits) = Len(s.bits) + 1
  BY DEF State
<1>2. CASE s.out = <<>> /\ from + Len(s.bits) = i /\ MatchesAt(s.bits, from)
  <2>1. MatchesAt(t.bits, from)
    BY <1>1, <1>2, MatchesAppend
  <2> QED
    BY <1>1, <1>2, <2>1 DEF Follows
<1>3. ASSUME NEW y \in Byte, s.out = <<y>>, MatchesAt(Code[y], from),
             from + Len(Code[y]) + Len(s.bits) = i,
             MatchesAt(s.bits, from + Len(Code[y]))
      PROVE  Follows(t, from, i + 1)
  <2>1. Len(Code[y]) \in Nat
    BY ByteIsSymbol, CodeBits
  <2>2. PICK at \in Int : at = from + Len(Code[y])
    BY <2>1
  <2>3. at + Len(s.bits) = i
    BY <1>1, <1>3, <2>1, <2>2
  <2>4. MatchesAt(t.bits, at)
    BY <1>1, <1>3, <2>2, <2>3, MatchesAppend
  <2>5. at + Len(t.bits) = i + 1
    BY <1>1, <2>3, SMTT(30)
  <2> QED
    BY <1>3, <2>2, <2>4, <2>5 DEF Follows
<1>4. CASE Len(s.out) >= 2
  BY <1>4 DEF Follows
<1> QED
  BY <1>2, <1>3, <1>4 DEF Follows

LEMMA FollowsEmitted ==
    ASSUME NEW s \in State, NEW t \in State, NEW from \in Int, NEW i \in Int,
           NEW b \in Bit, b = bit_at(src, i), s.live, Follows(s, from, i),
           NEW y \in Byte, Code[y] = Append(s.bits, b),
           t.bits = <<>>, t.out = Append(s.out, y)
    PROVE  Follows(t, from, i + 1)
<1>1. s.bits \in Seq(Bit) /\ Len(s.bits) \in Nat /\ Len(Code[y]) = Len(s.bits) + 1
      /\ Len(t.bits) = 0
  BY DEF State
<1>2. CASE s.out = <<>> /\ from + Len(s.bits) = i /\ MatchesAt(s.bits, from)
  <2>1. MatchesAt(Code[y], from)
    BY <1>1, <1>2, MatchesAppend
  <2>2. MatchesAt(t.bits, from + Len(Code[y]))
    BY <1>1 DEF MatchesAt
  <2>3. t.out = <<y>>
    BY <1>2
  <2>4. from + Len(Code[y]) + Len(t.bits) = i + 1
    BY <1>1, <1>2
  <2> QED
    BY <2>1, <2>2, <2>3, <2>4 DEF Follows
<1>3. CASE Len(s.out) >= 1
  <2>1. s.out \in Seq(Byte)
    BY DEF State
  <2>2. Len(t.out) >= 2
    BY <1>3, <2>1
  <2> QED
    BY <2>2 DEF Follows
<1>4. ASSUME NEW z \in Byte, s.out = <<z>>
      PROVE  Len(s.out) >= 1
  BY <1>4
<1>5. Len(s.out) >= 2 => Len(s.out) >= 1
  BY DEF State
<1> QED
  BY <1>2, <1>3, <1>4, <1>5 DEF Follows

LEMMA BitStepFollows ==
    ASSUME NEW s \in State, NEW from \in Int, NEW i \in Int, NEW b \in Bit,
           Follows(s, from, i), b = bit_at(src, i)
    PROVE  bit_step(s, b) \in State /\ Follows(bit_step(s, b), from, i + 1)
<1>1. PICK bits : bits = Append(s.bits, b)
  OBVIOUS
<1>2. PICK t : t = bit_step(s, b)
  OBVIOUS
<1>3. s.bits \in Seq(Bit) /\ s.out \in Seq(Byte) /\ bits \in Seq(Bit)
  BY <1>1 DEF State
<1>4. CASE ~s.live
  BY <1>4 DEF bit_step, Follows
<1>5. CASE s.live /\ bits \notin Codeword
  <2>1. t = [s EXCEPT !.bits = bits]
    BY <1>1, <1>2, <1>5 DEF bit_step
  <2>2. t \in State /\ t.out = s.out /\ t.bits = bits
    BY <1>3, <1>5, <2>1 DEF State
  <2> QED
    BY <1>1, <1>2, <1>5, <2>2, FollowsExtended
<1>6. CASE s.live /\ bits \in Codeword /\ bits = Code[EOS]
  <2>1. t = [live |-> FALSE, bits |-> <<>>, out |-> s.out]
    BY <1>1, <1>2, <1>6 DEF bit_step, Fail
  <2>2. t \in State /\ ~t.live
    BY <1>3, <2>1 DEF State
  <2> QED
    BY <1>2, <2>2 DEF Follows
<1>7. CASE s.live /\ bits \in Codeword /\ bits # Code[EOS]
  <2>1. t = [live |-> TRUE, bits |-> <<>>, out |-> Append(s.out, lookup_v(bits))]
    BY <1>1, <1>2, <1>7 DEF bit_step, Live
  <2>2. PICK y \in Byte : y = lookup_v(bits) /\ Code[y] = bits
    BY <1>7, LookupFinds
  <2>3. t.out = Append(s.out, y) /\ t.bits = <<>> /\ t.live /\ Append(s.out, y) \in Seq(Byte)
    BY <1>3, <1>7, <2>1, <2>2 DEF State
  <2>4. t \in State
    BY <2>1, <2>2, <2>3 DEF State
  <2> QED
    BY <1>1, <1>2, <1>7, <2>2, <2>3, <2>4, FollowsEmitted
<1> QED
  BY <1>4, <1>5, <1>6, <1>7

(* The two nibbles of a byte are its eight bits. *)
LEMMA HighBits ==
    ASSUME NEW b \in Byte
    PROVE  nibble_bits(b \div 16) =
             <<(b \div 128) % 2, (b \div 64) % 2, (b \div 32) % 2, (b \div 16) % 2>>
  BY DEF nibble_bits, Byte

LEMMA LowBits ==
    ASSUME NEW b \in Byte
    PROVE  nibble_bits(b % 16) =
             <<(b \div 8) % 2, (b \div 4) % 2, (b \div 2) % 2, (b \div 1) % 2>>
  BY DEF nibble_bits, Byte

LEMMA NibbleBits ==
    ASSUME TypeOK, Reading, NEW j \in 0..3
    PROVE  nibble_bits(nib)[j + 1] \in Bit /\ nibble_bits(nib)[j + 1] = bit_at(src, g + j)
<1>1. g \in Nat /\ g % 4 = 0 /\ g < 8 * Len(src) /\ Len(src) \in Nat /\ src \in Seq(Byte)
  <2>1. g \in 0..8 * Len(src) /\ g % 4 = 0 /\ g # 8 * Len(src)
    BY BitTotal DEF TypeOK, Reading
  <2> QED
    BY <2>1, BitTotal
<1>2. PICK b \in Byte : b = src[g \div 8 + 1]
  BY <1>1
<1>3. (g + j) \div 8 = g \div 8 /\ (g + j) % 8 = (g % 8) + j
  BY <1>1
<1>4. bit_at(src, g + j) = (b \div Weight[(g % 8) + j + 1]) % 2
  BY <1>2, <1>3 DEF bit_at
<1>5. bit_at(src, g + j) \in Bit
  <2>1. (g % 8) + j + 1 \in 1..8
    BY <1>1, <1>3
  <2>2. PICK w \in Nat \ {0} : w = Weight[(g % 8) + j + 1]
    BY <2>1 DEF Weight
  <2>3. PICK q \in Int : q = b \div w
    BY <2>2 DEF Byte
  <2> QED
    BY <1>4, <2>2, <2>3 DEF Bit
<1>6. CASE g % 8 = 0
  <2>1. nib = b \div 16
    BY <1>2, <1>6 DEF nib
  <2>2. bit_at(src, g + j) = (b \div Weight[j + 1]) % 2
    BY <1>4, <1>6
  <2>3. nibble_bits(nib)[j + 1] = (b \div Weight[j + 1]) % 2
    <3>1. CASE j = 0 BY <2>1, <3>1, HighBits DEF Weight
    <3>2. CASE j = 1 BY <2>1, <3>2, HighBits DEF Weight
    <3>3. CASE j = 2 BY <2>1, <3>3, HighBits DEF Weight
    <3>4. CASE j = 3 BY <2>1, <3>4, HighBits DEF Weight
    <3> QED BY <3>1, <3>2, <3>3, <3>4
  <2> QED
    BY <1>5, <2>2, <2>3
<1>7. CASE g % 8 = 4
  <2>1. nib = b % 16
    BY <1>2, <1>7 DEF nib
  <2>2. bit_at(src, g + j) = (b \div Weight[j + 5]) % 2
    <3>1. (g % 8) + j + 1 = j + 5
      BY <1>7
    <3> QED
      BY <1>4, <3>1
  <2>3. nibble_bits(nib)[j + 1] = (b \div Weight[j + 5]) % 2
    <3>1. CASE j = 0 BY <2>1, <3>1, LowBits DEF Weight
    <3>2. CASE j = 1 BY <2>1, <3>2, LowBits DEF Weight
    <3>3. CASE j = 2 BY <2>1, <3>3, LowBits DEF Weight
    <3>4. CASE j = 3 BY <2>1, <3>4, LowBits DEF Weight
    <3> QED BY <3>1, <3>2, <3>3, <3>4
  <2> QED
    BY <1>5, <2>2, <2>3
<1>8. g % 8 = 0 \/ g % 8 = 4
  BY <1>1
<1> QED
  BY <1>6, <1>7, <1>8

LEMMA NibbleFollows ==
    ASSUME TypeOK, Reading, NEW s \in State, NEW from \in Int, Follows(s, from, g)
    PROVE  Follows(step(s, nib), from, g + 4)
<1> DEFINE b == nibble_bits(nib)
<1>1. \A j \in 0..3 : b[j + 1] \in Bit /\ b[j + 1] = bit_at(src, g + j)
  BY NibbleBits
<1>2. b[1] \in Bit /\ b[1] = bit_at(src, g)
  BY <1>1 DEF TypeOK
<1>3. b[2] \in Bit /\ b[2] = bit_at(src, g + 1)
  BY <1>1
<1>4. b[3] \in Bit /\ b[3] = bit_at(src, g + 2)
  BY <1>1
<1>5. b[4] \in Bit /\ b[4] = bit_at(src, g + 3)
  BY <1>1
<1>6. g \in Int
  BY DEF TypeOK
<1> HIDE DEF b
<1>7. PICK s1 \in State : s1 = bit_step(s, b[1]) /\ Follows(s1, from, g + 1)
  BY <1>2, <1>6, BitStepFollows
<1>8. PICK s2 \in State : s2 = bit_step(s1, b[2]) /\ Follows(s2, from, g + 2)
  BY <1>3, <1>6, <1>7, BitStepFollows
<1>9. PICK s3 \in State : s3 = bit_step(s2, b[3]) /\ Follows(s3, from, g + 3)
  BY <1>4, <1>6, <1>8, BitStepFollows
<1>10. PICK s4 \in State : s4 = bit_step(s3, b[4]) /\ Follows(s4, from, g + 4)
  BY <1>5, <1>6, <1>9, BitStepFollows
<1>11. step(s, nib) = s4
  BY <1>7, <1>8, <1>9, <1>10 DEF step, b
<1> QED
  BY <1>10, <1>11

--------------------------------------------------------------------------
(* One iteration that goes on, in terms of the parse. *)

LEMMA StartTyped ==
    ASSUME TypeOK, NEW k \in 0..written
    PROVE  Start(k) \in Int
  BY DEF TypeOK, Start

LEMMA CellFollows ==
    ASSUME TypeOK, ParsedPrefix, Reading, cell_next(cell) # FailId
    PROVE  /\ cell_next(cell) \in StateId
           /\ Follows([live |-> TRUE, bits |-> state_bits[cell_next(cell)],
                       out |-> IF cell_emits(cell) THEN <<cell_sym(cell)>> ELSE <<>>],
                      Start(written), g + 4)
<1>1. nib \in Nibble /\ cur \in StateId
  BY NibbleRead DEF TypeOK
<1>2. cell_next(cell) \in StateId
  <2>1. cell_next(cell) \in 0..FailId
    BY <1>1, CellTyped DEF cell
  <2> QED
    BY <2>1 DEF StateId, FailId
<1>3. PICK s \in State : s = state_of(cur) /\ s = Live(state_bits[cur])
  <2>1. state_of(cur) = Live(state_bits[cur])
    BY <1>1 DEF state_of, StateId, FailId
  <2>2. state_bits[cur] \in Seq(Bit)
    BY <1>1, TableTyped
  <2>3. Live(state_bits[cur]) \in State
    BY <2>2 DEF Live, State
  <2> QED
    BY <2>1, <2>3
<1>4. Follows(s, Start(written), g)
  BY <1>3 DEF ParsedPrefix, Follows, Live
<1>5. Start(written) \in Int
  BY StartTyped DEF TypeOK
<1>6. PICK t : t = step(s, nib) /\ Follows(t, Start(written), g + 4)
  BY <1>4, <1>5, NibbleFollows
<1>7. CellOK(cur, nib)
  BY <1>1, TableCorrect
<1>8. state_of(cell_next(cell)) = Live(state_bits[cell_next(cell)])
  BY <1>2 DEF state_of, StateId, FailId
<1>9. t.live /\ t.bits = state_bits[cell_next(cell)]
      /\ t.out = IF cell_emits(cell) THEN <<cell_sym(cell)>> ELSE <<>>
  <2>1. t = step(state_of(cur), nib) /\ cell = read_cell(cur, nib)
    BY <1>3, <1>6 DEF cell
  <2>2. /\ t.live = state_of(cell_next(cell)).live
        /\ t.bits = state_of(cell_next(cell)).bits
        /\ t.out = IF cell_emits(cell) THEN <<cell_sym(cell)>> ELSE <<>>
    BY <1>7, <2>1 DEF CellOK
  <2> QED
    BY <1>8, <2>2 DEF Live
<1> QED
  BY <1>2, <1>6, <1>9 DEF Follows

LEMMA SymbolRead ==
    ASSUME TypeOK, ParsedPrefix, Reading, cell_next(cell) # FailId, cell_emits(cell)
    PROVE  /\ cell_sym(cell) \in Byte
           /\ MatchesAt(Code[cell_sym(cell)], Start(written))
           /\ Start(written) + Len(Code[cell_sym(cell)])
                 = g + 4 - Len(state_bits[cell_next(cell)])
           /\ MatchesAt(state_bits[cell_next(cell)],
                        g + 4 - Len(state_bits[cell_next(cell)]))
<1>1. PICK y \in Byte : y = cell_sym(cell)
  BY NibbleRead, CellTyped DEF TypeOK, cell
<1>2. PICK bits \in Seq(Bit) : bits = state_bits[cell_next(cell)]
  BY CellFollows, TableTyped
<1>3. Follows([live |-> TRUE, bits |-> bits, out |-> <<y>>], Start(written), g + 4)
  BY <1>1, <1>2, CellFollows
<1>4. MatchesAt(Code[y], Start(written))
      /\ Start(written) + Len(Code[y]) + Len(bits) = g + 4
      /\ MatchesAt(bits, Start(written) + Len(Code[y]))
  BY <1>3 DEF Follows
<1>5. Len(Code[y]) \in Nat /\ Len(bits) \in Nat /\ Start(written) \in Int /\ g \in Int
  BY ByteIsSymbol, CodeBits, StartTyped DEF TypeOK
<1>6. Start(written) + Len(Code[y]) = g + 4 - Len(bits)
  BY <1>4, <1>5
<1> QED
  BY <1>1, <1>2, <1>4, <1>6

LEMMA NoSymbolRead ==
    ASSUME TypeOK, ParsedPrefix, Reading, cell_next(cell) # FailId, ~cell_emits(cell)
    PROVE  /\ Start(written) + Len(state_bits[cell_next(cell)]) = g + 4
           /\ MatchesAt(state_bits[cell_next(cell)], Start(written))
<1>1. PICK bits : bits = state_bits[cell_next(cell)]
  OBVIOUS
<1>2. Follows([live |-> TRUE, bits |-> bits, out |-> <<>>], Start(written), g + 4)
  BY <1>1, CellFollows
<1> QED
  BY <1>1, <1>2 DEF Follows

(* The invariant of the parse holds in every reachable state. *)
THEOREM ParseCorrect == Spec => []ParsedPrefix
<1>1. Init => ParsedPrefix
  <2> SUFFICES ASSUME Init PROVE ParsedPrefix
    OBVIOUS
  <2>1. state_bits[cur] = <<>> /\ written = 0 /\ g = 0
    BY TableCorrect DEF Init
  <2> QED
    BY <2>1 DEF ParsedPrefix, Start, MatchesAt
<1>2. TypeOK /\ TypeOK' /\ ParsedPrefix /\ [Next]_vars => ParsedPrefix'
  <2> SUFFICES ASSUME TypeOK, TypeOK', ParsedPrefix, [Next]_vars PROVE ParsedPrefix'
    OBVIOUS
  <2>1. CASE UNCHANGED <<src, dst, written, cut, g, cur>>
    BY <2>1 DEF ParsedPrefix, Start, MatchesAt
  <2>2. CASE EndOfInput \/ Reject \/ NoRoom
    BY <2>1, <2>2 DEF EndOfInput, Reject, NoRoom, Return, args
  <2>3. CASE Advance
    <3>1. Reading /\ cell_next(cell) # FailId /\ ~cell_emits(cell)
          /\ src' = src /\ dst' = dst /\ written' = written /\ cut' = cut
          /\ g' = g + 4 /\ cur' = cell_next(cell)
      BY <2>3, NibbleRead DEF Advance, StepOver, args
    <3>2. Start(written) + Len(state_bits[cur']) = g'
          /\ MatchesAt(state_bits[cur'], Start(written))
      BY <3>1, NoSymbolRead
    <3> QED
      BY <3>1, <3>2 DEF ParsedPrefix, Start, MatchesAt
  <2>4. CASE Emit
    <3>a. Reading /\ cell_next(cell) # FailId /\ cell_emits(cell)
      BY <2>4 DEF Emit
    <3>b. PICK n \in Nat : n = Len(state_bits[cell_next(cell)])
      BY <3>a, CellFollows, TableTyped
    <3>c. PICK y \in Byte : y = cell_sym(cell)
      BY <3>a, SymbolRead
    <3>d. PICK e \in Int : e = g + 4 - n /\ e + n = g + 4
      BY DEF TypeOK
    <3>1. /\ e = Start(written) + Len(Code[y])
          /\ MatchesAt(Code[y], Start(written))
          /\ MatchesAt(state_bits[cell_next(cell)], e)
      BY <3>a, <3>b, <3>c, <3>d, SymbolRead
    <3>2. /\ src' = src /\ g' = g + 4 /\ cur' = cell_next(cell)
          /\ dst' = [dst EXCEPT ![written] = y]
          /\ cut' = Append(cut, e)
          /\ written' = written + 1
      <4>1. (written + 1) % U32 = written + 1
        <5>1. written + 1 \in Nat /\ written + 1 < U32
          BY <2>4, BoundsAssumption DEF Emit, HasRoom, TypeOK
        <5> QED
          BY <5>1, NoWrap
      <4> QED
        BY <2>4, <3>a, <3>b, <3>c, <3>d, <4>1, NibbleRead DEF Emit, StepOver, args
    <3>3. PICK w \in Nat : w = written /\ w = Len(cut) /\ w \in 0..DstLen - 1
      BY <2>4, BoundsAssumption DEF Emit, HasRoom, TypeOK
    <3>4. /\ cut'[w + 1] = e
          /\ \A k \in 1..w : cut'[k] = cut[k]
          /\ dst'[w] = y
          /\ \A k \in 1..w : dst'[k - 1] = dst[k - 1]
      BY <3>2, <3>3 DEF TypeOK
    <3>5. \A k \in 0..w : Start(k)' = Start(k)
      BY <3>4 DEF Start
    <3>6. Start(w + 1)' = e
      BY <3>3, <3>4 DEF Start
    <3>7. ASSUME NEW k \in 1..w + 1
          PROVE  (/\ dst[k - 1] \in Byte
                  /\ cut[k] = Start(k - 1) + Len(Code[dst[k - 1]])
                  /\ MatchesAt(Code[dst[k - 1]], Start(k - 1)))'
      <4>1. k - 1 \in 0..w /\ Start(k - 1)' = Start(k - 1)
        BY <3>3, <3>5
      <4>2. CASE k \in 1..w
        <5>1. dst'[k - 1] = dst[k - 1] /\ cut'[k] = cut[k]
          BY <3>4, <4>2
        <5>2. /\ dst[k - 1] \in Byte
              /\ cut[k] = Start(k - 1) + Len(Code[dst[k - 1]])
              /\ MatchesAt(Code[dst[k - 1]], Start(k - 1))
          BY <3>3, <4>2 DEF ParsedPrefix
        <5> QED
          BY <3>2, <4>1, <5>1, <5>2 DEF MatchesAt
      <4>3. CASE k = w + 1
        <5>1. k - 1 = w /\ dst'[k - 1] = y /\ cut'[k] = e /\ Start(k - 1)' = Start(written)
          BY <3>3, <3>4, <4>1, <4>3
        <5> QED
          BY <3>1, <3>2, <5>1 DEF MatchesAt
      <4> QED
        BY <3>3, <4>2, <4>3
    <3>8. (/\ Start(written) + Len(state_bits[cur]) = g
           /\ MatchesAt(state_bits[cur], Start(written)))'
      <4>1. Start(written)' = e
        BY <3>2, <3>3, <3>6
      <4> QED
        BY <3>b, <3>d, <3>1, <3>2, <4>1 DEF MatchesAt
    <3> QED
      BY <3>2, <3>3, <3>7, <3>8 DEF ParsedPrefix
  <2>5. CASE UNCHANGED vars
    BY <2>1, <2>5 DEF vars
  <2> QED
    BY <2>2, <2>3, <2>4, <2>5 DEF Next, Loop, Returned
<1> QED
  BY <1>1, <1>2, TypeCorrect, PTL DEF Spec

--------------------------------------------------------------------------
(* A call that answers 0 has read its whole input up to valid padding; a   *)
(* call still in its loop has not answered.                                *)
THEOREM AcceptanceSound == Spec => []AcceptedIsPadded
<1> DEFINE Inv == AcceptedIsPadded /\ (pc = "loop" => rc = 1)
<1>1. Init => Inv
  BY DEF Init, AcceptedIsPadded
<1>2. TypeOK /\ ParsedPrefix /\ Inv /\ [Next]_vars => Inv'
  <2> SUFFICES ASSUME TypeOK, ParsedPrefix, Inv, [Next]_vars PROVE Inv'
    OBVIOUS
  <2>1. CASE EndOfInput
    <3>1. /\ g = 8 * Len(src) /\ UNCHANGED <<src, g, cut, written>>
          /\ out_len' = written /\ pc' = "done"
          /\ rc' = 0 => dfa_accept[cur] = 1
      BY <2>1, BitTotal DEF EndOfInput, Return, args
    <3>2. SUFFICES ASSUME rc' = 0 PROVE AcceptedIsPadded'
      BY <3>1 DEF AcceptedIsPadded
    <3>3. valid_padding_v(state_bits[cur])
      <4>1. cur \in StateId /\ AcceptOK(cur)
        BY TableCorrect DEF TypeOK
      <4>2. is_accepting(state_of(cur))
        BY <3>1, <3>2, <4>1 DEF AcceptOK
      <4>3. state_of(cur) = Live(state_bits[cur])
        BY <4>1 DEF state_of, StateId, FailId
      <4> QED
        BY <4>2, <4>3 DEF is_accepting, Live
    <3>4. PICK f \in Int, n \in Nat : f = Start(written) /\ n = Len(state_bits[cur])
      <4>1. written \in 0..written /\ state_bits[cur] \in Seq(Bit)
        BY TableTyped DEF TypeOK
      <4>2. Start(written) \in Int /\ Len(state_bits[cur]) \in Nat
        BY <4>1, StartTyped
      <4> QED
        BY <4>2
    <3>5. f + n = g /\ n <= 7 /\ g \in Int
      BY <3>3, <3>4 DEF ParsedPrefix, valid_padding_v, TypeOK
    <3>6. ASSUME NEW i \in f..g - 1 PROVE bit_at(src, i) = 1
      <4>1. PICK j \in 1..n : i = f + j - 1
        <5>1. i - f + 1 \in 1..n /\ i = f + (i - f + 1) - 1
          BY <3>5
        <5> QED
          BY <5>1
      <4>2. bit_at(src, f + j - 1) = state_bits[cur][j]
        BY <3>4 DEF ParsedPrefix, MatchesAt
      <4>3. state_bits[cur][j] = 1
        BY <3>3, <3>4 DEF valid_padding_v
      <4> QED
        BY <4>1, <4>2, <4>3
    <3>7. Start(out_len)' = f
      BY <3>1, <3>4 DEF Start
    <3> QED
      BY <3>1, <3>5, <3>6, <3>7 DEF AcceptedIsPadded
  <2>2. CASE Reject \/ NoRoom
    BY <2>2 DEF Reject, NoRoom, Return, AcceptedIsPadded
  <2>3. CASE Emit \/ Advance
    BY <2>3 DEF Emit, Advance, StepOver, Reading, AcceptedIsPadded
  <2>4. CASE UNCHANGED vars
    BY <2>4 DEF vars, AcceptedIsPadded, Start
  <2> QED
    BY <2>1, <2>2, <2>3, <2>4 DEF Next, Loop, Returned
<1>3. Inv => AcceptedIsPadded
  OBVIOUS
<1> QED
  BY <1>1, <1>2, <1>3, TypeCorrect, ParseCorrect, PTL DEF Spec

--------------------------------------------------------------------------
(* A parse of the whole input, told as a layout of its bits. *)
LEMMA ParseIsLayout ==
    ASSUME TypeOK, ParsedPrefix, AcceptedIsPadded, rc = 0
    PROVE  \E msg, at :
              /\ msg \in Seq(Byte)
              /\ msg = [k \in 1..out_len |-> dst[k - 1]]
              /\ LaysOut(bytes_to_bits(src), msg, at)
              /\ PaddedFrom(bytes_to_bits(src), at[Len(msg)])
<1>1. PICK n \in Nat : n = written /\ n = out_len /\ Len(cut) = n
  BY DEF TypeOK, AcceptedIsPadded
<1>2. src \in Seq(Byte) /\ g = 8 * Len(src) /\ g \in Nat
  BY DEF TypeOK, AcceptedIsPadded
<1>3. PICK v \in Seq(Bit) : v = bytes_to_bits(src) /\ Len(v) = g
  BY <1>2, BitsOfBytes
<1>4. \A p \in Nat : p < g => v[p + 1] = bit_at(src, p)
  BY <1>2, <1>3 DEF bytes_to_bits
<1>5. PICK msg : msg = [k \in 1..n |-> dst[k - 1]] /\ msg \in Seq(Byte) /\ Len(msg) = n
  <2>1. \A k \in 1..n : dst[k - 1] \in Byte
    BY <1>1 DEF ParsedPrefix
  <2>2. PICK w : w = [k \in 1..n |-> dst[k - 1]]
    OBVIOUS
  <2>3. w \in Seq(Byte) /\ Len(w) = n
    BY <2>1, <2>2
  <2> QED
    BY <2>2, <2>3
<1>6. \A k \in 1..n : msg[k] = dst[k - 1] /\ msg[k] \in Byte
  BY <1>5
<1>7. PICK at : at = [k \in 0..n |-> Start(k)]
  OBVIOUS
<1>8. \A k \in 0..n : at[k] = Start(k)
  BY <1>7
<1>9. ASSUME NEW k \in 1..n
      PROVE  /\ at[k] = at[k - 1] + Len(Code[msg[k]])
             /\ \A j \in 1..Len(Code[msg[k]]) : bit_at(src, at[k - 1] + j - 1) = Code[msg[k]][j]
  <2>1. k \in 0..n /\ k - 1 \in 0..n /\ k # 0
    OBVIOUS
  <2>2. cut[k] = Start(k - 1) + Len(Code[msg[k]]) /\ MatchesAt(Code[msg[k]], Start(k - 1))
    BY <1>1, <1>6 DEF ParsedPrefix
  <2>3. at[k] = cut[k] /\ at[k - 1] = Start(k - 1)
    BY <1>8, <2>1 DEF Start
  <2> QED
    BY <2>2, <2>3 DEF MatchesAt
<1>10. at[0] = 0
  BY <1>8 DEF Start
<1> DEFINE Placed == {k \in Nat : k <= n => at[k] \in Nat}
<1>11. 0 \in Placed
  BY <1>10
<1>12. ASSUME NEW k \in Nat, k \in Placed PROVE k + 1 \in Placed
  <2> SUFFICES ASSUME k + 1 <= n PROVE at[k + 1] \in Nat
    OBVIOUS
  <2>1. k + 1 \in 1..n /\ (k + 1) - 1 = k /\ at[k] \in Nat
    BY <1>12
  <2>2. Len(Code[msg[k + 1]]) \in Nat
    BY <1>6, <2>1, CodeTyped, ByteIsSymbol
  <2>3. at[k + 1] = at[k] + Len(Code[msg[k + 1]])
    BY <1>9, <2>1
  <2> QED
    BY <2>1, <2>2, <2>3
<1>13. Nat \subseteq Placed
  <2> HIDE DEF Placed
  <2> QED
    BY <1>11, <1>12, NatSetInduction
<1>14. at \in [0..n -> Nat]
  BY <1>7, <1>8, <1>13
<1>15. at[n] <= g
  <2>1. Len(state_bits[cur]) \in Nat /\ Start(n) + Len(state_bits[cur]) = g
    BY <1>1, TableTyped DEF ParsedPrefix, TypeOK
  <2>2. at[n] \in Nat /\ at[n] = Start(n)
    BY <1>8, <1>14
  <2> QED
    BY <1>2, <2>1, <2>2
<1> DEFINE Within == {k \in Nat : k <= n => at[n - k] <= g}
<1>16. 0 \in Within
  BY <1>15
<1>17. ASSUME NEW k \in Nat, k \in Within PROVE k + 1 \in Within
  <2> SUFFICES ASSUME k + 1 <= n PROVE at[n - (k + 1)] <= g
    OBVIOUS
  <2>1. PICK q \in 1..n : q = n - k /\ q - 1 = n - (k + 1) /\ q - 1 \in 0..n /\ q \in 0..n
    <3>1. n - k \in 1..n /\ (n - k) - 1 = n - (k + 1) /\ (n - k) - 1 \in 0..n /\ n - k \in 0..n
      OBVIOUS
    <3> QED
      BY <3>1
  <2>2. at[q] <= g /\ at[q] \in Nat /\ at[q - 1] \in Nat
    <3>1. k <= n
      OBVIOUS
    <3> QED
      BY <1>14, <1>17, <2>1, <3>1
  <2>3. Len(Code[msg[q]]) \in Nat
    BY <1>6, <2>1, CodeTyped, ByteIsSymbol
  <2>4. at[q] = at[q - 1] + Len(Code[msg[q]])
    BY <1>9, <2>1
  <2>5. at[q - 1] <= g
    BY <1>2, <2>2, <2>3, <2>4
  <2> QED
    BY <2>1, <2>5
<1>18. Nat \subseteq Within
  <2> HIDE DEF Within
  <2> QED
    BY <1>16, <1>17, NatSetInduction
<1>19. ASSUME NEW k \in 0..n PROVE at[k] <= g
  <2>1. n - k \in Nat /\ n - k <= n /\ n - (n - k) = k
    OBVIOUS
  <2>2. n - k \in Within
    BY <1>18, <2>1
  <2> QED
    BY <2>1, <2>2
<1>20. ASSUME NEW k \in 1..n
       PROVE  /\ at[k] <= Len(v)
              /\ \A j \in 1..Len(Code[msg[k]]) : v[at[k - 1] + j] = Code[msg[k]][j]
  <2>1. k \in 0..n /\ k - 1 \in 0..n
    OBVIOUS
  <2>2. PICK a \in Nat, b \in Nat, c \in Nat :
           a = at[k - 1] /\ b = at[k] /\ c = Len(Code[msg[k]]) /\ b = a + c /\ b <= g
    <3>1. at[k] \in Nat /\ at[k - 1] \in Nat /\ at[k] <= g
      BY <1>14, <1>19, <2>1
    <3>2. Len(Code[msg[k]]) \in Nat
      BY <1>6, CodeTyped, ByteIsSymbol
    <3> QED
      BY <1>9, <3>1, <3>2
  <2>3. ASSUME NEW j \in 1..c PROVE v[a + j] = Code[msg[k]][j]
    <3>1. PICK p \in Nat : p = a + j - 1 /\ p < g /\ p + 1 = a + j
      <4>a. g \in Nat /\ a + c <= g
        BY <1>2, <2>2
      <4>1. a + j - 1 \in Nat /\ a + j - 1 < g /\ (a + j - 1) + 1 = a + j
        BY <4>a
      <4> QED
        BY <4>1
    <3>2. bit_at(src, p) = Code[msg[k]][j]
      BY <1>9, <2>2, <3>1
    <3> QED
      BY <1>4, <3>1, <3>2
  <2> QED
    BY <1>3, <2>2, <2>3
<1>21. LaysOut(v, msg, at)
  BY <1>5, <1>9, <1>10, <1>14, <1>20 DEF LaysOut
<1>22. PICK e \in Nat : e = at[n] /\ e = Start(n) /\ e <= g
  <2>1. n \in 0..n
    OBVIOUS
  <2> QED
    BY <1>8, <1>14, <1>15, <2>1
<1>23. g - e <= 7 /\ \A i \in e..g - 1 : bit_at(src, i) = 1
  BY <1>1, <1>22 DEF AcceptedIsPadded
<1>24. ASSUME NEW i \in e + 1..g PROVE v[i] = 1
  <2>1. PICK p \in Nat : p = i - 1 /\ p + 1 = i /\ p < g /\ p \in e..g - 1
    <3>1. i - 1 \in Nat /\ (i - 1) + 1 = i /\ i - 1 < g /\ i - 1 \in e..g - 1
      BY <1>2
    <3> QED
      BY <3>1
  <2>2. bit_at(src, p) = 1
    BY <1>23, <2>1
  <2> QED
    BY <1>4, <2>1, <2>2
<1>25. PaddedFrom(v, at[Len(msg)])
  <2>1. g - e \in 0..7
    BY <1>2, <1>22, <1>23, SMTT(30)
  <2> QED
    BY <1>3, <1>5, <1>22, <1>24, <2>1 DEF PaddedFrom
<1> QED
  BY <1>1, <1>3, <1>5, <1>21, <1>25

(* An accepted stream is the encoding of what the call returns: with       *)
(* EncodingDecoded, dfa_loop accepts the encodings and nothing else.       *)
THEOREM AcceptsEncodings == Spec => []AcceptsOnlyEncodings
<1>1. TypeOK /\ ParsedPrefix /\ AcceptedIsPadded => AcceptsOnlyEncodings
  <2> SUFFICES ASSUME TypeOK, ParsedPrefix, AcceptedIsPadded, rc = 0
               PROVE  src = Encoding([k \in 1..out_len |-> dst[k - 1]])
    BY DEF AcceptsOnlyEncodings
  <2>1. PICK msg, at :
           /\ msg \in Seq(Byte)
           /\ msg = [k \in 1..out_len |-> dst[k - 1]]
           /\ LaysOut(bytes_to_bits(src), msg, at)
           /\ PaddedFrom(bytes_to_bits(src), at[Len(msg)])
    BY ParseIsLayout
  <2>2. src \in Seq(Byte)
    BY DEF TypeOK
  <2>3. src = Encoding(msg)
    BY <2>1, <2>2, EncodingUnique
  <2> QED
    BY <2>1, <2>3
<1> QED
  BY <1>1, TypeCorrect, ParseCorrect, AcceptanceSound, PTL

--------------------------------------------------------------------------
(* Whatever a call answers, the cells of dst it did not report are as the  *)
(* caller left them.                                                       *)
THEOREM RestKept == Spec => []RestUntouched
<1> DEFINE Inv == /\ \A i \in written..DstLen - 1 : dst[i] = Old
                  /\ pc = "done" => out_len = written
<1>1. Init => Inv
  BY DEF Init
<1>2. TypeOK /\ TypeOK' /\ Inv /\ [Next]_vars => Inv'
  <2> SUFFICES ASSUME TypeOK, TypeOK', Inv, [Next]_vars PROVE Inv'
    OBVIOUS
  <2>1. CASE EndOfInput \/ Reject \/ NoRoom
    BY <2>1 DEF EndOfInput, Reject, NoRoom, Return
  <2>2. CASE Emit
    <3>a. written \in Nat /\ written < DstLen
      BY <2>2, BoundsAssumption DEF Emit, HasRoom, TypeOK
    <3>b. dst' = [dst EXCEPT ![written] = cell_sym(cell)]
      BY <2>2 DEF Emit
    <3>1. PICK w \in Nat : w = written /\ w < DstLen /\ dst' = [dst EXCEPT ![w] = cell_sym(cell)]
      BY <3>a, <3>b
    <3>2. written' = w + 1
      <4>1. w + 1 \in Nat /\ w + 1 < U32
        BY <3>1, BoundsAssumption
      <4> QED
        BY <2>2, <3>1, <4>1, NoWrap DEF Emit
    <3>3. pc' = "loop"
      BY <2>2 DEF Emit, Reading, StepOver
    <3>4. ASSUME NEW i \in w + 1..DstLen - 1 PROVE dst'[i] = Old
      <4>1. i \in written..DstLen - 1 /\ i # w
        BY <3>1
      <4> QED
        BY <3>1, <4>1 DEF TypeOK
    <3> QED
      BY <3>2, <3>3, <3>4
  <2>3. CASE Advance
    BY <2>3 DEF Advance, Reading, StepOver
  <2>4. CASE UNCHANGED vars
    BY <2>4 DEF vars
  <2> QED
    BY <2>1, <2>2, <2>3, <2>4 DEF Next, Loop, Returned
<1>3. Inv => RestUntouched
  BY DEF RestUntouched
<1> QED
  BY <1>1, <1>2, <1>3, TypeCorrect, PTL DEF Spec

--------------------------------------------------------------------------
(***************************************************************************)
(* The converse of ParseCorrect: whatever is an encoding is decoded, and   *)
(* to the message it encodes.  The argument follows the loop beside a      *)
(* fixed parse of the input.  At every code boundary the prefix property   *)
(* leaves one symbol the next code can be, so loop and parse agree; at the *)
(* end no complete code can hide in the state's residue, so the loop has   *)
(* every symbol of the parse.                                              *)
(***************************************************************************)

(* No code is a prefix of bits. *)
NoCode(bits) ==
    \A y \in Symbol : Len(Code[y]) <= Len(bits) =>
        \E i \in 1..Len(Code[y]) : Code[y][i] # bits[i]

(* EOS fits between from and i. *)
EosAt(from, i) == MatchesAt(Code[EOS], from) /\ from + Len(Code[EOS]) <= i

(* What Follows leaves open: the residue of a live state completes no      *)
(* code, and a failed state has read EOS, at once or after one symbol.     *)
Tight(s, from, i) ==
    /\ s.live => NoCode(s.bits)
    /\ ~s.live =>
         \/ s.out = <<>> /\ EosAt(from, i)
         \/ \E y \in Byte : s.out = <<y>> /\ MatchesAt(Code[y], from)
                            /\ EosAt(from + Len(Code[y]), i)
         \/ Len(s.out) >= 2

LEMMA EmptyHasNoCode == NoCode(<<>>)
<1> SUFFICES ASSUME NEW y \in Symbol PROVE Len(Code[y]) > 0
  BY DEF NoCode
<1>1. PICK z \in Symbol : z # y
  BY DEF Symbol
<1>2. PICK i \in 1..Len(Code[y]) : TRUE
  BY <1>1, PrefixFree DEF CodesDiffer
<1> QED
  BY <1>2, CodeBits

LEMMA NoCodeExtended ==
    ASSUME NEW bits \in Seq(Bit), NEW b \in Bit, NoCode(bits),
           Append(bits, b) \notin Codeword
    PROVE  NoCode(Append(bits, b))
<1> SUFFICES ASSUME NEW y \in Symbol, Len(Code[y]) <= Len(bits) + 1
             PROVE  \E i \in 1..Len(Code[y]) : Code[y][i] # Append(bits, b)[i]
  BY DEF NoCode
<1>1. Code[y] \in Seq(Bit) /\ Len(Code[y]) \in Nat
  BY CodeBits
<1>2. CASE Len(Code[y]) <= Len(bits)
  <2>1. PICK i \in 1..Len(Code[y]) : Code[y][i] # bits[i]
    BY <1>2 DEF NoCode
  <2>2. Append(bits, b)[i] = bits[i]
    BY <1>1, <1>2
  <2> QED
    BY <2>1, <2>2
<1>3. CASE Len(Code[y]) = Len(bits) + 1
  <2> SUFFICES ASSUME \A i \in 1..Len(Code[y]) : Code[y][i] = Append(bits, b)[i]
               PROVE  FALSE
    OBVIOUS
  <2>1. Code[y] = Append(bits, b)
    BY <1>1, <1>3
  <2> QED
    BY <2>1 DEF Codeword
<1> QED
  BY <1>1, <1>2, <1>3

LEMMA BitStepTight ==
    ASSUME NEW s \in State, NEW from \in Int, NEW i \in Int, NEW b \in Bit,
           b = bit_at(src, i), Follows(s, from, i), Tight(s, from, i)
    PROVE  Tight(bit_step(s, b), from, i + 1)
<1>1. PICK bits : bits = Append(s.bits, b)
  OBVIOUS
<1>2. PICK t : t = bit_step(s, b)
  OBVIOUS
<1>3. s.bits \in Seq(Bit) /\ s.out \in Seq(Byte) /\ bits \in Seq(Bit)
      /\ Len(bits) = Len(s.bits) + 1 /\ Len(s.bits) \in Nat
  BY <1>1 DEF State
<1>4. CASE ~s.live
  <2>1. t = s
    BY <1>2, <1>4 DEF bit_step
  <2>2. ASSUME NEW f \in Int, EosAt(f, i) PROVE EosAt(f, i + 1)
    BY <2>2, CodeBits DEF EosAt, Symbol, EOS
  <2>3. ASSUME NEW y \in Byte PROVE from + Len(Code[y]) \in Int
    BY ByteIsSymbol, CodeBits
  <2> QED
    BY <1>2, <1>4, <2>1, <2>2, <2>3 DEF Tight
<1>5. CASE s.live /\ bits \notin Codeword
  <2>1. t = [s EXCEPT !.bits = bits]
    BY <1>1, <1>2, <1>5 DEF bit_step
  <2>2. t.live /\ t.bits = bits
    BY <1>3, <1>5, <2>1 DEF State
  <2>3. NoCode(bits)
    BY <1>1, <1>3, <1>5, NoCodeExtended DEF Tight
  <2> QED
    BY <1>2, <2>2, <2>3 DEF Tight
<1>6. CASE s.live /\ bits \in Codeword /\ bits = Code[EOS]
  <2>1. t = [live |-> FALSE, bits |-> <<>>, out |-> s.out]
    BY <1>1, <1>2, <1>6 DEF bit_step, Fail
  <2>2. ~t.live /\ t.out = s.out
    BY <2>1
  <2>3. ASSUME NEW f \in Int, MatchesAt(s.bits, f), f + Len(s.bits) = i
        PROVE  EosAt(f, i + 1)
    <3>1. MatchesAt(Append(s.bits, b), f)
      BY <1>3, <2>3, MatchesAppend
    <3>2. f + Len(bits) = i + 1
      BY <1>3, <2>3
    <3> QED
      BY <1>1, <1>6, <3>1, <3>2 DEF EosAt
  <2>4. CASE s.out = <<>> /\ from + Len(s.bits) = i /\ MatchesAt(s.bits, from)
    BY <1>2, <2>2, <2>3, <2>4 DEF Tight
  <2>5. ASSUME NEW y \in Byte, s.out = <<y>>, MatchesAt(Code[y], from),
               from + Len(Code[y]) + Len(s.bits) = i,
               MatchesAt(s.bits, from + Len(Code[y]))
        PROVE  Tight(t, from, i + 1)
    <3>1. PICK f \in Int : f = from + Len(Code[y])
      BY ByteIsSymbol, CodeBits
    <3>2. EosAt(f, i + 1)
      BY <2>3, <2>5, <3>1
    <3> QED
      BY <2>2, <2>5, <3>1, <3>2 DEF Tight
  <2>6. CASE Len(s.out) >= 2
    BY <1>2, <2>2, <2>6 DEF Tight
  <2> QED
    BY <1>2, <1>6, <2>4, <2>5, <2>6 DEF Follows
<1>7. CASE s.live /\ bits \in Codeword /\ bits # Code[EOS]
  <2>1. t = [live |-> TRUE, bits |-> <<>>, out |-> Append(s.out, lookup_v(bits))]
    BY <1>1, <1>2, <1>7 DEF bit_step, Live
  <2> QED
    BY <1>2, <2>1, EmptyHasNoCode DEF Tight
<1> QED
  BY <1>4, <1>5, <1>6, <1>7

LEMMA NibbleTight ==
    ASSUME TypeOK, Reading, NEW s \in State, NEW from \in Int,
           Follows(s, from, g), Tight(s, from, g)
    PROVE  Tight(step(s, nib), from, g + 4)
<1> DEFINE b == nibble_bits(nib)
<1>1. \A j \in 0..3 : b[j + 1] \in Bit /\ b[j + 1] = bit_at(src, g + j)
  BY NibbleBits
<1>2. b[1] \in Bit /\ b[1] = bit_at(src, g)
  BY <1>1 DEF TypeOK
<1>3. b[2] \in Bit /\ b[2] = bit_at(src, g + 1)
  BY <1>1
<1>4. b[3] \in Bit /\ b[3] = bit_at(src, g + 2)
  BY <1>1
<1>5. b[4] \in Bit /\ b[4] = bit_at(src, g + 3)
  BY <1>1
<1>6. g \in Int
  BY DEF TypeOK
<1> HIDE DEF b
<1>7. PICK s1 \in State : s1 = bit_step(s, b[1]) /\ Follows(s1, from, g + 1)
                          /\ Tight(s1, from, g + 1)
  BY <1>2, <1>6, BitStepFollows, BitStepTight
<1>8. PICK s2 \in State : s2 = bit_step(s1, b[2]) /\ Follows(s2, from, g + 2)
                          /\ Tight(s2, from, g + 2)
  BY <1>3, <1>6, <1>7, BitStepFollows, BitStepTight
<1>9. PICK s3 \in State : s3 = bit_step(s2, b[3]) /\ Follows(s3, from, g + 3)
                          /\ Tight(s3, from, g + 3)
  BY <1>4, <1>6, <1>8, BitStepFollows, BitStepTight
<1>10. PICK s4 \in State : s4 = bit_step(s3, b[4]) /\ Tight(s4, from, g + 4)
  BY <1>5, <1>6, <1>9, BitStepFollows, BitStepTight
<1>11. step(s, nib) = s4
  BY <1>7, <1>8, <1>9, <1>10 DEF step, b
<1> QED
  BY <1>10, <1>11

--------------------------------------------------------------------------
(* One iteration, beside a parse of the input. *)

CleanResidue == NoCode(state_bits[cur])

(* The cell read is the reference step, tight, from the current state. *)
LEMMA CellTight ==
    ASSUME TypeOK, ParsedPrefix, CleanResidue, Reading
    PROVE  \E t : /\ Tight(t, Start(written), g + 4)
                 /\ t.live = state_of(cell_next(cell)).live
                 /\ t.bits = state_of(cell_next(cell)).bits
                 /\ t.out = IF cell_emits(cell) THEN <<cell_sym(cell)>> ELSE <<>>
<1>1. nib \in Nibble /\ cur \in StateId
  BY NibbleRead DEF TypeOK
<1>2. PICK s \in State : s = state_of(cur) /\ s = Live(state_bits[cur])
  <2>1. state_of(cur) = Live(state_bits[cur])
    BY <1>1 DEF state_of, StateId, FailId
  <2>2. state_bits[cur] \in Seq(Bit)
    BY <1>1, TableTyped
  <2>3. Live(state_bits[cur]) \in State
    BY <2>2 DEF Live, State
  <2> QED
    BY <2>1, <2>3
<1>3. Follows(s, Start(written), g) /\ Tight(s, Start(written), g)
  BY <1>2 DEF ParsedPrefix, CleanResidue, Follows, Tight, Live
<1>4. Start(written) \in Int
  BY StartTyped DEF TypeOK
<1>5. PICK t : t = step(s, nib) /\ Tight(t, Start(written), g + 4)
  BY <1>3, <1>4, NibbleTight
<1>6. CellOK(cur, nib)
  BY <1>1, TableCorrect
<1>7. t = step(state_of(cur), nib) /\ cell = read_cell(cur, nib)
  BY <1>2, <1>5 DEF cell
<1>8. /\ t.live = state_of(cell_next(cell)).live
      /\ t.bits = state_of(cell_next(cell)).bits
      /\ t.out = IF cell_emits(cell) THEN <<cell_sym(cell)>> ELSE <<>>
  BY <1>6, <1>7 DEF CellOK
<1> QED
  BY <1>5, <1>8

LEMMA ResidueKept ==
    ASSUME TypeOK, ParsedPrefix, CleanResidue, Reading, cell_next(cell) # FailId
    PROVE  NoCode(state_bits[cell_next(cell)])
<1>1. PICK t : /\ Tight(t, Start(written), g + 4)
               /\ t.live = state_of(cell_next(cell)).live
               /\ t.bits = state_of(cell_next(cell)).bits
  BY CellTight
<1>2. cell_next(cell) \in StateId
  BY CellFollows
<1>3. state_of(cell_next(cell)) = Live(state_bits[cell_next(cell)])
  BY <1>2 DEF state_of, StateId, FailId
<1>4. t.live /\ t.bits = state_bits[cell_next(cell)]
  BY <1>1, <1>3 DEF Live
<1> QED
  BY <1>1, <1>4 DEF Tight

(* A code that lies in the input where a code of the parse starts is that  *)
(* code; in the padding there is none.                                     *)
LEMMA NoOtherSymbol ==
    ASSUME TypeOK, NEW p \in Parses, IsParse(p), NEW w \in 0..Len(p.msg), NEW y \in Symbol,
           MatchesAt(Code[y], EndOf(p, w)), EndOf(p, w) + Len(Code[y]) <= 8 * Len(src)
    PROVE  w < Len(p.msg) /\ y = p.msg[w + 1]
<1>1. /\ p.msg \in Seq(Byte) /\ p.ends \in Seq(Nat) /\ Len(p.ends) = Len(p.msg)
      /\ Len(p.msg) \in Nat
  BY ParsesAssumption
<1>2. PICK f \in Nat : f = EndOf(p, w)
  BY <1>1 DEF EndOf
<1>3. Len(Code[y]) \in Nat /\ Len(Code[EOS]) \in Nat /\ Len(src) \in Nat
  <2>1. Len(Code[EOS]) \in Nat
    BY EosIsSymbol, CodeBits
  <2> QED
    BY <2>1, CodeBits, BitTotal
<1>4. CASE w < Len(p.msg)
  <2>1. PICK z \in Byte : z = p.msg[w + 1]
    BY <1>1, <1>4
  <2>2. MatchesAt(Code[z], f)
    <3>1. w + 1 \in 1..Len(p.msg) /\ w + 1 - 1 = w
      BY <1>1, <1>4
    <3> QED
      BY <1>2, <2>1, <3>1 DEF IsParse
  <2>3. ASSUME y # z PROVE FALSE
    <3>1. PICK i \in 1..Len(Code[y]) : i <= Len(Code[z]) /\ Code[y][i] # Code[z][i]
      BY <2>3, ByteIsSymbol, PrefixFree DEF CodesDiffer
    <3>2. i \in 1..Len(Code[z])
      BY <3>1, ByteIsSymbol, CodeBits
    <3> QED
      BY <1>2, <2>2, <3>1, <3>2 DEF MatchesAt
  <2> QED
    BY <1>4, <2>1, <2>3
<1>5. CASE w = Len(p.msg)
  <2>1. /\ 8 * Len(src) - f \in 0..7
        /\ \A i \in f..8 * Len(src) - 1 : bit_at(src, i) = 1
    BY <1>2, <1>5 DEF IsParse
  <2>2. Len(Code[y]) <= 7
    BY <1>2, <1>3, <2>1, SMTT(30)
  <2>3. y # EOS
    BY <1>3, <2>2, EosAssumption
  <2>4. PICK i \in 1..Len(Code[y]) : i <= Len(Code[EOS]) /\ Code[y][i] # Code[EOS][i]
    BY <2>3, EosIsSymbol, PrefixFree DEF CodesDiffer
  <2>5. i \in 1..Len(Code[EOS]) /\ f + i - 1 \in f..8 * Len(src) - 1
    BY <1>2, <1>3, <2>1, <2>4
  <2>6. Code[y][i] = bit_at(src, f + i - 1) /\ bit_at(src, f + i - 1) = 1
    BY <1>2, <2>1, <2>4, <2>5 DEF MatchesAt
  <2> QED
    BY <2>4, <2>5, <2>6, EosAssumption
<1> QED
  BY <1>1, <1>4, <1>5

--------------------------------------------------------------------------
(* The loop has written a prefix of every message the input encodes. *)
Agree ==
    \A p \in Parses : IsParse(p) =>
        /\ written <= Len(p.msg)
        /\ \A k \in 1..written : dst[k - 1] = p.msg[k] /\ cut[k] = p.ends[k]

LEMMA SameStart ==
    ASSUME TypeOK, Agree, NEW p \in Parses, IsParse(p)
    PROVE  /\ written \in 0..Len(p.msg)
           /\ Start(written) = EndOf(p, written)
<1>1. written \in Nat /\ Len(p.msg) \in Nat
  BY ParsesAssumption DEF TypeOK
<1> QED
  BY <1>1 DEF Agree, Start, EndOf

LEMMA NextSymbol ==
    ASSUME TypeOK, ParsedPrefix, Agree, Reading, cell_next(cell) # FailId, cell_emits(cell),
           NEW p \in Parses, IsParse(p)
    PROVE  /\ written < Len(p.msg)
           /\ cell_sym(cell) = p.msg[written + 1]
           /\ g + 4 - Len(state_bits[cell_next(cell)]) = p.ends[written + 1]
<1>1. PICK y \in Byte : y = cell_sym(cell)
  BY SymbolRead
<1>2. PICK n \in Nat : n = Len(state_bits[cell_next(cell)])
  BY CellFollows, TableTyped
<1>3. PICK f \in Int : f = Start(written) /\ f = EndOf(p, written)
  BY StartTyped, SameStart DEF TypeOK
<1>4. MatchesAt(Code[y], f) /\ f + Len(Code[y]) = g + 4 - n
  BY <1>1, <1>2, <1>3, SymbolRead
<1>5. g + 4 <= 8 * Len(src) /\ g \in Int /\ Len(src) \in Nat
  BY NibbleRead, BitTotal DEF TypeOK
<1>6. f + Len(Code[y]) <= 8 * Len(src)
  <2>1. PICK c \in Nat, L \in Nat : c = Len(Code[y]) /\ L = 8 * Len(src)
    BY <1>5, ByteIsSymbol, CodeBits
  <2>2. f + c = g + 4 - n /\ g + 4 <= L /\ g \in Int
    BY <1>4, <1>5, <2>1
  <2> QED
    BY <2>1, <2>2
<1>7. written < Len(p.msg) /\ y = p.msg[written + 1]
  BY <1>1, <1>3, <1>4, <1>6, SameStart, ByteIsSymbol, NoOtherSymbol
<1>8. p.ends[written + 1] = EndOf(p, written) + Len(Code[p.msg[written + 1]])
  <2>1. PICK w \in Nat : w = written /\ Len(p.msg) \in Nat
    BY ParsesAssumption DEF TypeOK
  <2>2. w + 1 \in 1..Len(p.msg) /\ w + 1 - 1 = w
    BY <1>7, <2>1
  <2> QED
    BY <2>1, <2>2 DEF IsParse
<1> QED
  BY <1>1, <1>2, <1>3, <1>4, <1>7, <1>8

LEMMA NotRejected ==
    ASSUME TypeOK, ParsedPrefix, CleanResidue, Agree, Reading,
           NEW p \in Parses, IsParse(p), cell_next(cell) = FailId
    PROVE  FALSE
<1>1. PICK f \in Int : f = Start(written) /\ f = EndOf(p, written)
  BY StartTyped, SameStart DEF TypeOK
<1>2. PICK w \in Nat : w = written /\ w \in 0..Len(p.msg) /\ Len(p.msg) \in Nat
  BY SameStart, ParsesAssumption DEF TypeOK
<1>3. PICK L \in Nat : L = 8 * Len(src) /\ g + 4 <= L /\ g + 4 \in Int
  BY NibbleRead, BitTotal DEF TypeOK
<1>4. PICK t : /\ Tight(t, f, g + 4)
               /\ t.live = state_of(FailId).live
               /\ t.out = IF cell_emits(cell) THEN <<cell_sym(cell)>> ELSE <<>>
  BY <1>1, CellTight
<1>5. ~t.live /\ ~(Len(t.out) >= 2)
  <2>1. state_of(FailId) = Fail
    BY DEF state_of, FailId
  <2>2. ~t.live
    BY <1>4, <2>1 DEF Fail
  <2>3. CASE cell_emits(cell)
    <3>1. t.out = <<cell_sym(cell)>>
      BY <1>4, <2>3
    <3> QED
      BY <2>2, <3>1
  <2>4. CASE ~cell_emits(cell)
    <3>1. t.out = <<>>
      BY <1>4, <2>4
    <3> QED
      BY <2>2, <3>1
  <2> QED
    BY <2>3, <2>4
<1>6. ASSUME NEW v \in 0..Len(p.msg), EosAt(EndOf(p, v), g + 4)
      PROVE  FALSE
  <2>1. EndOf(p, v) \in Int /\ Len(Code[EOS]) \in Nat
    BY EosIsSymbol, CodeBits, ParsesAssumption DEF EndOf
  <2>2. EndOf(p, v) + Len(Code[EOS]) <= 8 * Len(src) /\ MatchesAt(Code[EOS], EndOf(p, v))
    BY <1>3, <1>6, <2>1 DEF EosAt
  <2>3. v < Len(p.msg) /\ EOS = p.msg[v + 1]
    BY <2>2, EosIsSymbol, NoOtherSymbol
  <2>4. p.msg[v + 1] \in Byte
    BY <2>3, ParsesAssumption
  <2> QED
    BY <2>3, <2>4, EosIsSymbol
<1>7. ASSUME NEW y \in Byte, MatchesAt(Code[y], f), EosAt(f + Len(Code[y]), g + 4)
      PROVE  FALSE
  <2>1. Len(Code[y]) \in Nat /\ Len(Code[EOS]) \in Nat
    BY EosIsSymbol, ByteIsSymbol, CodeBits
  <2>2. f + Len(Code[y]) <= 8 * Len(src)
    <3>1. PICK c \in Nat, d \in Nat : c = Len(Code[y]) /\ d = Len(Code[EOS])
      BY <2>1
    <3>2. f + c + d <= g + 4
      BY <1>7, <3>1 DEF EosAt
    <3>3. f + c <= L
      BY <1>3, <3>2
    <3> QED
      BY <1>3, <3>1, <3>3
  <2>3. w < Len(p.msg) /\ y = p.msg[w + 1]
    BY <1>1, <1>2, <1>7, <2>2, ByteIsSymbol, NoOtherSymbol
  <2>4. w + 1 \in 1..Len(p.msg) /\ w + 1 - 1 = w
    BY <1>2, <2>3
  <2>5. EndOf(p, w + 1) = f + Len(Code[y])
    BY <1>1, <1>2, <2>3, <2>4 DEF IsParse, EndOf
  <2> QED
    BY <1>6, <1>7, <2>4, <2>5
<1> QED
  BY <1>1, <1>2, <1>4, <1>5, <1>6, <1>7 DEF Tight

LEMMA AllRead ==
    ASSUME TypeOK, ParsedPrefix, CleanResidue, Agree, g = 8 * Len(src),
           NEW p \in Parses, IsParse(p)
    PROVE  written = Len(p.msg) /\ dfa_accept[cur] = 1
<1>1. PICK f \in Int : f = Start(written) /\ f = EndOf(p, written)
  BY StartTyped, SameStart DEF TypeOK
<1>2. PICK w \in Nat : w = written /\ w \in 0..Len(p.msg) /\ Len(p.msg) \in Nat
  BY SameStart, ParsesAssumption DEF TypeOK
<1>3. PICK bits \in Seq(Bit) : bits = state_bits[cur]
  BY TableTyped DEF TypeOK
<1>4. f + Len(bits) = g /\ MatchesAt(bits, f) /\ NoCode(bits)
      /\ Len(bits) \in Nat /\ g \in Int
  BY <1>1, <1>3 DEF ParsedPrefix, CleanResidue, TypeOK
<1>5. ASSUME w < Len(p.msg) PROVE FALSE
  <2>1. w + 1 \in 1..Len(p.msg) /\ w + 1 - 1 = w
    BY <1>2, <1>5
  <2>2. PICK z \in Byte : z = p.msg[w + 1]
    BY <2>1, ParsesAssumption
  <2>3. MatchesAt(Code[z], f) /\ f + Len(Code[z]) <= 8 * Len(src)
    BY <1>1, <1>2, <2>1, <2>2 DEF IsParse
  <2>4. Len(Code[z]) \in Nat /\ z \in Symbol
    BY ByteIsSymbol, CodeBits
  <2>5. Len(Code[z]) <= Len(bits)
    BY <1>4, <2>3, <2>4
  <2>6. PICK i \in 1..Len(Code[z]) : Code[z][i] # bits[i]
    BY <1>4, <2>4, <2>5 DEF NoCode
  <2>7. i \in 1..Len(bits)
    BY <1>4, <2>4, <2>5
  <2> QED
    BY <1>4, <2>3, <2>6, <2>7 DEF MatchesAt
<1>6. w = Len(p.msg)
  BY <1>2, <1>5
<1>7. /\ 8 * Len(src) - f \in 0..7
      /\ \A i \in f..8 * Len(src) - 1 : bit_at(src, i) = 1
  BY <1>1, <1>2, <1>6 DEF IsParse
<1>8. valid_padding_v(bits)
  <2>1. Len(bits) <= 7
    BY <1>4, <1>7
  <2>2. ASSUME NEW j \in 1..Len(bits) PROVE bits[j] = 1
    <3>1. f + j - 1 \in f..8 * Len(src) - 1
      BY <1>4
    <3> QED
      BY <1>4, <1>7, <3>1 DEF MatchesAt
  <2> QED
    BY <2>1, <2>2 DEF valid_padding_v
<1>9. cur \in StateId /\ AcceptOK(cur)
  BY TableCorrect DEF TypeOK
<1>10. state_of(cur) = Live(bits)
  BY <1>3, <1>9 DEF state_of, StateId, FailId
<1>11. is_accepting(state_of(cur))
  BY <1>8, <1>10 DEF is_accepting, Live
<1> QED
  BY <1>2, <1>6, <1>9, <1>11 DEF AcceptOK

(* Every encoded message is decoded: the loop keeps to its parse, never    *)
(* meets EOS in it, and stops where the message does or where dst is full. *)
THEOREM DecodingComplete == Spec => []EncodingDecoded
<1> DEFINE Inv == CleanResidue /\ Agree /\ EncodingDecoded
<1>1. Init => Inv
  <2> SUFFICES ASSUME Init PROVE Inv
    OBVIOUS
  <2>1. CleanResidue
    BY TableCorrect, EmptyHasNoCode DEF Init, CleanResidue
  <2>2. Agree
    BY ParsesAssumption DEF Init, Agree
  <2>3. EncodingDecoded
    BY DEF Init, EncodingDecoded
  <2> QED
    BY <2>1, <2>2, <2>3
<1>2. TypeOK /\ ParsedPrefix /\ Inv /\ [Next]_vars => Inv'
  <2> SUFFICES ASSUME TypeOK, ParsedPrefix, Inv, [Next]_vars PROVE Inv'
    OBVIOUS
  <2>1. ASSUME NEW r, Return(r) PROVE CleanResidue' /\ Agree' /\ src' = src
    BY <2>1 DEF Return, CleanResidue, Agree, IsParse, EndOf, MatchesAt, args
  <2>2. ASSUME UNCHANGED src, NEW p \in Parses PROVE IsParse(p)' <=> IsParse(p)
    BY <2>2 DEF IsParse, EndOf, MatchesAt
  <2>3. CASE EndOfInput
    <3>1. CleanResidue' /\ Agree'
      BY <2>1, <2>3 DEF EndOfInput
    <3>2. /\ g = 8 * Len(src)
          /\ dst_cap' = dst_cap /\ dst' = dst /\ src' = src /\ out_len' = written
          /\ rc' = (IF dfa_accept[cur] = 1 THEN 0 ELSE -1)
      BY <2>3, BitTotal DEF EndOfInput, Return, args
    <3>3. ASSUME NEW p \in Parses, IsParse(p)
          PROVE  /\ rc' = 0 /\ out_len' = Len(p.msg) /\ Len(p.msg) <= dst_cap
                 /\ \A k \in 1..Len(p.msg) : dst[k - 1] = p.msg[k]
      <4>1. written = Len(p.msg) /\ dfa_accept[cur] = 1
        BY <3>2, <3>3, AllRead
      <4> QED
        BY <3>2, <3>3, <4>1 DEF Agree, TypeOK
    <3>4. EncodingDecoded'
      BY <2>2, <3>2, <3>3 DEF EncodingDecoded
    <3> QED
      BY <3>1, <3>4
  <2>4. CASE Reject
    <3>1. CleanResidue' /\ Agree' /\ src' = src
      BY <2>1, <2>4 DEF Reject
    <3>2. \A p \in Parses : ~IsParse(p)
      BY <2>4, NotRejected DEF Reject
    <3>3. EncodingDecoded'
      BY <2>2, <3>1, <3>2 DEF EncodingDecoded
    <3> QED
      BY <3>1, <3>3
  <2>5. CASE NoRoom
    <3>1. CleanResidue' /\ Agree'
      BY <2>1, <2>5 DEF NoRoom
    <3>2. /\ written = dst_cap /\ dst_cap \in Nat /\ rc' = -1
          /\ dst_cap' = dst_cap /\ dst' = dst /\ src' = src /\ out_len' = written
      BY <2>5 DEF NoRoom, HasRoom, Return, TypeOK, args
    <3>3. ASSUME NEW p \in Parses, IsParse(p)
          PROVE  /\ ~(Len(p.msg) <= dst_cap)
                 /\ \A k \in 1..written : dst[k - 1] = p.msg[k]
      <4>1. written < Len(p.msg) /\ Len(p.msg) \in Nat
        BY <2>5, <3>3, NextSymbol, ParsesAssumption DEF NoRoom
      <4> QED
        BY <3>2, <3>3, <4>1 DEF Agree
    <3>4. EncodingDecoded'
      BY <2>2, <3>2, <3>3 DEF EncodingDecoded
    <3> QED
      BY <3>1, <3>4
  <2>6. ASSUME Reading, cell_next(cell) # FailId, StepOver
        PROVE  CleanResidue' /\ EncodingDecoded' /\ src' = src
    <3>1. CleanResidue'
      BY <2>6, ResidueKept DEF StepOver, CleanResidue
    <3>2. pc' = "loop" /\ src' = src
      BY <2>6 DEF StepOver, Reading, args
    <3> QED
      BY <3>1, <3>2 DEF EncodingDecoded
  <2>7. CASE Emit
    <3>1. Reading /\ cell_next(cell) # FailId /\ cell_emits(cell) /\ StepOver
      BY <2>7 DEF Emit
    <3>2. PICK w \in Nat : w = written /\ w = Len(cut) /\ w \in 0..DstLen - 1
      BY <2>7, BoundsAssumption DEF Emit, HasRoom, TypeOK
    <3>3. PICK y \in Byte : y = cell_sym(cell)
      BY <3>1, SymbolRead
    <3>4. PICK e \in Int : e = g + 4 - Len(state_bits[cell_next(cell)])
      <4>1. PICK n \in Nat : n = Len(state_bits[cell_next(cell)])
        BY <3>1, CellFollows, TableTyped
      <4>2. g + 4 - n \in Int
        BY DEF TypeOK
      <4> QED
        BY <4>1, <4>2
    <3>5. /\ dst' = [dst EXCEPT ![w] = y]
          /\ cut' = Append(cut, e)
          /\ written' = w + 1
      <4>1. w + 1 \in Nat /\ w + 1 < U32
        BY <3>2, BoundsAssumption
      <4>2. (w + 1) % U32 = w + 1
        BY <4>1, NoWrap
      <4> QED
        BY <2>7, <3>2, <3>3, <3>4, <4>2 DEF Emit
    <3>6. /\ cut'[w + 1] = e
          /\ \A k \in 1..w : cut'[k] = cut[k]
          /\ dst'[w] = y
          /\ \A k \in 1..w : dst'[k - 1] = dst[k - 1]
      BY <3>2, <3>5 DEF TypeOK
    <3>7. ASSUME NEW p \in Parses, IsParse(p)
          PROVE  /\ w + 1 <= Len(p.msg)
                 /\ \A k \in 1..w + 1 : dst'[k - 1] = p.msg[k] /\ cut'[k] = p.ends[k]
      <4>1. /\ w < Len(p.msg) /\ Len(p.msg) \in Nat
            /\ y = p.msg[w + 1] /\ e = p.ends[w + 1]
        BY <3>1, <3>2, <3>3, <3>4, <3>7, NextSymbol, ParsesAssumption
      <4>2. \A k \in 1..w : dst[k - 1] = p.msg[k] /\ cut[k] = p.ends[k]
        BY <3>2, <3>7 DEF Agree
      <4>3. ASSUME NEW k \in 1..w + 1
            PROVE  dst'[k - 1] = p.msg[k] /\ cut'[k] = p.ends[k]
        <5>1. CASE k \in 1..w
          BY <3>6, <4>2, <5>1
        <5>2. CASE k = w + 1
          <6>1. k - 1 = w
            BY <5>2
          <6> QED
            BY <3>6, <4>1, <5>2, <6>1
        <5> QED
          BY <5>1, <5>2
      <4> QED
        BY <4>1, <4>3
    <3>8. CleanResidue' /\ EncodingDecoded' /\ src' = src
      BY <2>6, <3>1
    <3>9. Agree'
      BY <2>2, <3>5, <3>7, <3>8 DEF Agree
    <3> QED
      BY <3>8, <3>9
  <2>8. CASE Advance
    <3>1. CleanResidue' /\ EncodingDecoded' /\ src' = src
      BY <2>6, <2>8 DEF Advance
    <3>2. Agree'
      BY <2>2, <2>8, <3>1 DEF Advance, Agree
    <3> QED
      BY <3>1, <3>2
  <2>9. CASE UNCHANGED vars
    BY <2>9 DEF vars, CleanResidue, Agree, EncodingDecoded, IsParse, EndOf, MatchesAt
  <2> QED
    BY <2>3, <2>4, <2>5, <2>7, <2>8, <2>9 DEF Next, Loop, Returned
<1>3. Inv => EncodingDecoded
  OBVIOUS
<1> QED
  BY <1>1, <1>2, <1>3, TypeCorrect, ParseCorrect, PTL DEF Spec

--------------------------------------------------------------------------
(* The refinement.  The loop goes through the states of the greedy decoder *)
(* four bits at a time, with dst for the bytes emitted so far; later bits  *)
(* take back neither those bytes nor a failure, so each way out of the     *)
(* loop answers for the whole stream.                                      *)

Written == [i \in 1..written |-> dst[i - 1]]

Tracks ==
    pc = "loop" =>
        /\ rc = 1
        /\ Written \in Seq(Byte)
        /\ Prefixed(state_of(cur), decode_go(bytes_to_bits(src))[g], Written)

(* The contract's decoder is the reference decoder. *)
LEMMA ContractAnswers ==
    ASSUME NEW bytes, NEW cap
    PROVE  Contract!DecodeAnswers(bytes, cap) = DecodeAnswers(bytes, cap)
<1>1. ASSUME NEW bits PROVE Contract!decode_go(bits) = decode_go(bits)
  BY DEF Contract!decode_go, Contract!bit_step, Contract!Codeword, Contract!lookup_v,
         Contract!Symbol, Contract!EOS, Contract!Live, Contract!Fail,
         decode_go, bit_step, Codeword, lookup_v, Symbol, EOS, Live, Fail
<1>2. Contract!bytes_to_bits(bytes) = bytes_to_bits(bytes)
  BY DEF Contract!bytes_to_bits, Contract!bit_at, Contract!Weight, bytes_to_bits, bit_at, Weight
<1> QED
  BY <1>1, <1>2 DEF Contract!DecodeAnswers, Contract!decode_bits, Contract!is_accepting,
     Contract!valid_padding_v, DecodeAnswers, decode_bits, is_accepting, valid_padding_v

LEMMA StateOfTyped ==
    ASSUME NEW id \in 0..FailId
    PROVE  state_of(id) \in State /\ state_of(id).out = <<>>
           /\ (state_of(id).live <=> id # FailId)
<1>1. CASE id = FailId
  <2>1. state_of(id) = Fail
    BY <1>1 DEF state_of, FailId
  <2>2. Fail \in State
    <3>1. <<>> \in Seq(Bit) /\ <<>> \in Seq(Byte)
      OBVIOUS
    <3> QED
      BY <3>1 DEF Fail, State
  <2> QED
    BY <1>1, <2>1, <2>2 DEF Fail
<1>2. CASE id \in StateId
  <2>1. state_of(id) = Live(state_bits[id])
    BY <1>2 DEF state_of, StateId, FailId
  <2>2. Live(state_bits[id]) \in State
    BY <1>2, TableTyped, LiveTyped
  <2>3. id # FailId
    BY <1>2 DEF StateId, FailId
  <2> QED
    BY <2>1, <2>2, <2>3 DEF Live
<1> QED
  BY <1>1, <1>2 DEF StateId, FailId

(* An iteration that reads, as four bits of the greedy decoder. *)
LEMMA CellTracks ==
    ASSUME TypeOK, Reading, Tracks
    PROVE  /\ g \in Nat /\ g + 4 <= 8 * Len(src)
           /\ cell_next(cell) \in 0..FailId
           /\ cell_sym(cell) \in Byte
           /\ decode_go(bytes_to_bits(src))[g + 4].live = state_of(cell_next(cell)).live
           /\ decode_go(bytes_to_bits(src))[g + 4].bits = state_of(cell_next(cell)).bits
           /\ decode_go(bytes_to_bits(src))[g + 4].out =
                 Written \o (IF cell_emits(cell) THEN <<cell_sym(cell)>> ELSE <<>>)
<1>1. PICK bits \in Seq(Bit) : bits = bytes_to_bits(src) /\ Len(bits) = 8 * Len(src)
  BY BitTotal, BitsOfBytes
<1>2. g \in Nat /\ g + 4 <= Len(bits) /\ g + 4 \in 0..8 * Len(src)
  BY <1>1, NibbleRead, BitTotal DEF TypeOK
<1>3. ASSUME NEW j \in 0..3
      PROVE  nibble_bits(nib)[j + 1] = bits[g + j + 1] /\ nibble_bits(nib)[j + 1] \in Bit
  <2>1. g + j + 1 \in 1..8 * Len(src) /\ (g + j + 1) - 1 = g + j
    BY <1>1, <1>2, BitTotal
  <2>2. bits[g + j + 1] = bit_at(src, g + j)
    BY <1>1, <2>1 DEF bytes_to_bits
  <2> QED
    BY <2>2, NibbleBits
<1>4. decode_go(bits)[g + 4] = step(decode_go(bits)[g], nib)
  BY <1>2, <1>3, FourBits
<1>5. nib \in Nibble /\ cur \in StateId
  BY NibbleRead DEF TypeOK
<1>6. PICK s \in State : s = state_of(cur)
  <2>1. cur \in 0..FailId
    BY <1>5 DEF StateId, FailId
  <2> QED
    BY <2>1, StateOfTyped
<1>7. PICK t \in State : t = decode_go(bits)[g]
  <2>1. g \in 0..Len(bits)
    BY <1>2
  <2> QED
    BY <2>1, DecodeGo
<1>8. PICK w \in Seq(Byte) : w = Written /\ Prefixed(s, t, w)
  BY <1>1, <1>6, <1>7 DEF Tracks, Reading
<1>9. \A j \in 1..4 : nibble_bits(nib)[j] \in Bit
  <2>1. ASSUME NEW j \in 1..4 PROVE nibble_bits(nib)[j] \in Bit
    <3>1. j - 1 \in 0..3 /\ (j - 1) + 1 = j
      OBVIOUS
    <3> QED
      BY <1>3, <3>1
  <2> QED
    BY <2>1
<1>10. Prefixed(step(s, nib), step(t, nib), w)
  BY <1>8, <1>9, StepPrefixed
<1>11. CellOK(cur, nib) /\ cell = read_cell(cur, nib)
  BY <1>5, TableCorrect DEF cell
<1>12. /\ step(s, nib).live = state_of(cell_next(cell)).live
       /\ step(s, nib).bits = state_of(cell_next(cell)).bits
       /\ step(s, nib).out = IF cell_emits(cell) THEN <<cell_sym(cell)>> ELSE <<>>
  BY <1>6, <1>11 DEF CellOK
<1>13. cell_next(cell) \in 0..FailId /\ cell_sym(cell) \in Byte
  BY <1>5, <1>11, CellTyped
<1>14. PICK u : u = decode_go(bits)[g + 4] /\ u = step(t, nib)
  BY <1>4, <1>7
<1>15. /\ u.live = state_of(cell_next(cell)).live
       /\ u.bits = state_of(cell_next(cell)).bits
       /\ u.out = w \o (IF cell_emits(cell) THEN <<cell_sym(cell)>> ELSE <<>>)
  BY <1>10, <1>12, <1>14 DEF Prefixed
<1> QED
  BY <1>1, <1>2, <1>8, <1>13, <1>14, <1>15

(* A stream of which the decoder has emitted w, and which it rejects or    *)
(* has more bytes than the destination holds, is answered by w and -1.     *)
LEMMA AnsweredShort ==
    ASSUME TypeOK, NEW w \in Seq(Byte), Len(w) <= dst_cap,
           NEW i \in 0..8 * Len(src), NEW s \in State, s = decode_go(bytes_to_bits(src))[i],
           Len(w) <= Len(s.out), \A m \in 1..Len(w) : s.out[m] = w[m],
           \/ ~s.live
           \/ Len(s.out) > dst_cap
           \/ i = 8 * Len(src) /\ ~is_accepting(s)
    PROVE  [rc |-> -1, out |-> w] \in DecodeAnswers(src, dst_cap)
<1>1. PICK bits \in Seq(Bit) : bits = bytes_to_bits(src) /\ Len(bits) = 8 * Len(src)
  BY BitTotal, BitsOfBytes
<1>2. PICK e \in State : e = decode_go(bits)[Len(bits)]
  <2>1. Len(bits) \in 0..Len(bits)
    OBVIOUS
  <2> QED
    BY <2>1, DecodeGo
<1>3. Grown(s, e)
  <2>1. i \in Nat /\ Len(bits) \in Nat /\ i <= Len(bits)
    BY <1>1, BitTotal
  <2> QED
    BY <1>1, <1>2, <2>1, Grows
<1>4. PICK n \in Nat : n = Len(w) /\ n \in 0..dst_cap
  BY DEF TypeOK
<1>5. PICK v \in Seq(Byte) : v = e.out
  BY DEF State
<1>6. PICK x \in Seq(Byte) : x = s.out
  BY DEF State
<1>7. n <= Len(x) /\ Len(x) <= Len(v) /\ Len(x) \in Nat /\ Len(v) \in Nat
  BY <1>3, <1>4, <1>5, <1>6 DEF Grown
<1>8. SubSeq(v, 1, n) = w
  <2>1. ASSUME NEW m \in 1..n PROVE v[m] = w[m]
    <3>1. m \in 1..Len(x)
      BY <1>7
    <3>2. v[m] = x[m]
      BY <1>3, <1>5, <1>6, <3>1 DEF Grown
    <3> QED
      BY <1>4, <1>6, <3>2
  <2>2. SubSeq(v, 1, n) \in Seq(Byte) /\ Len(SubSeq(v, 1, n)) = n
    BY <1>7
  <2>3. \A m \in 1..n : SubSeq(v, 1, n)[m] = v[m]
    BY <1>7
  <2> QED
    BY <1>4, <2>1, <2>2, <2>3
<1>9. ~(is_accepting(e) /\ Len(v) <= dst_cap)
  <2>1. CASE ~s.live
    BY <1>3, <2>1 DEF Grown, is_accepting
  <2>2. CASE Len(s.out) > dst_cap
    BY <1>6, <1>7, <2>2 DEF TypeOK
  <2>3. CASE i = 8 * Len(src) /\ ~is_accepting(s)
    BY <1>1, <1>2, <2>3
  <2> QED
    BY <2>1, <2>2, <2>3
<1>10. DecodeAnswers(src, dst_cap) = {[rc |-> -1, out |-> SubSeq(v, 1, k)] :
                              k \in {m \in 0..dst_cap : m <= Len(v)}}
  <2>1. PICK ok : ok = is_accepting(e)
    OBVIOUS
  <2>2. decode_bits(bits) = [ok |-> ok, out |-> v]
    BY <1>2, <1>5, <2>1 DEF decode_bits
  <2>3. PICK d : d = decode_bits(bits) /\ d.ok = ok /\ d.out = v
    BY <2>2
  <2>4. ~(d.ok /\ Len(d.out) <= dst_cap)
    BY <1>9, <2>1, <2>3
  <2>5. DecodeAnswers(src, dst_cap) = {[rc |-> -1, out |-> SubSeq(d.out, 1, k)] :
                              k \in {m \in 0..dst_cap : m <= Len(d.out)}}
    BY <1>1, <2>3, <2>4 DEF DecodeAnswers
  <2> QED
    BY <2>3, <2>5
<1>11. n \in {m \in 0..dst_cap : m <= Len(v)}
  BY <1>4, <1>7
<1> QED
  BY <1>8, <1>10, <1>11

(* A stream that ends in an accepting state with w emitted is answered by  *)
(* w and 0.                                                                *)
LEMMA AnsweredWhole ==
    ASSUME TypeOK, NEW w \in Seq(Byte), Len(w) <= dst_cap,
           NEW s \in State, s = decode_go(bytes_to_bits(src))[8 * Len(src)],
           s.out = w, is_accepting(s)
    PROVE  [rc |-> 0, out |-> w] \in DecodeAnswers(src, dst_cap)
<1>1. PICK bits \in Seq(Bit) : bits = bytes_to_bits(src) /\ Len(bits) = 8 * Len(src)
  BY BitTotal, BitsOfBytes
<1>2. PICK ok : ok = is_accepting(s)
  OBVIOUS
<1>3. decode_bits(bits) = [ok |-> ok, out |-> w]
  BY <1>1, <1>2 DEF decode_bits
<1>4. PICK d : d = decode_bits(bits) /\ d.ok /\ d.out = w
  BY <1>2, <1>3
<1>5. DecodeAnswers(src, dst_cap) = {[rc |-> 0, out |-> d.out]}
  BY <1>1, <1>4 DEF DecodeAnswers
<1> QED
  BY <1>4, <1>5

LEMMA TracksInit == Init => Tracks
<1> SUFFICES ASSUME Init PROVE Tracks
  OBVIOUS
<1>1. src \in Seq(Byte) /\ written = 0 /\ g = 0 /\ cur = 0 /\ rc = 1
  BY BoundsAssumption DEF Init
<1>2. bytes_to_bits(src) \in Seq(Bit)
  BY <1>1, BitsOfBytes
<1>3. decode_go(bytes_to_bits(src))[g] = Live(<<>>)
  BY <1>1, <1>2, DecodeGo
<1>4. state_of(cur) = Live(<<>>)
  BY <1>1, TableCorrect DEF state_of, FailId
<1>5. Written \in Seq(Byte) /\ Written = <<>>
  BY <1>1 DEF Written
<1>6. Prefixed(Live(<<>>), Live(<<>>), <<>>)
  BY DEF Prefixed, Live
<1> QED
  BY <1>1, <1>3, <1>4, <1>5, <1>6 DEF Tracks

(* The way out of the loop with answer r. *)
LEMMA ReturnAnswers ==
    ASSUME TypeOK, Tracks, pc = "loop", NEW r \in {0, -1}, Return(r),
           [rc |-> r, out |-> Written] \in DecodeAnswers(src, dst_cap)
    PROVE  Contract!Answer
<1>1. /\ src' = src /\ dst_cap' = dst_cap /\ pc' = "done" /\ rc' = r
      /\ out_len' = written /\ dst' = dst
  BY DEF Return, args
<1>2. Result = Contract!NoAnswer
  BY DEF Result, Contract!NoAnswer
<1>3. Result' = [rc |-> r, out |-> Written]
  BY <1>1 DEF Result, Written
<1> QED
  BY <1>1, <1>2, <1>3, ContractAnswers DEF Contract!Answer

LEMMA WrittenTyped ==
    ASSUME TypeOK, Tracks, pc = "loop"
    PROVE  Written \in Seq(Byte) /\ Len(Written) = written /\ written <= dst_cap
  BY DEF TypeOK, Tracks, Written

LEMMA EndAnswers == ASSUME TypeOK, Tracks, EndOfInput PROVE Contract!Answer
<1>1. pc = "loop" /\ g = 8 * Len(src) /\ Return(IF dfa_accept[cur] = 1 THEN 0 ELSE -1)
  BY BitTotal DEF EndOfInput
<1>2. PICK bits \in Seq(Bit) : bits = bytes_to_bits(src) /\ Len(bits) = 8 * Len(src)
  BY BitTotal, BitsOfBytes
<1>3. PICK t \in State : t = decode_go(bits)[g]
  <2>1. g \in 0..Len(bits)
    BY <1>1, <1>2, BitTotal
  <2> QED
    BY <2>1, DecodeGo
<1>4. PICK w \in Seq(Byte) : w = Written /\ Len(w) <= dst_cap
  BY <1>1, WrittenTyped
<1>5. cur \in StateId /\ AcceptOK(cur)
  BY TableCorrect DEF TypeOK
<1>6. PICK s \in State : s = state_of(cur) /\ s.out = <<>>
  <2>1. cur \in 0..FailId
    BY <1>5 DEF StateId, FailId
  <2> QED
    BY <2>1, StateOfTyped
<1>7. t.live = s.live /\ t.bits = s.bits /\ t.out = w
  <2>1. Prefixed(s, t, w)
    BY <1>1, <1>2, <1>3, <1>4, <1>6 DEF Tracks
  <2> QED
    BY <1>6, <2>1 DEF Prefixed
<1>8. is_accepting(t) <=> is_accepting(s)
  BY <1>7 DEF is_accepting
<1>9. dfa_accept[cur] = (IF is_accepting(s) THEN 1 ELSE 0)
  BY <1>5, <1>6 DEF AcceptOK
<1>10. CASE is_accepting(s)
  <2>1. [rc |-> 0, out |-> w] \in DecodeAnswers(src, dst_cap)
    BY <1>1, <1>2, <1>3, <1>4, <1>7, <1>8, <1>10, AnsweredWhole
  <2>2. Return(0)
    BY <1>1, <1>9, <1>10
  <2> QED
    BY <1>1, <1>4, <2>1, <2>2, ReturnAnswers
<1>11. CASE ~is_accepting(s)
  <2>1. g \in 0..8 * Len(src)
    BY DEF TypeOK
  <2>2. Len(w) <= Len(t.out) /\ \A m \in 1..Len(w) : t.out[m] = w[m]
    BY <1>7
  <2>3. [rc |-> -1, out |-> w] \in DecodeAnswers(src, dst_cap)
    BY <1>1, <1>2, <1>3, <1>4, <1>8, <1>11, <2>1, <2>2, AnsweredShort
  <2>4. Return(-1)
    BY <1>1, <1>9, <1>11
  <2> QED
    BY <1>1, <1>4, <2>3, <2>4, ReturnAnswers
<1> QED
  BY <1>10, <1>11

LEMMA Joined ==
    ASSUME NEW w \in Seq(Byte), NEW v \in Seq(Byte)
    PROVE  /\ w \o v \in Seq(Byte) /\ Len(w \o v) = Len(w) + Len(v)
           /\ \A m \in 1..Len(w) : (w \o v)[m] = w[m]
  OBVIOUS

(* The loop is left before the end: the stream has failed, or has a byte   *)
(* too many.                                                               *)
LEMMA GiveUpAnswers == ASSUME TypeOK, Tracks, Reject \/ NoRoom PROVE Contract!Answer
<1>1. pc = "loop" /\ Reading /\ Return(-1)
  BY DEF Reject, NoRoom, Reading
<1>2. PICK w \in Seq(Byte) : w = Written /\ Len(w) = written /\ Len(w) <= dst_cap
  BY <1>1, WrittenTyped
<1>3. PICK bits \in Seq(Bit) : bits = bytes_to_bits(src) /\ Len(bits) = 8 * Len(src)
  BY BitTotal, BitsOfBytes
<1>4. PICK i \in 0..8 * Len(src) : i = g + 4
  BY <1>1, NibbleRead
<1>5. PICK t \in State : t = decode_go(bits)[i]
  BY <1>3, DecodeGo
<1>6. PICK v \in Seq(Byte) :
         v = IF cell_emits(cell) THEN <<cell_sym(cell)>> ELSE <<>>
  <2>1. PICK y \in Byte : y = cell_sym(cell)
    BY <1>1, CellTracks
  <2>2. <<y>> \in Seq(Byte) /\ <<>> \in Seq(Byte)
    OBVIOUS
  <2> QED
    BY <2>1, <2>2
<1>7. t.live = state_of(cell_next(cell)).live /\ t.out = w \o v
  BY <1>1, <1>2, <1>3, <1>4, <1>5, <1>6, CellTracks
<1>8. Len(w) <= Len(t.out) /\ (\A m \in 1..Len(w) : t.out[m] = w[m]) /\ Len(t.out) = Len(w) + Len(v)
  <2>1. Len(w) \in Nat /\ Len(v) \in Nat
    OBVIOUS
  <2> QED
    BY <1>7, <2>1, Joined
<1>9. ~t.live \/ Len(t.out) > dst_cap
  <2>1. CASE Reject
    <3>1. ~state_of(FailId).live
      BY DEF state_of, FailId, Fail
    <3> QED
      BY <1>7, <2>1, <3>1 DEF Reject
  <2>2. CASE NoRoom
    <3>1. cell_emits(cell) /\ written = dst_cap /\ dst_cap \in Nat
      BY <2>2 DEF NoRoom, HasRoom, TypeOK
    <3>2. v = <<cell_sym(cell)>>
      BY <1>6, <3>1
    <3>3. Len(v) = 1
      BY <3>2
    <3> QED
      BY <1>2, <1>8, <3>1, <3>3
  <2> QED
    BY <2>1, <2>2
<1>10. [rc |-> -1, out |-> w] \in DecodeAnswers(src, dst_cap)
  BY <1>2, <1>3, <1>5, <1>8, <1>9, AnsweredShort
<1> QED
  BY <1>1, <1>2, <1>10, ReturnAnswers

(* An iteration that goes on keeps track. *)
LEMMA GoesOn ==
    ASSUME TypeOK, Tracks, Emit \/ Advance
    PROVE  Tracks' /\ UNCHANGED Contract!contract
<1>1. Reading /\ cell_next(cell) # FailId /\ StepOver
  BY DEF Emit, Advance
<1>2. /\ src' = src /\ dst_cap' = dst_cap /\ pc = "loop" /\ pc' = "loop" /\ rc' = rc
      /\ cur' = cell_next(cell) /\ g' = g + 4
  BY <1>1, NibbleRead DEF StepOver, args, Reading
<1>3. PICK w \in Seq(Byte) : w = Written /\ Len(w) = written /\ Len(w) <= dst_cap
  BY <1>2, WrittenTyped
<1>4. PICK t : t = decode_go(bytes_to_bits(src))[g + 4]
  OBVIOUS
<1>5. PICK y \in Byte : y = cell_sym(cell)
  BY <1>1, CellTracks
<1>6. /\ t.live = state_of(cell_next(cell)).live
      /\ t.bits = state_of(cell_next(cell)).bits
      /\ t.out = w \o (IF cell_emits(cell) THEN <<y>> ELSE <<>>)
  BY <1>1, <1>3, <1>4, <1>5, CellTracks
<1>7. state_of(cell_next(cell)).out = <<>>
  BY <1>1, CellTracks, StateOfTyped
<1>8. UNCHANGED Contract!contract
  BY <1>2 DEF Contract!contract, Result
<1>9. CASE Emit
  <2>1. PICK n \in Nat : n = written /\ n < DstLen /\ n < dst_cap
    BY <1>9, BoundsAssumption DEF Emit, HasRoom, TypeOK
  <2>2. written' = n + 1
    <3>1. n + 1 \in Nat /\ n + 1 < U32
      BY <2>1, BoundsAssumption
    <3> QED
      BY <1>9, <2>1, <3>1, NoWrap DEF Emit
  <2>3. dst' = [dst EXCEPT ![n] = y] /\ cell_emits(cell)
    BY <1>5, <1>9, <2>1 DEF Emit
  <2>4. ASSUME NEW k \in 1..n + 1 PROVE dst'[k - 1] = IF k = n + 1 THEN y ELSE w[k]
    <3>1. dst \in [0..DstLen - 1 -> Byte \cup {Old}] /\ k - 1 \in 0..DstLen - 1
      BY <2>1, BoundsAssumption DEF TypeOK
    <3>2. CASE k = n + 1
      <4>1. k - 1 = n
        BY <3>2
      <4> QED
        BY <2>3, <3>1, <3>2, <4>1
    <3>3. CASE k \in 1..n
      <4>1. w[k] = dst[k - 1]
        BY <1>3, <2>1, <3>3 DEF Written
      <4>2. k - 1 # n
        BY <3>3
      <4> QED
        BY <2>3, <3>1, <3>3, <4>1, <4>2
    <3> QED
      BY <3>2, <3>3
  <2>5. Written' = [k \in 1..n + 1 |-> IF k = n + 1 THEN y ELSE w[k]]
    BY <2>2, <2>4 DEF Written
  <2>6. [k \in 1..n + 1 |-> IF k = n + 1 THEN y ELSE w[k]] = Append(w, y)
    <3>1. PICK v \in Seq(Byte) : v = Append(w, y)
      BY Appended
    <3>2. Len(w) = n
      BY <1>3, <2>1
    <3>3. Len(v) = n + 1 /\ (\A m \in 1..n : v[m] = w[m]) /\ v[n + 1] = y
      BY <3>1, <3>2, Appended
    <3>4. \A k \in 1..n + 1 : v[k] = IF k = n + 1 THEN y ELSE w[k]
      BY <3>3
    <3>5. v = [k \in 1..n + 1 |-> v[k]]
      BY <3>3
    <3> QED
      BY <3>1, <3>4, <3>5
  <2>7. Written' = w \o <<y>> /\ Written' \in Seq(Byte)
    BY <2>5, <2>6
  <2>8. Prefixed(state_of(cell_next(cell)), t, w \o <<y>>)
    <3>1. t.out = w \o <<y>> /\ (w \o <<y>>) \o <<>> = w \o <<y>>
      BY <1>6, <2>3
    <3> QED
      BY <1>6, <1>7, <3>1 DEF Prefixed
  <2>9. Tracks'
    BY <1>2, <1>4, <2>7, <2>8 DEF Tracks
  <2> QED
    BY <1>8, <2>9
<1>10. CASE Advance
  <2>1. Written' = w /\ ~cell_emits(cell)
    BY <1>3, <1>10 DEF Advance, Written
  <2>2. Prefixed(state_of(cell_next(cell)), t, w)
    <3>1. t.out = w \o <<>>
      BY <1>6, <2>1
    <3> QED
      BY <1>6, <1>7, <3>1 DEF Prefixed
  <2>3. Tracks'
    BY <1>2, <1>4, <2>1, <2>2 DEF Tracks
  <2> QED
    BY <1>8, <2>3
<1> QED
  BY <1>9, <1>10

(* The call implements its contract: it answers once, with 0 and the       *)
(* decoded bytes exactly when the stream is valid and they fit, and with   *)
(* -1 and a prefix of them otherwise.                                      *)
THEOREM DecoderImplements == Spec => ImplementsContract
<1>1. Init => Contract!Init
  BY DEF Init, Contract!Init, Contract!NoAnswer, Result
<1>2. TypeOK /\ Tracks /\ [Next]_vars => Tracks' /\ [Contract!Answer]_Contract!contract
  <2> SUFFICES ASSUME TypeOK, Tracks, [Next]_vars
               PROVE  Tracks' /\ [Contract!Answer]_Contract!contract
    OBVIOUS
  <2>1. CASE EndOfInput
    <3>1. pc' = "done"
      BY <2>1 DEF EndOfInput, Return
    <3> QED
      BY <2>1, <3>1, EndAnswers DEF Tracks
  <2>2. CASE Reject \/ NoRoom
    <3>1. pc' = "done"
      BY <2>2 DEF Reject, NoRoom, Return
    <3> QED
      BY <2>2, <3>1, GiveUpAnswers DEF Tracks
  <2>3. CASE Emit \/ Advance
    BY <2>3, GoesOn
  <2>4. CASE UNCHANGED vars
    <3>1. UNCHANGED Contract!contract
      BY <2>4 DEF vars, Contract!contract, Result
    <3>2. Tracks'
      BY <2>4 DEF vars, Tracks, Written
    <3> QED
      BY <3>1, <3>2
  <2> QED
    BY <2>1, <2>2, <2>3, <2>4 DEF Next, Loop, Returned
<1> QED
  BY <1>1, <1>2, TracksInit, TypeCorrect, PTL DEF Spec, ImplementsContract, Contract!Spec
====
