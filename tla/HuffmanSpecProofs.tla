---- MODULE HuffmanSpecProofs ----
(***************************************************************************)
(* Proofs about the reference codec of HuffmanSpec, for every prefix-free  *)
(* code whose EOS is more than seven ones: what the greedy decoder does    *)
(* with the codes of a message, and that decoding an encoding gives the    *)
(* message.  Both are recursive over a bit string or a message, so the     *)
(* proofs use induction over the numbers.                                  *)
(***************************************************************************)
EXTENDS HuffmanSpec, NaturalProofs

LEMMA BitStages ==
    ASSUME NEW b \in Seq(Bit), NEW n \in Nat,
           NEW nx \in [1..n -> [Seq(Bit) -> Seq(Bit)]]
    PROVE  \E h \in [0..n -> Seq(Bit)] :
              h[0] = b /\ \A k \in 1..n : h[k] = nx[k][h[k - 1]]
  BY Stages, SMTT(30) DEF IsStages

--------------------------------------------------------------------------
(* Codes and the automaton's states. *)

State == [live : BOOLEAN, bits : Seq(Bit), out : Seq(Byte)]

LEMMA CodeBits ==
    ASSUME NEW y \in Symbol
    PROVE  Code[y] \in Seq(Bit) /\ Len(Code[y]) \in Nat
<1>1. Code[y] \in Seq(Bit)
  BY CodeTyped
<1> QED
  BY <1>1

LEMMA ByteIsSymbol == ASSUME NEW y \in Byte PROVE y \in Symbol
  BY DEF Byte, Symbol

LEMMA EosIsSymbol == EOS \in Symbol /\ EOS \notin Byte
  BY DEF EOS, Symbol, Byte

LEMMA LookupFinds ==
    ASSUME NEW bits \in Codeword, bits # Code[EOS]
    PROVE  lookup_v(bits) \in Byte /\ Code[lookup_v(bits)] = bits
<1>1. PICK y \in Symbol : bits = Code[y]
  BY DEF Codeword
<1>2. lookup_v(bits) \in Symbol /\ Code[lookup_v(bits)] = bits
  BY <1>1 DEF lookup_v
<1>3. lookup_v(bits) # EOS
  BY <1>2
<1> QED
  BY <1>2, <1>3 DEF Symbol, Byte, EOS

LEMMA LiveTyped == ASSUME NEW bits \in Seq(Bit) PROVE Live(bits) \in State
  BY DEF Live, State

(* What a bit does to a state. *)
LEMMA BitStepCases ==
    ASSUME NEW s \in State, NEW b \in Bit
    PROVE  LET bits == Append(s.bits, b)
           IN  /\ bit_step(s, b) \in State
               /\ ~s.live => bit_step(s, b) = s
               /\ s.live /\ bits \notin Codeword =>
                     bit_step(s, b) = [live |-> TRUE, bits |-> bits, out |-> s.out]
               /\ s.live /\ bits = Code[EOS] =>
                     bit_step(s, b) = [live |-> FALSE, bits |-> <<>>, out |-> s.out]
               /\ s.live /\ bits \in Codeword /\ bits # Code[EOS] =>
                     bit_step(s, b) = [live |-> TRUE, bits |-> <<>>,
                                       out |-> Append(s.out, lookup_v(bits))]
<1>1. PICK bits : bits = Append(s.bits, b)
  OBVIOUS
<1>2. PICK t : t = bit_step(s, b)
  OBVIOUS
<1>3. s.bits \in Seq(Bit) /\ s.out \in Seq(Byte) /\ bits \in Seq(Bit)
  BY <1>1 DEF State
<1>a. s = [live |-> s.live, bits |-> s.bits, out |-> s.out]
  BY DEF State
<1>4. CASE ~s.live
  BY <1>1, <1>2, <1>4 DEF bit_step
<1>5. CASE s.live /\ bits \notin Codeword
  <2>1. Code[EOS] \in Codeword
    BY EosIsSymbol DEF Codeword
  <2>2. t = [s EXCEPT !.bits = bits]
    BY <1>1, <1>2, <1>5 DEF bit_step
  <2>3. t = [live |-> TRUE, bits |-> bits, out |-> s.out]
    BY <1>a, <1>5, <2>2
  <2>4. t \in State
    BY <1>3, <2>3 DEF State
  <2> QED
    BY <1>1, <1>2, <1>5, <2>1, <2>3, <2>4
<1>6. CASE s.live /\ bits = Code[EOS]
  <2>1. bits \in Codeword
    BY <1>6, EosIsSymbol DEF Codeword
  <2>2. t = [live |-> FALSE, bits |-> <<>>, out |-> s.out]
    BY <1>1, <1>2, <1>6, <2>1 DEF bit_step, Fail
  <2>3. t \in State
    BY <1>3, <2>2 DEF State
  <2> QED
    BY <1>1, <1>2, <1>6, <2>1, <2>2, <2>3
<1>7. CASE s.live /\ bits \in Codeword /\ bits # Code[EOS]
  <2>1. t = [live |-> TRUE, bits |-> <<>>, out |-> Append(s.out, lookup_v(bits))]
    BY <1>1, <1>2, <1>7 DEF bit_step, Live
  <2>2. PICK y \in Byte : y = lookup_v(bits)
    BY <1>7, LookupFinds
  <2>3. Append(s.out, y) \in Seq(Byte)
    BY <1>3
  <2>4. t \in State
    BY <2>1, <2>2, <2>3 DEF State
  <2> QED
    BY <1>1, <1>2, <1>7, <2>1, <2>4
<1> QED
  BY <1>4, <1>5, <1>6, <1>7

(* The decoder's states along a bit string satisfy their recursion. *)
LEMMA DecodeGo ==
    ASSUME NEW bits \in Seq(Bit)
    PROVE  /\ decode_go(bits) \in [0..Len(bits) -> State]
           /\ decode_go(bits)[0] = Live(<<>>)
           /\ \A k \in 1..Len(bits) :
                 decode_go(bits)[k] = bit_step(decode_go(bits)[k - 1], bits[k])
<1>1. PICK N \in Nat : N = Len(bits) /\ \A k \in 1..N : bits[k] \in Bit
  OBVIOUS
<1>2. PICK base \in State : base = Live(<<>>)
  <2>1. <<>> \in Seq(Bit)
    OBVIOUS
  <2> QED
    BY <2>1, LiveTyped
<1>3. \A k \in 1..N, s \in State : bit_step(s, bits[k]) \in State
  BY <1>1, BitStepCases
<1>4. PICK next \in [1..N -> [State -> State]] :
         \A k \in 1..N, s \in State : next[k][s] = bit_step(s, bits[k])
  <2> DEFINE nx == [k \in 1..N |-> [s \in State |-> bit_step(s, bits[k])]]
  <2>1. nx \in [1..N -> [State -> State]]
    BY <1>3
  <2>2. \A k \in 1..N, s \in State : nx[k][s] = bit_step(s, bits[k])
    OBVIOUS
  <2> QED
    BY <2>1, <2>2
<1>b. PICK h \in [0..N -> State] :
         h[0] = base /\ \A k \in 1..N : h[k] = next[k][h[k - 1]]
  BY Stages DEF IsStages
<1> DEFINE Is(f) == f = [k \in 0..N |-> IF k = 0 THEN Live(<<>>) ELSE bit_step(f[k - 1], bits[k])]
<1>5. ASSUME NEW k \in 1..N PROVE h[k] = bit_step(h[k - 1], bits[k])
  <2>1. h[k - 1] \in State
    OBVIOUS
  <2> QED
    BY <1>b, <1>4, <2>1
<1>6. Is(h)
  BY <1>b, <1>2, <1>5
<1>7. decode_go(bits) = CHOOSE f : Is(f)
  BY <1>1 DEF decode_go
<1>8. Is(decode_go(bits))
  BY <1>6, <1>7
<1>9. PICK run : run = decode_go(bits)
  OBVIOUS
<1>10. /\ run = [k \in 0..N |-> run[k]] /\ run[0] = Live(<<>>)
       /\ \A k \in 1..N : run[k] = bit_step(run[k - 1], bits[k])
  <2>1. run = [k \in 0..N |-> IF k = 0 THEN Live(<<>>) ELSE bit_step(run[k - 1], bits[k])]
    BY <1>8, <1>9
  <2>2. DOMAIN run = 0..N
    BY <2>1
  <2>3. ASSUME NEW k \in 0..N
        PROVE  run[k] = IF k = 0 THEN Live(<<>>) ELSE bit_step(run[k - 1], bits[k])
    BY <2>1
  <2>4. run = [k \in 0..N |-> run[k]]
    BY <2>1, <2>2, Zenon
  <2> QED
    BY <2>3, <2>4
<1> DEFINE Typed == {k \in Nat : k <= N => run[k] \in State}
<1>11. 0 \in Typed
  BY <1>2, <1>10
<1>12. ASSUME NEW k \in Nat, k \in Typed PROVE k + 1 \in Typed
  <2> SUFFICES ASSUME k + 1 <= N PROVE run[k + 1] \in State
    OBVIOUS
  <2>1. k + 1 \in 1..N /\ (k + 1) - 1 = k /\ run[k] \in State
    BY <1>12
  <2> QED
    BY <1>3, <1>10, <2>1
<1>13. Nat \subseteq Typed
  <2> HIDE DEF Typed
  <2> QED
    BY <1>11, <1>12, NatSetInduction
<1>14. run \in [0..N -> State]
  <2>1. \A k \in 0..N : run[k] \in State
    BY <1>13
  <2> QED
    BY <1>10, <2>1
<1> QED
  BY <1>1, <1>9, <1>10, <1>14
--------------------------------------------------------------------------
(* What a prefix-free code allows. *)

LEMMA CodeNonempty == ASSUME NEW y \in Symbol PROVE Len(Code[y]) > 0
<1>1. PICK z \in Symbol : z # y
  BY DEF Symbol
<1>2. PICK i \in 1..Len(Code[y]) : TRUE
  BY <1>1, PrefixFree DEF CodesDiffer
<1> QED
  BY <1>2, CodeBits

LEMMA CodesDistinct ==
    ASSUME NEW y \in Symbol, NEW z \in Symbol, Code[y] = Code[z]
    PROVE  y = z
<1> SUFFICES ASSUME y # z PROVE FALSE
  OBVIOUS
<1>1. PICK i \in 1..Len(Code[y]) : Code[y][i] # Code[z][i]
  BY PrefixFree DEF CodesDiffer
<1> QED
  BY <1>1

LEMMA LookupIsInverse ==
    ASSUME NEW y \in Symbol
    PROVE  lookup_v(Code[y]) = y
<1>1. lookup_v(Code[y]) \in Symbol /\ Code[lookup_v(Code[y])] = Code[y]
  BY DEF lookup_v
<1> QED
  BY <1>1, CodesDistinct

FirstBits(w, m) == [i \in 1..m |-> w[i]]

LEMMA FirstBitsTyped ==
    ASSUME NEW w \in Seq(Bit), NEW m \in Nat, m <= Len(w)
    PROVE  FirstBits(w, m) \in Seq(Bit) /\ Len(FirstBits(w, m)) = m
  BY DEF FirstBits

LEMMA FirstBitsExtended ==
    ASSUME NEW w \in Seq(Bit), NEW m \in Nat, m < Len(w)
    PROVE  Append(FirstBits(w, m), w[m + 1]) = FirstBits(w, m + 1)
  BY DEF FirstBits

LEMMA NoCodeInside ==
    ASSUME NEW y \in Symbol, NEW m \in Nat, m < Len(Code[y])
    PROVE  FirstBits(Code[y], m) \notin Codeword
<1>1. Code[y] \in Seq(Bit) /\ Len(FirstBits(Code[y], m)) = m
  BY CodeBits, FirstBitsTyped
<1> SUFFICES ASSUME NEW z \in Symbol, Code[z] = FirstBits(Code[y], m) PROVE FALSE
  BY DEF Codeword
<1>2. z # y
  BY <1>1
<1>3. PICK i \in 1..Len(Code[z]) : Code[z][i] # Code[y][i]
  BY <1>2, PrefixFree DEF CodesDiffer
<1> QED
  BY <1>1, <1>3 DEF FirstBits

--------------------------------------------------------------------------
(* The decoder on the codes of a message. *)

Emitted(out, bits) == [live |-> TRUE, bits |-> bits, out |-> out]

LEMMA DecodeGoStep ==
    ASSUME NEW bits \in Seq(Bit), NEW k \in Nat, k < Len(bits)
    PROVE  /\ decode_go(bits)[k] \in State
           /\ bits[k + 1] \in Bit
           /\ decode_go(bits)[k + 1] = bit_step(decode_go(bits)[k], bits[k + 1])
<1>1. k + 1 \in 1..Len(bits) /\ (k + 1) - 1 = k /\ k \in 0..Len(bits)
  OBVIOUS
<1>2. decode_go(bits)[k] \in State
  BY <1>1, DecodeGo
<1>3. bits[k + 1] \in Bit
  BY <1>1
<1>4. decode_go(bits)[k + 1] = bit_step(decode_go(bits)[(k + 1) - 1], bits[k + 1])
  BY <1>1, DecodeGo
<1> QED
  BY <1>1, <1>2, <1>3, <1>4

LEMMA StepInside ==
    ASSUME NEW out \in Seq(Byte), NEW w \in Seq(Bit), NEW b \in Bit, Append(w, b) \notin Codeword
    PROVE  bit_step(Emitted(out, w), b) = Emitted(out, Append(w, b))
<1>1. Emitted(out, w) \in State
  BY DEF Emitted, State
<1> QED
  BY <1>1, BitStepCases DEF Emitted

LEMMA StepSymbol ==
    ASSUME NEW out \in Seq(Byte), NEW w \in Seq(Bit), NEW b \in Bit,
           NEW y \in Byte, Append(w, b) = Code[y]
    PROVE  bit_step(Emitted(out, w), b) = Emitted(Append(out, y), <<>>)
<1>1. Emitted(out, w) \in State
  BY DEF Emitted, State
<1>2. y \in Symbol /\ y # EOS /\ EOS \in Symbol
  BY ByteIsSymbol, EosIsSymbol
<1>3. Code[y] \in Codeword /\ Code[y] # Code[EOS] /\ lookup_v(Code[y]) = y
  BY <1>2, CodesDistinct, LookupIsInverse DEF Codeword
<1>4. PICK s \in State : s = Emitted(out, w) /\ s.live /\ s.bits = w /\ s.out = out
  BY <1>1 DEF Emitted
<1>5. bit_step(s, b) = [live |-> TRUE, bits |-> <<>>, out |-> Append(s.out, lookup_v(Append(s.bits, b)))]
  <2>1. Append(s.bits, b) \in Codeword /\ Append(s.bits, b) # Code[EOS]
    BY <1>3, <1>4
  <2> QED
    BY <1>4, <2>1, BitStepCases
<1>6. lookup_v(Append(s.bits, b)) = y
  BY <1>3, <1>4
<1> QED
  BY <1>4, <1>5, <1>6 DEF Emitted

LEMMA StepEos ==
    ASSUME NEW out \in Seq(Byte), NEW w \in Seq(Bit), NEW b \in Bit, Append(w, b) = Code[EOS]
    PROVE  ~bit_step(Emitted(out, w), b).live
<1>1. Emitted(out, w) \in State
  BY DEF Emitted, State
<1>2. PICK s \in State : s = Emitted(out, w) /\ s.live /\ s.bits = w
  BY <1>1 DEF Emitted
<1>3. bit_step(s, b) = [live |-> FALSE, bits |-> <<>>, out |-> s.out]
  <2>1. Append(s.bits, b) = Code[EOS]
    BY <1>2
  <2> QED
    BY <1>2, <2>1, BitStepCases
<1> QED
  BY <1>2, <1>3

(* The first bits of a code move nothing but the partial codeword. *)
LEMMA ReadsInside ==
    ASSUME NEW bits \in Seq(Bit), NEW e \in Nat, NEW out \in Seq(Byte),
           decode_go(bits)[e] = Emitted(out, <<>>),
           NEW y \in Symbol, NEW m \in Nat, m < Len(Code[y]), e + m <= Len(bits),
           \A j \in 1..m : bits[e + j] = Code[y][j]
    PROVE  decode_go(bits)[e + m] = Emitted(out, FirstBits(Code[y], m))
<1>1. PICK run : run = decode_go(bits)
  OBVIOUS
<1>2. PICK code \in Seq(Bit) : code = Code[y]
  BY CodeBits
<1>a. m < Len(code) /\ Len(code) \in Nat /\ \A j \in 1..m : bits[e + j] = code[j]
  BY <1>2
<1>b. PICK N \in Nat : N = Len(bits) /\ e + m <= N
  OBVIOUS
<1> DEFINE Read == {i \in Nat : i <= m => run[e + i] = Emitted(out, FirstBits(code, i))}
<1>3. 0 \in Read
  <2>1. FirstBits(code, 0) = <<>>
    BY DEF FirstBits
  <2> QED
    BY <1>1, <2>1
<1>4. ASSUME NEW i \in Nat, i \in Read PROVE i + 1 \in Read
  <2> SUFFICES ASSUME i + 1 <= m
               PROVE  run[e + (i + 1)] = Emitted(out, FirstBits(code, i + 1))
    OBVIOUS
  <2>1. run[e + i] = Emitted(out, FirstBits(code, i))
    BY <1>4
  <2>2. PICK k \in Nat : k = e + i /\ k < N /\ k + 1 = e + (i + 1)
    BY <1>b
  <2>3. bits[k + 1] = code[i + 1]
    BY <1>a, <2>2
  <2>4. i < Len(code) /\ i + 1 < Len(code) /\ i <= Len(code)
    BY <1>a
  <2>5. PICK w \in Seq(Bit) : w = FirstBits(code, i)
    BY <2>4, FirstBitsTyped
  <2>6. PICK b \in Bit : b = bits[k + 1] /\ run[k + 1] = bit_step(run[k], b)
    BY <1>1, <1>b, <2>2, DecodeGoStep
  <2>7. Append(w, b) = FirstBits(code, i + 1)
    BY <2>3, <2>4, <2>5, <2>6, FirstBitsExtended
  <2>8. FirstBits(code, i + 1) \notin Codeword
    BY <1>2, <2>4, NoCodeInside
  <2>9. run[k] = Emitted(out, w)
    BY <2>1, <2>2, <2>5
  <2>10. run[k + 1] = Emitted(out, Append(w, b))
    BY <2>6, <2>7, <2>8, <2>9, StepInside, ZenonT(30)
  <2> QED
    BY <2>2, <2>7, <2>10
<1>5. m \in Read
  <2> HIDE DEF Read
  <2> QED
    BY <1>3, <1>4, NatSetInduction
<1> QED
  BY <1>1, <1>2, <1>5

(* All bits of a code emit its symbol. *)
LEMMA ReadsSymbol ==
    ASSUME NEW bits \in Seq(Bit), NEW e \in Nat, NEW out \in Seq(Byte),
           decode_go(bits)[e] = Emitted(out, <<>>),
           NEW y \in Byte, e + Len(Code[y]) <= Len(bits),
           \A j \in 1..Len(Code[y]) : bits[e + j] = Code[y][j]
    PROVE  decode_go(bits)[e + Len(Code[y])] = Emitted(Append(out, y), <<>>)
<1>1. PICK code \in Seq(Bit) : code = Code[y] /\ Len(code) > 0
  BY ByteIsSymbol, CodeBits, CodeNonempty
<1>2. PICK n \in Nat : Len(code) = n + 1
  <2>1. Len(code) - 1 \in Nat /\ Len(code) = (Len(code) - 1) + 1
    BY <1>1
  <2> QED
    BY <2>1
<1>3. PICK k \in Nat : k = e + n /\ k + 1 = e + Len(code) /\ k < Len(bits)
  BY <1>1, <1>2
<1>4. decode_go(bits)[k] = Emitted(out, FirstBits(code, n))
  <2>1. n < Len(Code[y]) /\ e + n <= Len(bits) /\ y \in Symbol
    BY <1>1, <1>2, <1>3, ByteIsSymbol
  <2>2. ASSUME NEW j \in 1..n PROVE bits[e + j] = Code[y][j]
    <3>1. j \in 1..Len(Code[y])
      BY <1>1, <1>2
    <3> QED
      BY <3>1
  <2> QED
    BY <1>1, <1>3, <2>1, <2>2, ReadsInside
<1>5. PICK b \in Bit : b = code[n + 1] /\ decode_go(bits)[k + 1] = bit_step(decode_go(bits)[k], b)
  <2>1. bits[k + 1] = code[n + 1]
    BY <1>1, <1>2, <1>3
  <2> QED
    BY <1>3, <2>1, DecodeGoStep
<1>6. PICK w \in Seq(Bit) : w = FirstBits(code, n)
  BY <1>2, FirstBitsTyped
<1>7. Append(w, b) = Code[y]
  <2>1. Append(w, b) = FirstBits(code, n + 1)
    BY <1>2, <1>5, <1>6, FirstBitsExtended
  <2>2. FirstBits(code, n + 1) = code
    BY <1>2 DEF FirstBits
  <2> QED
    BY <1>1, <2>1, <2>2
<1>8. decode_go(bits)[k + 1] = Emitted(Append(out, y), <<>>)
  <2>1. bit_step(Emitted(out, w), b) = Emitted(Append(out, y), <<>>)
    BY <1>7, StepSymbol
  <2> QED
    BY <1>4, <1>5, <1>6, <2>1
<1> QED
  BY <1>1, <1>3, <1>8
--------------------------------------------------------------------------
(* at[k] is where the codes of the first k symbols of msg end in bits. *)
LaysOut(bits, msg, at) ==
    /\ at \in [0..Len(msg) -> Nat] /\ at[0] = 0
    /\ \A k \in 1..Len(msg) :
          /\ at[k] = at[k - 1] + Len(Code[msg[k]])
          /\ at[k] <= Len(bits)
          /\ \A j \in 1..Len(Code[msg[k]]) : bits[at[k - 1] + j] = Code[msg[k]][j]

(* From position e on there are at most seven bits, all ones. *)
PaddedFrom(bits, e) ==
    /\ Len(bits) - e \in 0..7
    /\ \A i \in e + 1..Len(bits) : bits[i] = 1

FirstSymbols(msg, k) == [i \in 1..k |-> msg[i]]

LEMMA FirstSymbolsTyped ==
    ASSUME NEW msg \in Seq(Byte), NEW k \in Nat, k <= Len(msg)
    PROVE  FirstSymbols(msg, k) \in Seq(Byte) /\ Len(FirstSymbols(msg, k)) = k
<1>1. \A i \in 1..k : msg[i] \in Byte
  OBVIOUS
<1> QED
  BY <1>1 DEF FirstSymbols

(* At the end of each code the decoder has its symbol and no other. *)
LEMMA DecodesCodes ==
    ASSUME NEW bits \in Seq(Bit), NEW msg \in Seq(Byte), NEW at, LaysOut(bits, msg, at)
    PROVE  \A k \in 0..Len(msg) :
              decode_go(bits)[at[k]] = Emitted(FirstSymbols(msg, k), <<>>)
<1>1. PICK n \in Nat : n = Len(msg)
  OBVIOUS
<1> DEFINE Decoded == {k \in Nat : k <= n =>
                          decode_go(bits)[at[k]] = Emitted(FirstSymbols(msg, k), <<>>)}
<1>2. 0 \in Decoded
  <2>1. FirstSymbols(msg, 0) = <<>>
    BY DEF FirstSymbols
  <2>2. decode_go(bits)[0] = Live(<<>>)
    BY DecodeGo
  <2> QED
    BY <2>1, <2>2 DEF LaysOut, Live, Emitted
<1>3. ASSUME NEW k \in Nat, k \in Decoded PROVE k + 1 \in Decoded
  <2> SUFFICES ASSUME k + 1 <= n
               PROVE  decode_go(bits)[at[k + 1]] = Emitted(FirstSymbols(msg, k + 1), <<>>)
    OBVIOUS
  <2>1. k + 1 \in 1..Len(msg) /\ (k + 1) - 1 = k /\ k \in 0..Len(msg)
    BY <1>1
  <2>2. PICK y \in Byte : y = msg[k + 1]
    BY <2>1
  <2>a. at[k] \in Nat
    BY <2>1 DEF LaysOut
  <2>b. decode_go(bits)[at[k]] = Emitted(FirstSymbols(msg, k), <<>>)
    BY <1>3
  <2>3. PICK e \in Nat : e = at[k] /\ decode_go(bits)[e] = Emitted(FirstSymbols(msg, k), <<>>)
    BY <2>a, <2>b
  <2>4. /\ at[k + 1] = e + Len(Code[y])
        /\ e + Len(Code[y]) <= Len(bits)
        /\ \A j \in 1..Len(Code[y]) : bits[e + j] = Code[y][j]
    BY <2>1, <2>2, <2>3 DEF LaysOut
  <2>5. PICK out \in Seq(Byte) : out = FirstSymbols(msg, k)
    BY <2>1, FirstSymbolsTyped
  <2>6. decode_go(bits)[e + Len(Code[y])] = Emitted(Append(out, y), <<>>)
    BY <2>3, <2>4, <2>5, ReadsSymbol
  <2>7. Append(out, y) = FirstSymbols(msg, k + 1)
    BY <2>1, <2>2, <2>5 DEF FirstSymbols
  <2> QED
    BY <2>4, <2>6, <2>7
<1>4. Nat \subseteq Decoded
  <2> HIDE DEF Decoded
  <2> QED
    BY <1>2, <1>3, NatSetInduction
<1> QED
  BY <1>1, <1>4

(* The codes of a message and valid padding decode to the message. *)
LEMMA LaidOutDecodes ==
    ASSUME NEW bits \in Seq(Bit), NEW msg \in Seq(Byte), NEW at,
           LaysOut(bits, msg, at), PaddedFrom(bits, at[Len(msg)])
    PROVE  decode_bits(bits) = [ok |-> TRUE, out |-> msg]
<1>1. PICK e \in Nat : e = at[Len(msg)]
  BY DEF LaysOut
<1>2. decode_go(bits)[e] = Emitted(msg, <<>>)
  <2>1. FirstSymbols(msg, Len(msg)) = msg
    BY DEF FirstSymbols
  <2>2. Len(msg) \in 0..Len(msg)
    OBVIOUS
  <2> QED
    BY <1>1, <2>1, <2>2, DecodesCodes
<1>3. PICK m \in Nat : /\ m <= 7 /\ e + m = Len(bits)
                       /\ \A j \in 1..m : bits[e + j] = 1
  <2>1. Len(bits) - e \in 0..7
    BY <1>1 DEF PaddedFrom
  <2>2. PICK m \in 0..7 : m = Len(bits) - e /\ e + m = Len(bits)
    BY <2>1
  <2>3. ASSUME NEW j \in 1..m PROVE bits[e + j] = 1
    <3>1. e + j \in e + 1..Len(bits)
      BY <2>2
    <3> QED
      BY <1>1, <3>1 DEF PaddedFrom
  <2>4. m \in Nat /\ m <= 7 /\ e + m = Len(bits)
    BY <2>2
  <2>5. \A j \in 1..m : bits[e + j] = 1
    BY <2>3
  <2> QED
    BY <2>4, <2>5, Zenon
<1>4. PICK eos \in Seq(Bit) : /\ eos = Code[EOS] /\ Len(eos) > 7
                              /\ \A j \in 1..Len(eos) : eos[j] = 1
  BY EosIsSymbol, CodeBits, EosAssumption
<1>5. decode_go(bits)[Len(bits)] = Emitted(msg, FirstBits(eos, m))
  <2>1. m < Len(Code[EOS]) /\ EOS \in Symbol /\ e + m <= Len(bits)
    BY <1>3, <1>4, EosIsSymbol
  <2>2. ASSUME NEW j \in 1..m PROVE bits[e + j] = Code[EOS][j]
    <3>1. j \in 1..Len(eos)
      BY <1>3, <1>4
    <3>2. eos[j] = 1 /\ bits[e + j] = 1
      BY <1>3, <1>4, <3>1
    <3> QED
      BY <1>4, <3>2
  <2>3. decode_go(bits)[e + m] = Emitted(msg, FirstBits(Code[EOS], m))
    BY <1>2, <2>1, <2>2, ReadsInside
  <2> QED
    BY <1>3, <1>4, <2>3
<1>6. PICK w : w = FirstBits(eos, m)
  OBVIOUS
<1>7. Len(w) = m /\ \A j \in 1..m : w[j] = 1
  BY <1>3, <1>4, <1>6, FirstBitsTyped DEF FirstBits
<1>8. valid_padding_v(w)
  BY <1>3, <1>7 DEF valid_padding_v
<1>9. is_accepting(Emitted(msg, w)) /\ Emitted(msg, w).out = msg
  BY <1>8 DEF is_accepting, Emitted
<1> QED
  BY <1>5, <1>6, <1>9 DEF decode_bits
--------------------------------------------------------------------------
(* Encoding. *)

LEMMA Concatenated ==
    ASSUME NEW u \in Seq(Bit), NEW v \in Seq(Bit)
    PROVE  /\ u \o v \in Seq(Bit) /\ Len(u \o v) = Len(u) + Len(v)
           /\ \A j \in 1..Len(v) : (u \o v)[Len(u) + j] = v[j]
           /\ \A i \in 1..Len(u) : (u \o v)[i] = u[i]
  OBVIOUS

(* encode_bits lays the codes down one after the other. *)
LEMMA EncodeBits ==
    ASSUME NEW msg \in Seq(Byte)
    PROVE  \E h \in [0..Len(msg) -> Seq(Bit)] :
              /\ h[0] = <<>>
              /\ \A k \in 1..Len(msg) : h[k] = h[k - 1] \o Code[msg[k]]
              /\ encode_bits(msg) = h[Len(msg)]
<1>1. PICK n \in Nat : n = Len(msg)
  OBVIOUS
<1>2. PICK seqs : seqs = [k \in 1..n |-> Code[msg[k]]]
  OBVIOUS
<1>3. ASSUME NEW k \in 1..n PROVE seqs[k] \in Seq(Bit) /\ seqs[k] = Code[msg[k]]
  <2>1. msg[k] \in Byte
    BY <1>1
  <2>2. Code[msg[k]] \in Seq(Bit)
    BY <2>1, ByteIsSymbol, CodeBits
  <2> QED
    BY <1>2, <2>2
<1>4. PICK next \in [1..n -> [Seq(Bit) -> Seq(Bit)]] :
         \A k \in 1..n, w \in Seq(Bit) : next[k][w] = w \o seqs[k]
  <2> DEFINE nx == [k \in 1..n |-> [w \in Seq(Bit) |-> w \o seqs[k]]]
  <2>1. \A k \in 1..n, w \in Seq(Bit) : w \o seqs[k] \in Seq(Bit)
    BY <1>3
  <2>2. nx \in [1..n -> [Seq(Bit) -> Seq(Bit)]]
    BY <2>1
  <2>3. \A k \in 1..n, w \in Seq(Bit) : nx[k][w] = w \o seqs[k]
    OBVIOUS
  <2> QED
    BY <2>2, <2>3
<1>5. PICK base \in Seq(Bit) : base = <<>>
  <2>1. <<>> \in Seq(Bit)
    OBVIOUS
  <2> QED
    BY <2>1
<1>6. PICK h \in [0..n -> Seq(Bit)] :
         h[0] = base /\ \A k \in 1..n : h[k] = next[k][h[k - 1]]
  BY BitStages, ZenonT(30)
<1>7. ASSUME NEW k \in 1..n PROVE h[k] = h[k - 1] \o seqs[k]
  <2>1. h[k - 1] \in Seq(Bit)
    OBVIOUS
  <2> QED
    BY <1>4, <1>6, <2>1
<1>8. encode_bits(msg) = FlattenSeq(seqs)
  BY <1>1, <1>2 DEF encode_bits
<1>9. FlattenSeq(seqs) = h[n]
  <2>1. Len(seqs) = n
    BY <1>2
  <2>2. CASE n = 0
    <3>1. FlattenSeq(seqs) = seqs
      BY <2>1, <2>2 DEF FlattenSeq
    <3>2. seqs = <<>>
      BY <1>2, <2>2
    <3> QED
      BY <1>5, <1>6, <2>2, <3>1, <3>2
  <2>3. CASE n > 0
    <3> DEFINE Is(f) == f = [i \in 1..n |-> IF i = 1 THEN seqs[i] ELSE f[i - 1] \o seqs[i]]
    <3>1. FlattenSeq(seqs) = (CHOOSE f : Is(f))[n]
      BY <2>1, <2>3 DEF FlattenSeq
    <3>2. PICK g : g = [i \in 1..n |-> h[i]]
      OBVIOUS
    <3>3. ASSUME NEW i \in 1..n
          PROVE  g[i] = IF i = 1 THEN seqs[i] ELSE g[i - 1] \o seqs[i]
      <4>1. g[i] = h[i - 1] \o seqs[i]
        BY <1>7, <3>2
      <4>2. CASE i = 1
        <5>1. seqs[i] \in Seq(Bit)
          BY <1>3
        <5>2. h[i - 1] = <<>>
          BY <1>5, <1>6, <4>2
        <5> QED
          BY <4>1, <4>2, <5>1, <5>2
      <4>3. CASE i # 1
        <5>1. i - 1 \in 1..n
          BY <4>3
        <5> QED
          BY <3>2, <4>1, <4>3, <5>1
      <4> QED
        BY <4>2, <4>3
    <3>4. Is(g)
      BY <3>2, <3>3
    <3>5. PICK f : f = (CHOOSE ff : Is(ff))
      OBVIOUS
    <3>a. Is(f)
      BY <3>4, <3>5
    <3>6. ASSUME NEW i \in 1..n
          PROVE  f[i] = IF i = 1 THEN seqs[i] ELSE f[i - 1] \o seqs[i]
      BY <3>a
    <3> DEFINE Same == {k \in Nat : k + 1 <= n => f[k + 1] = h[k + 1]}
    <3>7. 0 \in Same
      <4>1. 1 \in 1..n
        BY <2>3
      <4>2. f[1] = g[1]
        BY <3>3, <3>6, <4>1
      <4> QED
        BY <3>2, <4>1, <4>2
    <3>8. ASSUME NEW k \in Nat, k \in Same PROVE k + 1 \in Same
      <4> SUFFICES ASSUME (k + 1) + 1 <= n PROVE f[(k + 1) + 1] = h[(k + 1) + 1]
        OBVIOUS
      <4>1. PICK i \in 1..n : i = (k + 1) + 1 /\ i # 1 /\ i - 1 = k + 1 /\ k + 1 \in 1..n
        OBVIOUS
      <4>2. f[i - 1] = h[i - 1]
        BY <3>8, <4>1
      <4>3. f[i] = h[i - 1] \o seqs[i]
        BY <3>6, <4>1, <4>2
      <4> QED
        BY <1>7, <4>1, <4>3
    <3>9. Nat \subseteq Same
      <4> HIDE DEF Same
      <4> QED
        BY <3>7, <3>8, NatSetInduction
    <3>10. PICK m \in Nat : m + 1 = n
      <4>1. n - 1 \in Nat /\ (n - 1) + 1 = n
        BY <2>3
      <4> QED
        BY <4>1
    <3>11. f[n] = h[n]
      <4>1. m + 1 <= n
        BY <3>10
      <4>2. f[m + 1] = h[m + 1]
        BY <3>9, <4>1
      <4> QED
        BY <3>10, <4>2
    <3> QED
      BY <3>1, <3>5, <3>11
  <2> QED
    BY <2>2, <2>3
<1>10. h[0] = <<>>
  BY <1>5, <1>6
<1>11. \A k \in 1..n : h[k] = h[k - 1] \o Code[msg[k]]
  BY <1>3, <1>7
<1> QED
  BY <1>1, <1>8, <1>9, <1>10, <1>11

(* Where they end. *)
LEMMA EncodeLaysOut ==
    ASSUME NEW msg \in Seq(Byte)
    PROVE  /\ encode_bits(msg) \in Seq(Bit)
           /\ \E at : /\ LaysOut(encode_bits(msg), msg, at)
                      /\ at[Len(msg)] = Len(encode_bits(msg))
<1>1. PICK n \in Nat : n = Len(msg)
  OBVIOUS
<1>2. PICK h \in [0..n -> Seq(Bit)] :
         /\ h[0] = <<>>
         /\ \A k \in 1..n : h[k] = h[k - 1] \o Code[msg[k]]
         /\ encode_bits(msg) = h[n]
  BY <1>1, EncodeBits
<1>3. PICK at \in [0..n -> Nat] : \A k \in 0..n : at[k] = Len(h[k])
  <2> DEFINE lens == [k \in 0..n |-> Len(h[k])]
  <2>1. \A k \in 0..n : Len(h[k]) \in Nat
    <3>1. \A k \in 0..n : h[k] \in Seq(Bit)
      OBVIOUS
    <3> QED
      BY <3>1
  <2>2. lens \in [0..n -> Nat]
    BY <2>1
  <2> QED
    BY <2>2
<1>4. ASSUME NEW k \in 1..n
      PROVE  /\ h[k] \in Seq(Bit) /\ h[k - 1] \in Seq(Bit) /\ Code[msg[k]] \in Seq(Bit)
             /\ at[k - 1] \in Nat /\ at[k] \in Nat
             /\ at[k - 1] = Len(h[k - 1]) /\ at[k] = Len(h[k])
             /\ h[k] = h[k - 1] \o Code[msg[k]]
  <2>1. msg[k] \in Byte /\ k \in 0..n /\ k - 1 \in 0..n
    BY <1>1
  <2>2. Code[msg[k]] \in Seq(Bit)
    BY <2>1, ByteIsSymbol, CodeBits
  <2>3. h[k] \in Seq(Bit) /\ h[k - 1] \in Seq(Bit)
    BY <2>1
  <2>4. at[k - 1] = Len(h[k - 1]) /\ at[k] = Len(h[k])
    BY <1>3, <2>1
  <2>5. at[k - 1] \in Nat /\ at[k] \in Nat
    BY <2>1
  <2> QED
    BY <1>2, <2>2, <2>3, <2>4, <2>5
<1>5. ASSUME NEW k \in 1..n
      PROVE  /\ at[k] = at[k - 1] + Len(Code[msg[k]])
             /\ \A j \in 1..Len(Code[msg[k]]) : h[k][at[k - 1] + j] = Code[msg[k]][j]
             /\ \A i \in 1..at[k - 1] : h[k][i] = h[k - 1][i]
  <2>1. PICK u \in Seq(Bit) : u = h[k - 1] /\ at[k - 1] = Len(u)
    BY <1>4
  <2>a. PICK v \in Seq(Bit) : v = Code[msg[k]]
    BY <1>4
  <2>b. PICK w \in Seq(Bit) : w = h[k] /\ w = u \o v /\ at[k] = Len(w)
    BY <1>4, <2>1, <2>a
  <2>2. Len(w) = Len(u) + Len(v)
    BY <2>b, Concatenated
  <2>3. \A j \in 1..Len(v) : w[Len(u) + j] = v[j]
    BY <2>b, Concatenated
  <2>4. \A i \in 1..Len(u) : w[i] = u[i]
    BY <2>b, Concatenated
  <2> QED
    BY <2>1, <2>a, <2>b, <2>2, <2>3, <2>4
<1>6. ASSUME NEW k \in 0..n
      PROVE  at[k] <= at[n] /\ \A i \in 1..at[k] : h[n][i] = h[k][i]
  <2> DEFINE Kept == {d \in Nat : k + d <= n =>
                        at[k] <= at[k + d] /\ \A i \in 1..at[k] : h[k + d][i] = h[k][i]}
  <2>1. 0 \in Kept
    BY <1>3
  <2>2. ASSUME NEW d \in Nat, d \in Kept PROVE d + 1 \in Kept
    <3> SUFFICES ASSUME k + (d + 1) <= n
                 PROVE  /\ at[k] <= at[k + (d + 1)]
                        /\ \A i \in 1..at[k] : h[k + (d + 1)][i] = h[k][i]
      OBVIOUS
    <3>1. PICK m \in 1..n : m = k + (d + 1) /\ m - 1 = k + d
      OBVIOUS
    <3>2. at[k] <= at[m - 1] /\ \A i \in 1..at[k] : h[m - 1][i] = h[k][i]
      BY <2>2, <3>1
    <3>3. at[m - 1] <= at[m] /\ at[k] \in Nat /\ at[m] \in Nat /\ at[m - 1] \in Nat
      <4>1. PICK v \in Seq(Bit) : v = Code[msg[m]]
        BY <1>4
      <4>2. at[m] = at[m - 1] + Len(v)
        BY <1>5, <4>1
      <4>3. Len(v) \in Nat /\ at[m - 1] \in Nat /\ at[m] \in Nat
        BY <1>4, <4>1, SMTT(30)
      <4>4. at[k] \in Nat
        OBVIOUS
      <4> QED
        BY <4>2, <4>3, <4>4
    <3>4. ASSUME NEW i \in 1..at[k] PROVE h[m][i] = h[k][i]
      <4>1. i \in 1..at[m - 1]
        BY <3>2, <3>3, SMTT(30)
      <4> QED
        BY <1>5, <3>2, <4>1
    <3>5. at[k] <= at[m]
      BY <3>2, <3>3, SMTT(30)
    <3> QED
      BY <3>1, <3>4, <3>5
  <2>3. Nat \subseteq Kept
    <3> HIDE DEF Kept
    <3> QED
      BY <2>1, <2>2, NatSetInduction
  <2>4. PICK d \in Nat : k + d = n
    <3>1. n - k \in Nat /\ k + (n - k) = n
      OBVIOUS
    <3> QED
      BY <3>1
  <2>5. k + d <= n
    BY <2>4
  <2>6. at[k] <= at[k + d] /\ \A i \in 1..at[k] : h[k + d][i] = h[k][i]
    BY <2>3, <2>5
  <2> QED
    BY <2>4, <2>6
<1>7. PICK bits \in Seq(Bit) : bits = encode_bits(msg) /\ bits = h[n] /\ Len(bits) = at[n]
  <2>1. n \in 0..n
    OBVIOUS
  <2>2. h[n] \in Seq(Bit) /\ at[n] = Len(h[n])
    BY <1>3, <2>1
  <2> QED
    BY <1>2, <2>2
<1>8. at[0] = 0
  <2>1. 0 \in 0..n
    OBVIOUS
  <2>2. at[0] = Len(h[0])
    BY <1>3, <2>1
  <2> QED
    BY <1>2, <2>2
<1>9. ASSUME NEW k \in 1..n
      PROVE  /\ at[k] <= Len(bits)
             /\ \A j \in 1..Len(Code[msg[k]]) : bits[at[k - 1] + j] = Code[msg[k]][j]
  <2>1. k \in 0..n /\ at[k] <= at[n] /\ \A i \in 1..at[k] : h[n][i] = h[k][i]
    BY <1>6
  <2>2. PICK v \in Seq(Bit) : v = Code[msg[k]]
    BY <1>4
  <2>3. PICK a \in Nat : a = at[k - 1] /\ at[k] = a + Len(v)
    BY <1>4, <1>5, <2>2
  <2>4. ASSUME NEW j \in 1..Len(v) PROVE bits[a + j] = v[j]
    <3>1. a + j \in 1..at[k]
      BY <2>3, SMTT(30)
    <3>2. h[k][a + j] = v[j]
      BY <1>5, <2>2, <2>3
    <3>3. h[n][a + j] = h[k][a + j]
      BY <2>1, <3>1
    <3> QED
      BY <1>7, <3>2, <3>3
  <2> QED
    BY <1>7, <2>1, <2>2, <2>3, <2>4
<1>10. LaysOut(bits, msg, at)
  BY <1>1, <1>5, <1>8, <1>9 DEF LaysOut
<1> QED
  BY <1>1, <1>7, <1>10

(* A byte put together from eight bits has those bits. *)
LEMMA ByteOfBits ==
    ASSUME NEW P \in Seq(Bit), NEW p \in Nat, p + 8 <= Len(P), NEW j \in 1..8
    PROVE  /\ byte_at(P, p) \in Byte
           /\ (byte_at(P, p) \div Weight[j]) % 2 = P[p + j]
<1>1. ASSUME NEW k \in 1..8 PROVE P[p + k] \in Bit
  <2>1. p + k \in 1..Len(P)
    OBVIOUS
  <2> QED
    BY <2>1
<1>2. PICK b1 \in Bit, b2 \in Bit, b3 \in Bit, b4 \in Bit :
         /\ b1 = P[p + 1] /\ b2 = P[p + 2] /\ b3 = P[p + 3] /\ b4 = P[p + 4]
  BY <1>1
<1>3. PICK b5 \in Bit, b6 \in Bit, b7 \in Bit, b8 \in Bit :
         /\ b5 = P[p + 5] /\ b6 = P[p + 6] /\ b7 = P[p + 7] /\ b8 = P[p + 8]
  BY <1>1
<1>4. PICK x : x = byte_at(P, p)
  OBVIOUS
<1>5. x = 128 * b1 + 64 * b2 + 32 * b3 + 16 * b4 + 8 * b5 + 4 * b6 + 2 * b7 + b8
  BY <1>2, <1>3, <1>4 DEF byte_at
<1>6. /\ x \in Byte
      /\ (x \div 128) % 2 = b1 /\ (x \div 64) % 2 = b2
      /\ (x \div 32) % 2 = b3 /\ (x \div 16) % 2 = b4
      /\ (x \div 8) % 2 = b5 /\ (x \div 4) % 2 = b6
      /\ (x \div 2) % 2 = b7 /\ (x \div 1) % 2 = b8
  BY <1>5 DEF Bit, Byte
<1>7. (x \div Weight[j]) % 2 = P[p + j]
  <2>1. CASE j = 1
    BY <1>2, <1>6, <2>1 DEF Weight
  <2>2. CASE j = 2
    BY <1>2, <1>6, <2>2 DEF Weight
  <2>3. CASE j = 3
    BY <1>2, <1>6, <2>3 DEF Weight
  <2>4. CASE j = 4
    BY <1>2, <1>6, <2>4 DEF Weight
  <2>5. CASE j = 5
    BY <1>3, <1>6, <2>5 DEF Weight
  <2>6. CASE j = 6
    BY <1>3, <1>6, <2>6 DEF Weight
  <2>7. CASE j = 7
    BY <1>3, <1>6, <2>7 DEF Weight
  <2>8. CASE j = 8
    BY <1>3, <1>6, <2>8 DEF Weight
  <2> QED
    BY <2>1, <2>2, <2>3, <2>4, <2>5, <2>6, <2>7, <2>8
<1> QED
  BY <1>4, <1>6, <1>7

LEMMA BitsOfBytes ==
    ASSUME NEW bytes \in Seq(Byte)
    PROVE  /\ bytes_to_bits(bytes) \in Seq(Bit)
           /\ Len(bytes_to_bits(bytes)) = 8 * Len(bytes)
           /\ \A k \in 1..Len(bytes), j \in 1..8 :
                 bytes_to_bits(bytes)[8 * (k - 1) + j] = (bytes[k] \div Weight[j]) % 2
<1>1. PICK n \in Nat : n = Len(bytes)
  OBVIOUS
<1>2. ASSUME NEW i \in 1..8 * n PROVE bit_at(bytes, i - 1) \in Bit
  <2>1. PICK q \in Nat : q = (i - 1) \div 8 /\ q + 1 \in 1..n
    OBVIOUS
  <2>2. PICK r \in 0..7 : r = (i - 1) % 8
    OBVIOUS
  <2>3. PICK y \in Byte : y = bytes[q + 1]
    BY <1>1, <2>1
  <2>4. Weight[r + 1] \in Nat \ {0}
    BY <2>2 DEF Weight
  <2>a. PICK w \in Nat : w = Weight[r + 1] /\ w > 0
    BY <2>4
  <2>b. y \div w \in Int
    BY <2>a, <2>3 DEF Byte
  <2>5. (y \div Weight[r + 1]) % 2 \in Bit
    BY <2>a, <2>b DEF Bit
  <2> QED
    BY <2>1, <2>2, <2>3, <2>5 DEF bit_at
<1>3. bytes_to_bits(bytes) = [i \in 1..8 * n |-> bit_at(bytes, i - 1)]
  BY <1>1 DEF bytes_to_bits
<1>4. ASSUME NEW k \in 1..n, NEW j \in 1..8
      PROVE  bytes_to_bits(bytes)[8 * (k - 1) + j] = (bytes[k] \div Weight[j]) % 2
  <2>1. PICK i \in 1..8 * n : i = 8 * (k - 1) + j
    OBVIOUS
  <2>2. (i - 1) \div 8 + 1 = k /\ ((i - 1) % 8) + 1 = j
    BY <2>1
  <2> QED
    BY <1>3, <2>1, <2>2 DEF bit_at
<1>5. bytes_to_bits(bytes) \in Seq(Bit) /\ Len(bytes_to_bits(bytes)) = 8 * n
  BY <1>2, <1>3
<1> QED
  BY <1>1, <1>4, <1>5

(* The bytes of an encoding carry the codes of the message and then ones. *)
LEMMA EncodingBits ==
    ASSUME NEW msg \in Seq(Byte)
    PROVE  /\ Encoding(msg) \in Seq(Byte)
           /\ encode_bits(msg) \in Seq(Bit)
           /\ 8 * Len(Encoding(msg)) - Len(encode_bits(msg)) \in 0..7
           /\ \A i \in 1..8 * Len(Encoding(msg)) :
                 bytes_to_bits(Encoding(msg))[i] =
                    IF i <= Len(encode_bits(msg)) THEN encode_bits(msg)[i] ELSE 1
<1>1. PICK codes \in Seq(Bit) : codes = encode_bits(msg)
  BY EncodeLaysOut
<1>2. PICK len \in Nat : len = Len(codes)
  OBVIOUS
<1>3. PICK ones \in Seq(Bit) : ones = <<1, 1, 1, 1, 1, 1, 1>> /\ Len(ones) = 7
                               /\ \A j \in 1..7 : ones[j] = 1
  <2>1. PICK o : o = <<1, 1, 1, 1, 1, 1, 1>>
    OBVIOUS
  <2>2. o \in Seq(Bit) /\ Len(o) = 7
    BY <2>1 DEF Bit
  <2>3. \A j \in 1..7 : o[j] = 1
    BY <2>1
  <2> QED
    BY <2>1, <2>2, <2>3
<1>4. PICK P \in Seq(Bit) :
         /\ P = padded(msg) /\ Len(P) = len + 7
         /\ \A i \in 1..len : P[i] = codes[i]
         /\ \A j \in 1..7 : P[len + j] = 1
  <2>1. padded(msg) = codes \o ones
    BY <1>1, <1>3 DEF padded
  <2>2. PICK P \in Seq(Bit) : P = codes \o ones
    BY Concatenated
  <2>3. Len(P) = Len(codes) + Len(ones)
    BY <2>2, Concatenated
  <2>4. \A j \in 1..Len(ones) : P[Len(codes) + j] = ones[j]
    BY <2>2, Concatenated
  <2>5. \A i \in 1..Len(codes) : P[i] = codes[i]
    BY <2>2, Concatenated
  <2>6. \A j \in 1..7 : P[len + j] = 1
    BY <1>2, <1>3, <2>4
  <2>7. Len(P) = len + 7 /\ \A i \in 1..len : P[i] = codes[i]
    BY <1>2, <1>3, <2>3, <2>5
  <2> QED
    BY <2>1, <2>2, <2>6, <2>7
<1>5. PICK N \in Nat : N = (len + 7) \div 8 /\ 8 * N - len \in 0..7
  OBVIOUS
<1>6. PICK enc : enc = Encoding(msg)
  OBVIOUS
<1>7. enc = [k \in 1..N |-> byte_at(P, 8 * (k - 1))]
  BY <1>4, <1>5, <1>6 DEF Encoding
<1>8. ASSUME NEW k \in 1..N
      PROVE  /\ enc[k] \in Byte
             /\ \A j \in 1..8 : (enc[k] \div Weight[j]) % 2 = P[8 * (k - 1) + j]
  <2>1. PICK p \in Nat : p = 8 * (k - 1) /\ p + 8 <= Len(P)
    BY <1>4, <1>5
  <2>2. enc[k] = byte_at(P, p)
    BY <1>7, <2>1
  <2> QED
    BY <2>1, <2>2, ByteOfBits
<1>9. enc \in Seq(Byte) /\ Len(enc) = N
  BY <1>7, <1>8
<1>10. ASSUME NEW i \in 1..8 * N
       PROVE  bytes_to_bits(enc)[i] = IF i <= len THEN codes[i] ELSE 1
  <2>1. PICK k \in 1..N, j \in 1..8 : i = 8 * (k - 1) + j
    <3>1. (i - 1) \div 8 + 1 \in 1..N /\ ((i - 1) % 8) + 1 \in 1..8
      OBVIOUS
    <3>2. i = 8 * (((i - 1) \div 8 + 1) - 1) + (((i - 1) % 8) + 1)
      OBVIOUS
    <3> QED
      BY <3>1, <3>2
  <2>2. bytes_to_bits(enc)[i] = (enc[k] \div Weight[j]) % 2
    BY <1>9, <2>1, BitsOfBytes
  <2>3. bytes_to_bits(enc)[i] = P[i]
    BY <1>8, <2>1, <2>2
  <2>4. CASE i <= len
    BY <1>4, <2>3, <2>4
  <2>5. CASE i > len
    <3>1. PICK m \in 1..7 : i = len + m
      <4>1. i - len \in 1..7 /\ i = len + (i - len)
        BY <1>5, <2>5
      <4> QED
        BY <4>1
    <3> QED
      BY <1>4, <2>3, <2>5, <3>1
  <2> QED
    BY <2>4, <2>5
<1> QED
  BY <1>1, <1>2, <1>5, <1>6, <1>9, <1>10

(* Decoding the encoding of any message gives back the message and accepts *)
(* it: Spec.RoundTrip.fst's round_trip_padded, for any prefix-free code.    *)
THEOREM DecodeEncode ==
    \A msg \in Seq(Byte) :
        decode_bits(bytes_to_bits(Encoding(msg))) = [ok |-> TRUE, out |-> msg]
<1> SUFFICES ASSUME NEW msg \in Seq(Byte)
             PROVE  decode_bits(bytes_to_bits(Encoding(msg))) = [ok |-> TRUE, out |-> msg]
  OBVIOUS
<1>1. PICK enc \in Seq(Byte) : enc = Encoding(msg)
  BY EncodingBits
<1>2. PICK codes \in Seq(Bit) : codes = encode_bits(msg)
  BY EncodingBits
<1>3. PICK bits \in Seq(Bit) : bits = bytes_to_bits(enc) /\ Len(bits) = 8 * Len(enc)
  BY BitsOfBytes
<1>4. /\ Len(bits) - Len(codes) \in 0..7
      /\ \A i \in 1..Len(bits) : bits[i] = IF i <= Len(codes) THEN codes[i] ELSE 1
  BY <1>1, <1>2, <1>3, EncodingBits
<1>5. PICK at : LaysOut(codes, msg, at) /\ at[Len(msg)] = Len(codes)
  BY <1>2, EncodeLaysOut
<1>6. PICK c \in Nat, n \in Nat : c = Len(codes) /\ n = Len(bits) /\ c <= n
  BY <1>4
<1>7. PaddedFrom(bits, c)
  <2>1. ASSUME NEW i \in c + 1..Len(bits) PROVE bits[i] = 1
    <3>1. i \in 1..Len(bits) /\ ~(i <= Len(codes))
      BY <1>6
    <3> QED
      BY <1>4, <3>1
  <2> QED
    BY <1>4, <1>6, <2>1 DEF PaddedFrom
<1>8. LaysOut(bits, msg, at)
  <2>1. ASSUME NEW k \in 1..Len(msg)
        PROVE  /\ at[k] = at[k - 1] + Len(Code[msg[k]])
               /\ at[k] <= Len(bits)
               /\ \A j \in 1..Len(Code[msg[k]]) : bits[at[k - 1] + j] = Code[msg[k]][j]
    <3>1. /\ at[k] = at[k - 1] + Len(Code[msg[k]])
          /\ at[k] <= Len(codes)
          /\ \A j \in 1..Len(Code[msg[k]]) : codes[at[k - 1] + j] = Code[msg[k]][j]
      BY <1>5 DEF LaysOut
    <3>2. PICK code \in Seq(Bit) : code = Code[msg[k]]
      <4>1. msg[k] \in Byte
        OBVIOUS
      <4> QED
        BY <4>1, ByteIsSymbol, CodeBits
    <3>3. PICK a \in Nat, b \in Nat : a = at[k - 1] /\ b = at[k]
      <4>1. k - 1 \in 0..Len(msg) /\ k \in 0..Len(msg)
        OBVIOUS
      <4> QED
        BY <1>5, <4>1 DEF LaysOut
    <3>4. b = a + Len(code) /\ b <= c
      BY <1>6, <3>1, <3>2, <3>3
    <3>5. ASSUME NEW j \in 1..Len(code) PROVE bits[a + j] = code[j]
      <4>1. a + j \in 1..Len(bits) /\ a + j <= Len(codes)
        BY <1>6, <3>4
      <4>2. codes[a + j] = code[j]
        BY <3>1, <3>2, <3>3
      <4> QED
        BY <1>4, <4>1, <4>2
    <3> QED
      BY <1>6, <3>2, <3>3, <3>4, <3>5
  <2> QED
    BY <1>5, <2>1 DEF LaysOut
<1>9. decode_bits(bits) = [ok |-> TRUE, out |-> msg]
  BY <1>5, <1>6, <1>7, <1>8, LaidOutDecodes
<1> QED
  BY <1>1, <1>3, <1>9

--------------------------------------------------------------------------
(* What later bits cannot undo. *)

(* A state's output only grows, and a failed state stays as it is. *)
Grown(s, t) ==
    /\ ~s.live => t = s
    /\ Len(s.out) <= Len(t.out)
    /\ \A m \in 1..Len(s.out) : t.out[m] = s.out[m]

(* BitStepCases, field by field. *)
Becomes(s, bits, t) ==
    /\ ~s.live => t = s
    /\ s.live /\ bits \notin Codeword => t.live /\ t.bits = bits /\ t.out = s.out
    /\ s.live /\ bits = Code[EOS] => ~t.live /\ t.bits = <<>> /\ t.out = s.out
    /\ s.live /\ bits \in Codeword /\ bits # Code[EOS] =>
          t.live /\ t.bits = <<>> /\ t.out = Append(s.out, lookup_v(bits))

LEMMA BitStepBecomes ==
    ASSUME NEW s \in State, NEW b \in Bit
    PROVE  Becomes(s, Append(s.bits, b), bit_step(s, b))
<1>a. PICK t : t = bit_step(s, b)
  OBVIOUS
<1>b. PICK bits : bits = Append(s.bits, b)
  OBVIOUS
<1>1. ~s.live => t = s
  BY <1>a, BitStepCases
<1>2. ASSUME s.live, bits \notin Codeword
      PROVE  t.live /\ t.bits = bits /\ t.out = s.out
  <2>1. t = [live |-> TRUE, bits |-> bits, out |-> s.out]
    BY <1>a, <1>b, <1>2, BitStepCases
  <2> QED
    BY <2>1
<1>3. ASSUME s.live, bits = Code[EOS]
      PROVE  ~t.live /\ t.bits = <<>> /\ t.out = s.out
  <2>1. t = [live |-> FALSE, bits |-> <<>>, out |-> s.out]
    BY <1>a, <1>b, <1>3, BitStepCases
  <2> QED
    BY <2>1
<1>4. ASSUME s.live, bits \in Codeword, bits # Code[EOS]
      PROVE  t.live /\ t.bits = <<>> /\ t.out = Append(s.out, lookup_v(bits))
  <2>1. t = [live |-> TRUE, bits |-> <<>>, out |-> Append(s.out, lookup_v(bits))]
    BY <1>a, <1>b, <1>4, BitStepCases
  <2> QED
    BY <2>1
<1>5. Becomes(s, bits, t)
  BY <1>1, <1>2, <1>3, <1>4 DEF Becomes
<1> QED
  BY <1>a, <1>b, <1>5

LEMMA Appended ==
    ASSUME NEW w \in Seq(Byte), NEW y \in Byte
    PROVE  /\ Append(w, y) \in Seq(Byte) /\ Len(Append(w, y)) = Len(w) + 1
           /\ \A m \in 1..Len(w) : Append(w, y)[m] = w[m]
           /\ Append(w, y)[Len(w) + 1] = y
  OBVIOUS

LEMMA BitStepGrows ==
    ASSUME NEW s \in State, NEW b \in Bit
    PROVE  Grown(s, bit_step(s, b))
<1>1. PICK t : t = bit_step(s, b)
  OBVIOUS
<1>2. PICK bits : bits = Append(s.bits, b)
  OBVIOUS
<1>a. Becomes(s, bits, t)
  BY <1>1, <1>2, BitStepBecomes
<1>3. PICK w \in Seq(Byte) : w = s.out
  BY DEF State
<1>4. Len(w) \in Nat
  OBVIOUS
<1>5. CASE t.out = w /\ (~s.live => t = s)
  BY <1>1, <1>3, <1>4, <1>5 DEF Grown
<1>6. CASE s.live /\ bits \in Codeword /\ bits # Code[EOS]
  <2>1. PICK y \in Byte : y = lookup_v(bits)
    BY <1>6, LookupFinds
  <2>2. t.out = Append(w, y)
    BY <1>a, <1>3, <1>6, <2>1 DEF Becomes
  <2>3. Len(w) <= Len(t.out) /\ \A m \in 1..Len(w) : t.out[m] = w[m]
    BY <1>4, <2>2, Appended
  <2> QED
    BY <1>1, <1>3, <1>6, <2>3 DEF Grown
<1>7. (t.out = w /\ (~s.live => t = s)) \/ (s.live /\ bits \in Codeword /\ bits # Code[EOS])
  <2>1. CASE bits \in Codeword
    BY <1>a, <1>3, <2>1 DEF Becomes
  <2>2. CASE bits \notin Codeword
    BY <1>a, <1>3, <2>2 DEF Becomes
  <2> QED
    BY <2>1, <2>2
<1> QED
  BY <1>5, <1>6, <1>7

LEMMA GrownTransitive ==
    ASSUME NEW s \in State, NEW t \in State, NEW u \in State, Grown(s, t), Grown(t, u)
    PROVE  Grown(s, u)
<1>1. PICK a \in Seq(Byte) : a = s.out
  BY DEF State
<1>2. PICK b \in Seq(Byte) : b = t.out
  BY DEF State
<1>3. PICK c \in Seq(Byte) : c = u.out
  BY DEF State
<1>4. Len(a) <= Len(b) /\ Len(b) <= Len(c) /\ Len(a) \in Nat /\ Len(b) \in Nat /\ Len(c) \in Nat
  BY <1>1, <1>2, <1>3 DEF Grown
<1>5. ASSUME NEW m \in 1..Len(a) PROVE c[m] = a[m]
  <2>1. m \in 1..Len(b)
    BY <1>4
  <2> QED
    BY <1>1, <1>2, <1>3, <2>1 DEF Grown
<1>6. ~s.live => u = s
  BY DEF Grown
<1> QED
  BY <1>1, <1>3, <1>4, <1>5, <1>6 DEF Grown

LEMMA Grows ==
    ASSUME NEW bits \in Seq(Bit), NEW i \in Nat, NEW j \in Nat, i <= j, j <= Len(bits)
    PROVE  Grown(decode_go(bits)[i], decode_go(bits)[j])
<1>1. PICK N \in Nat : N = Len(bits) /\ j <= N
  OBVIOUS
<1>2. PICK run : run = decode_go(bits) /\ \A k \in 0..N : run[k] \in State
  BY <1>1, DecodeGo
<1> DEFINE Later == {d \in Nat : i + d <= N => Grown(run[i], run[i + d])}
<1>3. 0 \in Later
  <2>1. PICK s \in State : s = run[i]
    BY <1>1, <1>2
  <2>2. Grown(s, s)
    BY DEF Grown, State
  <2> QED
    BY <2>1, <2>2
<1>4. ASSUME NEW d \in Nat, d \in Later PROVE d + 1 \in Later
  <2> SUFFICES ASSUME i + (d + 1) <= N PROVE Grown(run[i], run[i + (d + 1)])
    OBVIOUS
  <2>1. PICK k \in Nat : k = i + d /\ k + 1 = i + (d + 1) /\ k < N
    OBVIOUS
  <2>2. Grown(run[i], run[k])
    BY <1>4, <2>1
  <2>3. PICK b \in Bit : run[k + 1] = bit_step(run[k], b)
    BY <1>1, <1>2, <2>1, DecodeGoStep
  <2>4. run[i] \in State /\ run[k] \in State /\ run[k + 1] \in State
    BY <1>2, <2>1
  <2>5. Grown(run[k], run[k + 1])
    BY <2>3, <2>4, BitStepGrows
  <2>6. Grown(run[i], run[k + 1])
    BY <2>2, <2>4, <2>5, GrownTransitive
  <2> QED
    BY <2>1, <2>6
<1>5. Nat \subseteq Later
  <2> HIDE DEF Later
  <2> QED
    BY <1>3, <1>4, NatSetInduction
<1>6. PICK d \in Nat : i + d = j
  <2>1. j - i \in Nat /\ i + (j - i) = j
    OBVIOUS
  <2> QED
    BY <2>1
<1>7. Grown(run[i], run[i + d])
  BY <1>1, <1>5, <1>6
<1> QED
  BY <1>2, <1>6, <1>7

(* t is s with w emitted before. *)
Prefixed(s, t, w) ==
    t.live = s.live /\ t.bits = s.bits /\ t.out = w \o s.out

LEMMA AppendIsConcat ==
    ASSUME NEW w \in Seq(Byte), NEW o \in Seq(Byte), NEW y \in Byte
    PROVE  Append(w \o o, y) = w \o Append(o, y)
  OBVIOUS

LEMMA BitStepPrefixed ==
    ASSUME NEW s \in State, NEW t \in State, NEW w \in Seq(Byte), NEW b \in Bit,
           Prefixed(s, t, w)
    PROVE  Prefixed(bit_step(s, b), bit_step(t, b), w)
<1>1. PICK s2 : s2 = bit_step(s, b)
  OBVIOUS
<1>2. PICK t2 : t2 = bit_step(t, b)
  OBVIOUS
<1>3. PICK bits : bits = Append(s.bits, b)
  OBVIOUS
<1>a. bits = Append(t.bits, b) /\ t.live = s.live
  BY <1>3 DEF Prefixed
<1>d. Becomes(s, bits, s2) /\ Becomes(t, bits, t2)
  <2>1. Becomes(s, bits, s2)
    BY <1>1, <1>3, BitStepBecomes
  <2>2. Becomes(t, bits, t2)
    BY <1>2, <1>a, BitStepBecomes
  <2> QED
    BY <2>1, <2>2
<1>4. PICK o \in Seq(Byte) : o = s.out
  BY DEF State
<1>b. t.out = w \o o
  BY <1>4 DEF Prefixed
<1>c. s.live \in BOOLEAN /\ s2.live \in BOOLEAN /\ t2.live \in BOOLEAN
  <2>1. s2 \in State /\ t2 \in State
    BY <1>1, <1>2, BitStepCases
  <2> QED
    BY <2>1 DEF State
<1>5. CASE ~s.live
  <2>1. s2 = s /\ t2 = t
    BY <1>a, <1>d, <1>5 DEF Becomes
  <2> QED
    BY <1>1, <1>2, <2>1
<1>6. CASE s.live /\ bits \notin Codeword
  <2>1. s2.live /\ s2.bits = bits /\ s2.out = o
    BY <1>4, <1>d, <1>6 DEF Becomes
  <2>2. t2.live /\ t2.bits = bits /\ t2.out = w \o o
    BY <1>a, <1>b, <1>d, <1>6 DEF Becomes
  <2> QED
    BY <1>1, <1>2, <1>c, <2>1, <2>2 DEF Prefixed
<1>7. CASE s.live /\ bits = Code[EOS]
  <2>1. ~s2.live /\ s2.bits = <<>> /\ s2.out = o
    BY <1>4, <1>d, <1>7 DEF Becomes
  <2>2. ~t2.live /\ t2.bits = <<>> /\ t2.out = w \o o
    BY <1>a, <1>b, <1>d, <1>7 DEF Becomes
  <2> QED
    BY <1>1, <1>2, <1>c, <2>1, <2>2 DEF Prefixed
<1>8. CASE s.live /\ bits \in Codeword /\ bits # Code[EOS]
  <2>1. PICK y \in Byte : y = lookup_v(bits)
    BY <1>8, LookupFinds
  <2>2. s2.live /\ s2.bits = <<>> /\ s2.out = Append(o, y)
    BY <1>4, <1>d, <1>8, <2>1 DEF Becomes
  <2>3. t2.live /\ t2.bits = <<>> /\ t2.out = Append(w \o o, y)
    BY <1>a, <1>b, <1>d, <1>8, <2>1 DEF Becomes
  <2>4. Append(w \o o, y) = w \o Append(o, y)
    BY AppendIsConcat, SMTT(30)
  <2> QED
    BY <1>1, <1>2, <1>c, <2>1, <2>2, <2>3, <2>4 DEF Prefixed
<1> QED
  BY <1>5, <1>6, <1>7, <1>8

(* A nibble is four bits of the stream at once. *)
LEMMA FourBits ==
    ASSUME NEW bits \in Seq(Bit), NEW k \in Nat, k + 4 <= Len(bits), NEW n,
           \A j \in 0..3 : nibble_bits(n)[j + 1] = bits[k + j + 1]
    PROVE  decode_go(bits)[k + 4] = step(decode_go(bits)[k], n)
<1>1. PICK run : run = decode_go(bits)
  OBVIOUS
<1>2. PICK b : b = nibble_bits(n)
  OBVIOUS
<1>3. ASSUME NEW j \in 0..3 PROVE run[k + j + 1] = bit_step(run[k + j], b[j + 1])
  <2>1. k + j \in Nat /\ k + j < Len(bits)
    OBVIOUS
  <2>2. run[(k + j) + 1] = bit_step(run[k + j], bits[(k + j) + 1])
    BY <1>1, <2>1, DecodeGoStep
  <2> QED
    BY <1>2, <2>2
<1>4. run[k + 1] = bit_step(run[k], b[1])
  <2>1. run[k + 0 + 1] = bit_step(run[k + 0], b[0 + 1])
    BY <1>3
  <2> QED
    BY <2>1
<1>5. run[k + 2] = bit_step(run[k + 1], b[2])
  BY <1>3
<1>6. run[k + 3] = bit_step(run[k + 2], b[3])
  BY <1>3
<1>7. run[k + 4] = bit_step(run[k + 3], b[4])
  BY <1>3
<1>8. step(run[k], n) = bit_step(bit_step(bit_step(bit_step(run[k], b[1]), b[2]), b[3]), b[4])
  BY <1>2 DEF step
<1> QED
  BY <1>1, <1>4, <1>5, <1>6, <1>7, <1>8

LEMMA StepPrefixed ==
    ASSUME NEW s \in State, NEW t \in State, NEW w \in Seq(Byte), Prefixed(s, t, w),
           NEW n, \A j \in 1..4 : nibble_bits(n)[j] \in Bit
    PROVE  Prefixed(step(s, n), step(t, n), w)
<1>1. PICK b1 \in Bit, b2 \in Bit : b1 = nibble_bits(n)[1] /\ b2 = nibble_bits(n)[2]
  OBVIOUS
<1>2. PICK b3 \in Bit, b4 \in Bit : b3 = nibble_bits(n)[3] /\ b4 = nibble_bits(n)[4]
  OBVIOUS
<1>3. PICK s1 \in State, t1 \in State :
         s1 = bit_step(s, b1) /\ t1 = bit_step(t, b1) /\ Prefixed(s1, t1, w)
  BY BitStepCases, BitStepPrefixed
<1>4. PICK s2 \in State, t2 \in State :
         s2 = bit_step(s1, b2) /\ t2 = bit_step(t1, b2) /\ Prefixed(s2, t2, w)
  BY <1>3, BitStepCases, BitStepPrefixed
<1>5. PICK s3 \in State, t3 \in State :
         s3 = bit_step(s2, b3) /\ t3 = bit_step(t2, b3) /\ Prefixed(s3, t3, w)
  BY <1>4, BitStepCases, BitStepPrefixed
<1>6. Prefixed(bit_step(s3, b4), bit_step(t3, b4), w)
  BY <1>5, BitStepPrefixed
<1>7. step(s, n) = bit_step(s3, b4)
  BY <1>1, <1>2, <1>3, <1>4, <1>5 DEF step
<1>8. step(t, n) = bit_step(t3, b4)
  BY <1>1, <1>2, <1>3, <1>4, <1>5 DEF step
<1> QED
  BY <1>6, <1>7, <1>8

--------------------------------------------------------------------------
(* The layout of a message is unique. *)

(* Where the codes of msg end, one after the other. *)
EndsOf(msg, at) ==
    /\ at \in [0..Len(msg) -> Nat] /\ at[0] = 0
    /\ \A k \in 1..Len(msg) : at[k] = at[k - 1] + Len(Code[msg[k]])

LEMMA EndsUnique ==
    ASSUME NEW msg \in Seq(Byte), NEW at, NEW at2, EndsOf(msg, at), EndsOf(msg, at2)
    PROVE  at = at2
<1>1. PICK n \in Nat : n = Len(msg)
  OBVIOUS
<1> DEFINE Same == {k \in Nat : k <= n => at[k] = at2[k]}
<1>2. 0 \in Same
  BY DEF EndsOf
<1>3. ASSUME NEW k \in Nat, k \in Same PROVE k + 1 \in Same
  <2> SUFFICES ASSUME k + 1 <= n PROVE at[k + 1] = at2[k + 1]
    OBVIOUS
  <2>1. k + 1 \in 1..n /\ (k + 1) - 1 = k /\ at[k] = at2[k]
    BY <1>3
  <2>2. at[k + 1] = at[k] + Len(Code[msg[k + 1]])
    BY <1>1, <2>1 DEF EndsOf
  <2>3. at2[k + 1] = at2[k] + Len(Code[msg[k + 1]])
    BY <1>1, <2>1 DEF EndsOf
  <2> QED
    BY <2>1, <2>2, <2>3
<1>4. Nat \subseteq Same
  <2> HIDE DEF Same
  <2> QED
    BY <1>2, <1>3, NatSetInduction
<1>5. \A k \in 0..n : at[k] = at2[k]
  BY <1>4
<1>6. at \in [0..n -> Nat] /\ at2 \in [0..n -> Nat]
  BY <1>1 DEF EndsOf
<1> QED
  BY <1>5, <1>6

LEMMA LaidOutEnds ==
    ASSUME NEW bits, NEW msg, NEW at, LaysOut(bits, msg, at)
    PROVE  EndsOf(msg, at)
  BY DEF LaysOut, EndsOf

(* The length of an encoding, from the end of its last code. *)
LEMMA EncodingLength ==
    ASSUME NEW msg \in Seq(Byte), NEW at, EndsOf(msg, at)
    PROVE  /\ at[Len(msg)] \in Nat
           /\ Len(encode_bits(msg)) = at[Len(msg)]
           /\ Len(Encoding(msg)) = (at[Len(msg)] + 7) \div 8
<1>1. PICK at2 : LaysOut(encode_bits(msg), msg, at2) /\ at2[Len(msg)] = Len(encode_bits(msg))
  BY EncodeLaysOut
<1>2. at = at2
  BY <1>1, LaidOutEnds, EndsUnique
<1>3. PICK e \in Nat : e = at[Len(msg)]
  BY DEF EndsOf
<1>4. PICK r \in Nat : r = Len(Encoding(msg))
  BY EncodingBits
<1>5. 8 * r - e \in 0..7
  BY <1>1, <1>2, <1>3, <1>4, EncodingBits
<1>6. r = (e + 7) \div 8
  BY <1>5
<1> QED
  BY <1>1, <1>2, <1>3, <1>4, <1>6

(* Two bit strings with the same layout agree up to its end. *)
LEMMA LaidOutAgree ==
    ASSUME NEW msg \in Seq(Byte), NEW at, NEW v \in Seq(Bit), NEW w \in Seq(Bit),
           LaysOut(v, msg, at), LaysOut(w, msg, at)
    PROVE  \A i \in 1..at[Len(msg)] : v[i] = w[i]
<1>1. PICK n \in Nat : n = Len(msg)
  OBVIOUS
<1> DEFINE Agrees == {k \in Nat : k <= n => \A i \in 1..at[k] : v[i] = w[i]}
<1>2. 0 \in Agrees
  BY DEF LaysOut
<1>3. ASSUME NEW k \in Nat, k \in Agrees PROVE k + 1 \in Agrees
  <2> SUFFICES ASSUME k + 1 <= n, NEW i \in 1..at[k + 1] PROVE v[i] = w[i]
    OBVIOUS
  <2>1. k + 1 \in 1..Len(msg) /\ (k + 1) - 1 = k /\ k \in 0..Len(msg) /\ k <= n
    BY <1>1
  <2>a. at[k] \in Nat /\ at[k + 1] \in Nat
    <3>1. k + 1 \in 0..Len(msg)
      BY <2>1
    <3> QED
      BY <2>1, <3>1 DEF LaysOut
  <2>2. PICK a \in Nat, b \in Nat : a = at[k] /\ b = at[k + 1]
    BY <2>a
  <2>3. PICK code \in Seq(Bit) : code = Code[msg[k + 1]]
    <3>1. msg[k + 1] \in Byte
      BY <2>1
    <3> QED
      BY <3>1, ByteIsSymbol, CodeBits
  <2>4. /\ b = a + Len(code)
        /\ \A j \in 1..Len(code) : v[a + j] = code[j]
    BY <2>1, <2>2, <2>3, SMTT(30) DEF LaysOut
  <2>5. \A j \in 1..Len(code) : w[a + j] = code[j]
    BY <2>1, <2>2, <2>3, SMTT(30) DEF LaysOut
  <2>6. PICK c \in Nat : c = Len(code)
    OBVIOUS
  <2>7. CASE i <= a
    BY <1>3, <2>1, <2>2, <2>7
  <2>8. CASE i > a
    <3>1. PICK j \in 1..c : i = a + j
      <4>1. i \in Nat /\ i <= a + c
        BY <2>2, <2>4, <2>6
      <4>2. i - a \in 1..c /\ i = a + (i - a)
        BY <2>8, <4>1
      <4> QED
        BY <4>2
    <3> QED
      BY <2>4, <2>5, <2>6, <3>1
  <2> QED
    BY <2>2, <2>7, <2>8
<1>4. Nat \subseteq Agrees
  <2> HIDE DEF Agrees
  <2> QED
    BY <1>2, <1>3, NatSetInduction
<1> QED
  BY <1>1, <1>4

(* A byte is the sum of its bits. *)
LEMMA ByteFromBits ==
    ASSUME NEW x \in Byte
    PROVE  \E b \in [1..8 -> Int] :
              /\ \A j \in 1..8 : b[j] = (x \div Weight[j]) % 2
              /\ x = 128 * b[1] + 64 * b[2] + 32 * b[3] + 16 * b[4]
                       + 8 * b[5] + 4 * b[6] + 2 * b[7] + b[8]
<1>1. /\ Weight[1] = 128 /\ Weight[2] = 64 /\ Weight[3] = 32 /\ Weight[4] = 16
      /\ Weight[5] = 8 /\ Weight[6] = 4 /\ Weight[7] = 2 /\ Weight[8] = 1
  BY DEF Weight
<1>2. PICK b : b = [j \in 1..8 |-> (x \div Weight[j]) % 2]
  OBVIOUS
<1>3. x \in Int /\ x < 256 /\ x >= 0
  BY DEF Byte
<1>4. /\ b[1] = (x \div 128) % 2 /\ b[2] = (x \div 64) % 2 /\ b[3] = (x \div 32) % 2
      /\ b[4] = (x \div 16) % 2 /\ b[5] = (x \div 8) % 2 /\ b[6] = (x \div 4) % 2
      /\ b[7] = (x \div 2) % 2 /\ b[8] = (x \div 1) % 2
  BY <1>1, <1>2
<1>5. /\ b[1] \in Int /\ b[2] \in Int /\ b[3] \in Int /\ b[4] \in Int
      /\ b[5] \in Int /\ b[6] \in Int /\ b[7] \in Int /\ b[8] \in Int
  BY <1>3, <1>4
<1>6. x \div 64 = 2 * b[1] + b[2]
  BY <1>3, <1>4
<1>7. x \div 32 = 4 * b[1] + 2 * b[2] + b[3]
  BY <1>3, <1>4, <1>5, <1>6
<1>8. x \div 16 = 8 * b[1] + 4 * b[2] + 2 * b[3] + b[4]
  BY <1>3, <1>4, <1>5, <1>7
<1>9. x \div 8 = 16 * b[1] + 8 * b[2] + 4 * b[3] + 2 * b[4] + b[5]
  BY <1>3, <1>4, <1>5, <1>8
<1>10. x \div 4 = 32 * b[1] + 16 * b[2] + 8 * b[3] + 4 * b[4] + 2 * b[5] + b[6]
  BY <1>3, <1>4, <1>5, <1>9
<1>11. x \div 2 = 64 * b[1] + 32 * b[2] + 16 * b[3] + 8 * b[4] + 4 * b[5] + 2 * b[6] + b[7]
  BY <1>3, <1>4, <1>5, <1>10
<1>12. x = 128 * b[1] + 64 * b[2] + 32 * b[3] + 16 * b[4] + 8 * b[5] + 4 * b[6]
             + 2 * b[7] + b[8]
  BY <1>3, <1>4, <1>5, <1>11
<1>13. b \in [1..8 -> Int]
  <2>1. ASSUME NEW j \in 1..8 PROVE b[j] \in Int
    <3>1. j = 1 \/ j = 2 \/ j = 3 \/ j = 4 \/ j = 5 \/ j = 6 \/ j = 7 \/ j = 8
      OBVIOUS
    <3> QED
      BY <1>5, <3>1
  <2>2. b = [j \in 1..8 |-> b[j]]
    BY <1>2
  <2> QED
    BY <2>1, <2>2
<1> QED
  BY <1>2, <1>12, <1>13, ZenonT(30)

LEMMA SameByte ==
    ASSUME NEW x \in Byte, NEW y \in Byte,
           \A j \in 1..8 : (x \div Weight[j]) % 2 = (y \div Weight[j]) % 2
    PROVE  x = y
<1>1. PICK b \in [1..8 -> Int] :
         /\ \A j \in 1..8 : b[j] = (x \div Weight[j]) % 2
         /\ x = 128 * b[1] + 64 * b[2] + 32 * b[3] + 16 * b[4]
                  + 8 * b[5] + 4 * b[6] + 2 * b[7] + b[8]
  BY ByteFromBits
<1>2. PICK c \in [1..8 -> Int] :
         /\ \A j \in 1..8 : c[j] = (y \div Weight[j]) % 2
         /\ y = 128 * c[1] + 64 * c[2] + 32 * c[3] + 16 * c[4]
                  + 8 * c[5] + 4 * c[6] + 2 * c[7] + c[8]
  BY ByteFromBits
<1>3. b = c
  <2>1. ASSUME NEW j \in 1..8 PROVE b[j] = c[j]
    <3>1. (x \div Weight[j]) % 2 = (y \div Weight[j]) % 2
      OBVIOUS
    <3>2. b[j] = (x \div Weight[j]) % 2
      BY <1>1
    <3>3. c[j] = (y \div Weight[j]) % 2
      BY <1>2
    <3> QED
      BY <3>1, <3>2, <3>3
  <2> QED
    BY <2>1
<1> QED
  BY <1>1, <1>2, <1>3

(* Bytes that lay out msg, with valid padding, are its encoding. *)
LEMMA EncodingUnique ==
    ASSUME NEW bytes \in Seq(Byte), NEW msg \in Seq(Byte), NEW at,
           LaysOut(bytes_to_bits(bytes), msg, at),
           PaddedFrom(bytes_to_bits(bytes), at[Len(msg)])
    PROVE  bytes = Encoding(msg)
<1>1. PICK v \in Seq(Bit) : v = bytes_to_bits(bytes) /\ Len(v) = 8 * Len(bytes)
  BY BitsOfBytes
<1>2. PICK enc \in Seq(Byte) : enc = Encoding(msg)
  BY EncodingBits
<1>3. PICK codes \in Seq(Bit) : codes = encode_bits(msg)
  BY EncodingBits
<1>4. PICK e \in Nat : e = at[Len(msg)] /\ Len(codes) = e
  BY <1>3, LaidOutEnds, EncodingLength
<1>5. LaysOut(codes, msg, at)
  <2>1. PICK at2 : LaysOut(codes, msg, at2)
    BY <1>3, EncodeLaysOut
  <2>2. at = at2
    BY <2>1, LaidOutEnds, EndsUnique
  <2> QED
    BY <2>1, <2>2
<1>6. \A i \in 1..e : v[i] = codes[i]
  BY <1>1, <1>4, <1>5, LaidOutAgree
<1>7. PICK n \in Nat, m \in Nat : n = Len(bytes) /\ m = Len(enc)
  OBVIOUS
<1>8. 8 * n - e \in 0..7 /\ \A i \in e + 1..8 * n : v[i] = 1
  BY <1>1, <1>4, <1>7 DEF PaddedFrom
<1>9. /\ 8 * m - e \in 0..7
      /\ \A i \in 1..8 * m : bytes_to_bits(enc)[i] = IF i <= e THEN codes[i] ELSE 1
  BY <1>2, <1>3, <1>4, <1>7, EncodingBits
<1>10. n = m
  BY <1>8, <1>9
<1>11. ASSUME NEW i \in 1..8 * n PROVE v[i] = bytes_to_bits(enc)[i]
  <2>1. CASE i <= e
    <3>1. i \in 1..e
      BY <2>1
    <3> QED
      BY <1>6, <1>9, <1>10, <2>1, <3>1
  <2>2. CASE i > e
    <3>1. i \in e + 1..8 * n /\ ~(i <= e)
      BY <2>2
    <3> QED
      BY <1>8, <1>9, <1>10, <3>1
  <2> QED
    BY <2>1, <2>2
<1>12. ASSUME NEW k \in 1..n PROVE bytes[k] = enc[k]
  <2>a. bytes[k] \in Byte
    BY <1>7
  <2>b. enc[k] \in Byte
    <3>1. k \in 1..Len(enc)
      BY <1>7, <1>10
    <3> QED
      BY <3>1
  <2>1. PICK x \in Byte, y \in Byte : x = bytes[k] /\ y = enc[k]
    BY <2>a, <2>b
  <2>2. ASSUME NEW j \in 1..8 PROVE (x \div Weight[j]) % 2 = (y \div Weight[j]) % 2
    <3>1. PICK i \in 1..8 * n : i = 8 * (k - 1) + j
      OBVIOUS
    <3>2. v[i] = (x \div Weight[j]) % 2
      BY <1>1, <1>7, <2>1, <3>1, BitsOfBytes
    <3>3. bytes_to_bits(enc)[i] = (y \div Weight[j]) % 2
      BY <1>7, <1>10, <2>1, <3>1, BitsOfBytes
    <3> QED
      BY <1>11, <3>2, <3>3
  <2> QED
    BY <2>1, <2>2, SameByte
<1>13. bytes = enc
  <2>1. bytes = [k \in 1..n |-> bytes[k]]
    BY <1>7
  <2>2. enc = [k \in 1..n |-> enc[k]]
    BY <1>7, <1>10
  <2> QED
    BY <1>12, <2>1, <2>2
<1> QED
  BY <1>2, <1>13

--------------------------------------------------------------------------
(* What a live state says of the bits read: the codes of its output, then  *)
(* its partial codeword. *)
ParsedAs(bits, s, k, at) ==
    /\ LaysOut(bits, s.out, at)
    /\ at[Len(s.out)] + Len(s.bits) = k
    /\ \A j \in 1..Len(s.bits) : bits[at[Len(s.out)] + j] = s.bits[j]

LEMMA LayoutEnd ==
    ASSUME NEW bits, NEW msg \in Seq(Byte), NEW at, LaysOut(bits, msg, at)
    PROVE  at[Len(msg)] \in Nat
<1>1. Len(msg) \in 0..Len(msg)
  OBVIOUS
<1> QED
  BY <1>1 DEF LaysOut

Extends(w, b, v) ==
    /\ v \in Seq(Bit) /\ Len(v) = Len(w) + 1 /\ v[Len(w) + 1] = b
    /\ \A j \in 1..Len(w) : v[j] = w[j]

LEMMA AppendedBit ==
    ASSUME NEW w \in Seq(Bit), NEW b \in Bit
    PROVE  Extends(w, b, Append(w, b))
  BY DEF Extends

LEMMA ParsedInside ==
    ASSUME NEW bits \in Seq(Bit), NEW k \in Nat, k < Len(bits), NEW s \in State, NEW t \in State,
           NEW at, ParsedAs(bits, s, k, at), t.out = s.out, t.bits = Append(s.bits, bits[k + 1])
    PROVE  ParsedAs(bits, t, k + 1, at)
<1>1. PICK w \in Seq(Bit) : w = s.bits
  BY DEF State
<1>2. PICK e \in Nat : e = at[Len(s.out)]
  BY LayoutEnd DEF ParsedAs, State
<1>3. PICK n \in Nat : n = Len(w) /\ e + n = k
  BY <1>1, <1>2 DEF ParsedAs
<1>4. PICK b \in Bit : b = bits[k + 1]
  BY DecodeGoStep
<1>5. PICK v \in Seq(Bit) : v = Append(w, b) /\ v = t.bits
  BY <1>1, <1>4, AppendedBit DEF Extends
<1>6. Len(v) = n + 1 /\ (\A j \in 1..n : v[j] = w[j]) /\ v[n + 1] = b
  <2>1. Extends(w, b, v)
    BY <1>5, AppendedBit
  <2> QED
    BY <1>3, <2>1 DEF Extends
<1>7. \A j \in 1..n : bits[e + j] = w[j]
  BY <1>1, <1>2, <1>3 DEF ParsedAs
<1>8. ASSUME NEW j \in 1..n + 1 PROVE bits[e + j] = v[j]
  <2>1. CASE j \in 1..n
    BY <1>6, <1>7, <2>1
  <2>2. CASE j = n + 1
    <3>1. e + j = k + 1
      BY <1>3, <2>2
    <3> QED
      BY <1>4, <1>6, <2>2, <3>1
  <2> QED
    BY <2>1, <2>2
<1>9. e + (n + 1) = k + 1
  BY <1>3
<1>10. LaysOut(bits, t.out, at) /\ at[Len(t.out)] = e
  BY <1>2 DEF ParsedAs
<1> QED
  BY <1>5, <1>6, <1>8, <1>9, <1>10 DEF ParsedAs

LEMMA ParsedSymbol ==
    ASSUME NEW bits \in Seq(Bit), NEW k \in Nat, k < Len(bits), NEW s \in State, NEW t \in State,
           NEW at, ParsedAs(bits, s, k, at), NEW y \in Byte, Code[y] = Append(s.bits, bits[k + 1]),
           t.out = Append(s.out, y), t.bits = <<>>
    PROVE  \E at2 : ParsedAs(bits, t, k + 1, at2)
<1>1. PICK w \in Seq(Bit) : w = s.bits
  BY DEF State
<1>2. PICK o \in Seq(Byte), m \in Nat : o = s.out /\ m = Len(o)
  BY DEF State
<1>3. /\ at \in [0..m -> Nat] /\ at[0] = 0
      /\ \A q \in 1..m :
            /\ at[q] = at[q - 1] + Len(Code[o[q]])
            /\ at[q] <= Len(bits)
            /\ \A j \in 1..Len(Code[o[q]]) : bits[at[q - 1] + j] = Code[o[q]][j]
  BY <1>2 DEF ParsedAs, LaysOut
<1>4. PICK e \in Nat : e = at[m]
  BY <1>3
<1>5. PICK n \in Nat : n = Len(w) /\ e + n = k /\ \A j \in 1..n : bits[e + j] = w[j]
  BY <1>1, <1>2, <1>4 DEF ParsedAs
<1>6. PICK b \in Bit : b = bits[k + 1]
  BY DecodeGoStep
<1>7. PICK v \in Seq(Bit) : v = Append(w, b) /\ v = Code[y]
  BY <1>1, <1>6, AppendedBit DEF Extends
<1>8. Len(v) = n + 1 /\ (\A j \in 1..n : v[j] = w[j]) /\ v[n + 1] = b
  <2>1. Extends(w, b, v)
    BY <1>7, AppendedBit
  <2> QED
    BY <1>5, <2>1 DEF Extends
<1>9. PICK o2 \in Seq(Byte) : o2 = Append(o, y) /\ o2 = t.out
  BY <1>2, Appended
<1>10. Len(o2) = m + 1 /\ (\A q \in 1..m : o2[q] = o[q]) /\ o2[m + 1] = y
  BY <1>2, <1>9, Appended
<1>11. PICK at2 : at2 = [q \in 0..m + 1 |-> IF q = m + 1 THEN k + 1 ELSE at[q]]
  OBVIOUS
<1>12. at2 \in [0..m + 1 -> Nat] /\ at2[m + 1] = k + 1 /\ \A q \in 0..m : at2[q] = at[q]
  BY <1>3, <1>11, SMTT(30)
<1>13. ASSUME NEW q \in 1..m + 1
       PROVE  /\ at2[q] = at2[q - 1] + Len(Code[o2[q]])
              /\ at2[q] <= Len(bits)
              /\ \A j \in 1..Len(Code[o2[q]]) : bits[at2[q - 1] + j] = Code[o2[q]][j]
  <2>1. CASE q \in 1..m
    <3>1. at2[q] = at[q] /\ at2[q - 1] = at[q - 1] /\ o2[q] = o[q]
      BY <1>10, <1>12, <2>1, SMTT(30)
    <3> QED
      BY <1>3, <2>1, <3>1
  <2>2. CASE q = m + 1
    <3>1. at2[q] = k + 1 /\ at2[q - 1] = e /\ Code[o2[q]] = v
      <4>1. q - 1 = m
        BY <2>2
      <4>2. at2[m] = e
        BY <1>4, <1>12
      <4> QED
        BY <1>7, <1>10, <1>12, <2>2, <4>1, <4>2
    <3>2. ASSUME NEW j \in 1..n + 1 PROVE bits[e + j] = v[j]
      <4>1. CASE j \in 1..n
        BY <1>5, <1>8, <4>1
      <4>2. CASE j = n + 1
        <5>1. e + j = k + 1
          BY <1>5, <4>2
        <5> QED
          BY <1>6, <1>8, <4>2, <5>1
      <4> QED
        BY <4>1, <4>2
    <3>3. k + 1 = e + (n + 1) /\ k + 1 <= Len(bits)
      BY <1>5
    <3> QED
      BY <1>8, <3>1, <3>2, <3>3
  <2> QED
    BY <2>1, <2>2
<1>14. at2[0] = 0
  BY <1>3, <1>12
<1>15. LaysOut(bits, o2, at2)
  BY <1>10, <1>12, <1>13, <1>14 DEF LaysOut
<1>16. at2[Len(o2)] + Len(t.bits) = k + 1 /\ Len(t.bits) = 0
  BY <1>10, <1>12
<1>17. ParsedAs(bits, t, k + 1, at2)
  BY <1>9, <1>15, <1>16 DEF ParsedAs
<1> QED
  BY <1>17

LEMMA LiveIsParsed ==
    ASSUME NEW bits \in Seq(Bit), NEW k \in 0..Len(bits), decode_go(bits)[k].live
    PROVE  \E at : ParsedAs(bits, decode_go(bits)[k], k, at)
<1>1. PICK N \in Nat : N = Len(bits)
  OBVIOUS
<1>2. PICK run : run = decode_go(bits) /\ \A q \in 0..N : run[q] \in State
  BY <1>1, DecodeGo
<1> DEFINE Parsed == {q \in Nat : q <= N /\ run[q].live => \E at : ParsedAs(bits, run[q], q, at)}
<1>3. 0 \in Parsed
  <2>1. PICK s : s = run[0]
    OBVIOUS
  <2>2. s.out = <<>> /\ s.bits = <<>>
    BY <1>2, <2>1, DecodeGo DEF Live
  <2>3. PICK at \in [0..0 -> Nat] : at[0] = 0
    <3> DEFINE z == [q \in 0..0 |-> 0]
    <3>1. z \in [0..0 -> Nat] /\ z[0] = 0
      OBVIOUS
    <3> HIDE DEF z
    <3> QED
      BY <3>1
  <2>4. LaysOut(bits, <<>>, at)
    BY <2>3 DEF LaysOut
  <2>5. at[Len(s.out)] + Len(s.bits) = 0 /\ Len(s.bits) = 0
    BY <2>2, <2>3
  <2>6. ParsedAs(bits, s, 0, at)
    BY <2>2, <2>4, <2>5 DEF ParsedAs
  <2> QED
    BY <2>1, <2>6
<1>4. ASSUME NEW q \in Nat, q \in Parsed PROVE q + 1 \in Parsed
  <2> SUFFICES ASSUME q + 1 <= N, run[q + 1].live
               PROVE  \E at : ParsedAs(bits, run[q + 1], q + 1, at)
    OBVIOUS
  <2>1. PICK s \in State : s = run[q]
    BY <1>2
  <2>2. PICK t \in State : t = run[q + 1] /\ t.live
    BY <1>2
  <2>3. q < Len(bits)
    BY <1>1
  <2>4. PICK b \in Bit : b = bits[q + 1]
    BY <2>3, DecodeGoStep
  <2>5. t = bit_step(s, b)
    BY <1>2, <2>1, <2>2, <2>3, <2>4, DecodeGoStep
  <2>6. PICK v : v = Append(s.bits, b)
    OBVIOUS
  <2>7. Becomes(s, v, t)
    BY <2>5, <2>6, BitStepBecomes
  <2>8. s.live
    BY <2>2, <2>7 DEF Becomes
  <2>9. PICK at : ParsedAs(bits, s, q, at)
    <3>1. q <= N
      OBVIOUS
    <3> QED
      BY <1>4, <2>1, <2>8, <3>1
  <2>10. CASE v \notin Codeword
    <3>1. t.bits = v /\ t.out = s.out
      BY <2>7, <2>8, <2>10 DEF Becomes
    <3>2. ParsedAs(bits, t, q + 1, at)
      BY <2>3, <2>4, <2>6, <2>9, <3>1, ParsedInside
    <3> QED
      BY <2>2, <3>2
  <2>11. CASE v \in Codeword /\ v # Code[EOS]
    <3>1. PICK y \in Byte : y = lookup_v(v) /\ Code[y] = v
      BY <2>11, LookupFinds
    <3>2. t.bits = <<>> /\ t.out = Append(s.out, y)
      BY <2>7, <2>8, <2>11, <3>1 DEF Becomes
    <3>3. \E at2 : ParsedAs(bits, t, q + 1, at2)
      BY <2>3, <2>4, <2>6, <2>9, <3>1, <3>2, ParsedSymbol
    <3> QED
      BY <2>2, <3>3
  <2>12. v # Code[EOS]
    BY <2>2, <2>7, <2>8 DEF Becomes
  <2> QED
    BY <2>10, <2>11, <2>12
<1>5. Nat \subseteq Parsed
  <2> HIDE DEF Parsed
  <2> QED
    BY <1>3, <1>4, NatSetInduction
<1>6. k \in Nat /\ k <= N
  BY <1>1
<1> QED
  BY <1>2, <1>5, <1>6

(* What the decoder accepts is the encoding of what it returns, bit for    *)
(* bit, which the F* development does not state: no message has a second   *)
(* encoding (EOS inside, padding of eight bits or more, zeros in it) that  *)
(* decode_bits of Spec.Codec.fst accepts.                                  *)
THEOREM EncodeDecode ==
    \A bytes \in Seq(Byte) :
        decode_bits(bytes_to_bits(bytes)).ok =>
            /\ decode_bits(bytes_to_bits(bytes)).out \in Seq(Byte)
            /\ bytes = Encoding(decode_bits(bytes_to_bits(bytes)).out)
<1> SUFFICES ASSUME NEW bytes \in Seq(Byte), decode_bits(bytes_to_bits(bytes)).ok
             PROVE  /\ decode_bits(bytes_to_bits(bytes)).out \in Seq(Byte)
                    /\ bytes = Encoding(decode_bits(bytes_to_bits(bytes)).out)
  OBVIOUS
<1>1. PICK bits \in Seq(Bit) : bits = bytes_to_bits(bytes)
  BY BitsOfBytes
<1>2. PICK n \in Nat : n = Len(bits)
  OBVIOUS
<1>3. PICK s \in State : s = decode_go(bits)[n]
  <2>1. n \in 0..Len(bits)
    BY <1>2
  <2> QED
    BY <2>1, DecodeGo
<1>4. PICK ok : ok = is_accepting(s)
  OBVIOUS
<1>5. decode_bits(bits) = [ok |-> ok, out |-> s.out]
  BY <1>2, <1>3, <1>4 DEF decode_bits
<1>6. is_accepting(s) /\ decode_bits(bits).out = s.out
  BY <1>1, <1>4, <1>5
<1>7. s.live /\ Len(s.bits) <= 7 /\ \A j \in 1..Len(s.bits) : s.bits[j] = 1
  BY <1>6 DEF is_accepting, valid_padding_v
<1>8. PICK at : ParsedAs(bits, s, n, at)
  <2>1. n \in 0..Len(bits)
    BY <1>2
  <2> QED
    BY <1>3, <1>7, <2>1, LiveIsParsed
<1>9. PICK msg \in Seq(Byte) : msg = s.out
  BY DEF State
<1>a. LaysOut(bits, msg, at)
  BY <1>8, <1>9 DEF ParsedAs
<1>10. PICK e \in Nat : e = at[Len(msg)] /\ LaysOut(bits, msg, at)
  BY <1>a, LayoutEnd
<1>11. PICK c \in Nat : c = Len(s.bits) /\ e + c = n /\ c <= 7
  <2>1. Len(s.bits) \in Nat
    BY DEF State
  <2> QED
    BY <1>7, <1>8, <1>9, <1>10, <2>1 DEF ParsedAs
<1>12. ASSUME NEW i \in e + 1..n PROVE bits[i] = 1
  <2>1. PICK j \in 1..c : i = e + j
    <3>1. i - e \in 1..c /\ i = e + (i - e)
      BY <1>11
    <3> QED
      BY <3>1
  <2>2. bits[e + j] = s.bits[j]
    BY <1>8, <1>9, <1>10, <1>11, <2>1 DEF ParsedAs
  <2> QED
    BY <1>7, <1>11, <2>1, <2>2
<1>13. PaddedFrom(bits, e)
  <2>1. n - e \in 0..7
    BY <1>11
  <2> QED
    BY <1>2, <1>12, <2>1 DEF PaddedFrom
<1>14. bytes = Encoding(msg)
  BY <1>1, <1>10, <1>13, EncodingUnique
<1> QED
  BY <1>1, <1>6, <1>9, <1>14
====
