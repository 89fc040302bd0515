---- MODULE EncoderProofs ----
(***************************************************************************)
(* Proofs about encode_len and encode, for every code of at most 30 bits.  *)
(* One invariant, in three parts: the counts (what encode_len added up is  *)
(* where encode is), the stream (drained bytes and residue are the codes   *)
(* read) and the rest of dst, untouched.  The last part shows what the two *)
(* calls promise.                                                          *)
(***************************************************************************)
EXTENDS Encoder, HuffmanSpecProofs

Word == [1..W -> Bit]

Buffer(N) == [0..N -> Byte \cup {Old}]

(* Bit q, from the top, of w's lowest n bits. *)
Window(w, n, q) == w[W - n + q + 1]

LEMMA ByteCode ==
    ASSUME NEW y \in Byte
    PROVE  /\ Code[y] \in Seq(Bit)
           /\ Len(Code[y]) \in Nat /\ Len(Code[y]) <= 30
<1>1. y \in Symbol
  BY DEF Byte, Symbol
<1>2. Code[y] \in Seq(Bit)
  BY <1>1, CodeTyped
<1>3. Len(Code[y]) \in Nat
  BY <1>2
<1>4. Len(Code[y]) <= 30
  BY EncoderBounds
<1> QED
  BY <1>2, <1>3, <1>4

LEMMA ShiftInTyped ==
    ASSUME NEW w \in Word, NEW code \in Seq(Bit), Len(code) <= 30
    PROVE  ShiftIn(w, code) \in Word
<1>a. PICK c \in Nat : c = Len(code)
  OBVIOUS
<1>b. c <= 30
  BY <1>a
<1> DEFINE f(m) == IF m <= W - Len(code) THEN w[m + Len(code)]
                   ELSE code[m - (W - Len(code))]
<1>1. ASSUME NEW m \in 1..W PROVE f(m) \in Bit
  <2>1. CASE m <= W - c
    <3>1. m + c \in 1..W
      BY <1>b, <2>1 DEF W
    <3>2. w[m + c] \in Bit
      BY <3>1 DEF Word
    <3> QED
      BY <1>a, <2>1, <3>2
  <2>2. CASE ~(m <= W - c)
    <3>1. m - (W - c) \in 1..c
      BY <1>b, <2>2 DEF W
    <3>2. code[m - (W - c)] \in Bit
      BY <1>a, <3>1
    <3> QED
      BY <1>a, <2>2, <3>2
  <2> QED
    BY <2>1, <2>2
<1>2. ShiftIn(w, code) = [m \in 1..W |-> f(m)]
  BY DEF ShiftIn
<1> HIDE DEF f
<1> QED
  BY <1>1, <1>2 DEF Word

(* After the shift the window is the old one, then the code. *)
LEMMA ShiftInWindow ==
    ASSUME NEW w \in Word, NEW code \in Seq(Bit), Len(code) <= 30,
           NEW n \in 0..7, NEW n1 \in Nat, n1 = n + Len(code), NEW q \in Nat, q < n1,
           NEW w1, w1 = ShiftIn(w, code)
    PROVE  /\ q < n => Window(w1, n1, q) = Window(w, n, q)
           /\ ~(q < n) => Window(w1, n1, q) = code[q - n + 1]
<1>a. PICK c \in Nat : c = Len(code)
  OBVIOUS
<1>1. c <= 30 /\ q < n + c /\ n1 = n + c
  BY <1>a
<1>2. PICK m \in 1..W : m = W - (n + c) + q + 1
  <2>1. 64 - (n + c) + q + 1 \in 1..64
    BY <1>1
  <2> QED
    BY <2>1 DEF W
<1>3. Window(w1, n + c, q) =
        IF m <= W - c THEN w[m + c] ELSE code[m - (W - c)]
  BY <1>a, <1>2 DEF Window, ShiftIn
<1>4. CASE q < n
  <2>1. m <= W - c /\ m + c = W - n + q + 1
    BY <1>1, <1>2, <1>4 DEF W
  <2> QED
    BY <1>a, <1>3, <1>4, <2>1 DEF Window
<1>5. CASE ~(q < n)
  <2>1. ~(m <= W - c) /\ m - (W - c) = q - n + 1
    BY <1>1, <1>2, <1>5 DEF W
  <2> QED
    BY <1>a, <1>3, <1>5, <2>1
<1> QED
  BY <1>1, <1>4, <1>5

(* A byte taken from a word holds eight of its bits, in order. *)
LEMMA ByteAtBits ==
    ASSUME NEW w \in Word, NEW shift \in 0..56, NEW j \in 1..8
    PROVE  /\ ByteAt(w, shift) \in Byte
           /\ (ByteAt(w, shift) \div Weight[j]) % 2 = w[56 - shift + j]
<1>1. \A l \in 1..8 : w[56 - shift + l] \in Bit
  BY DEF Word, W
<1>2. PICK b1 \in Bit, b2 \in Bit, b3 \in Bit, b4 \in Bit :
         /\ b1 = w[56 - shift + 1] /\ b2 = w[56 - shift + 2]
         /\ b3 = w[56 - shift + 3] /\ b4 = w[56 - shift + 4]
  BY <1>1
<1>3. PICK b5 \in Bit, b6 \in Bit, b7 \in Bit, b8 \in Bit :
         /\ b5 = w[56 - shift + 5] /\ b6 = w[56 - shift + 6]
         /\ b7 = w[56 - shift + 7] /\ b8 = w[56 - shift + 8]
  BY <1>1
<1>4. PICK x : x = ByteAt(w, shift)
  OBVIOUS
<1>5. x = 128 * b1 + 64 * b2 + 32 * b3 + 16 * b4 + 8 * b5 + 4 * b6 + 2 * b7 + b8
  BY <1>2, <1>3, <1>4 DEF ByteAt, W
<1>6. /\ x \in Byte
      /\ (x \div 128) % 2 = b1 /\ (x \div 64) % 2 = b2
      /\ (x \div 32) % 2 = b3 /\ (x \div 16) % 2 = b4
      /\ (x \div 8) % 2 = b5 /\ (x \div 4) % 2 = b6
      /\ (x \div 2) % 2 = b7 /\ (x \div 1) % 2 = b8
  BY <1>5 DEF Bit, Byte
<1>7. (x \div Weight[j]) % 2 = w[56 - shift + j]
  <2>1. CASE j = 1
    BY <1>2, <1>6, <2>1 DEF Weight
  <2>2. CASE j = 2
    BY <1>2, <1>6, <2>2 DEF Weight
  <2>3. CASE j = 3
    BY <1>2, <1>6, <2>3 DEF Weight
  <2>4. CASE j = 4
    BY <1>2, <1>6, <2>4 DEF Weight
  <2>5. CASE j = 5
    BY <1>3, <1>6, <2>5 DEF Weight
  <2>6. CASE j = 6
    BY <1>3, <1>6, <2>6 DEF Weight
  <2>7. CASE j = 7
    BY <1>3, <1>6, <2>7 DEF Weight
  <2>8. CASE j = 8
    BY <1>3, <1>6, <2>8 DEF Weight
  <2> QED
    BY <2>1, <2>2, <2>3, <2>4, <2>5, <2>6, <2>7, <2>8
<1> QED
  BY <1>4, <1>6, <1>7

LEMMA LowBitsTyped ==
    ASSUME NEW w \in Word, NEW n \in 0..7
    PROVE  /\ LowBitsOf(w, n) \in Word
           /\ \A m \in 1..W - n : LowBitsOf(w, n)[m] = 0
           /\ \A m \in W - n + 1..W : LowBitsOf(w, n)[m] = w[m]
  BY DEF LowBitsOf, Word, W, Bit

(* Draining stores bytes in at..at + n \div 8 - 1. *)
LEMMA DrainedCell ==
    ASSUME NEW N \in Nat, NEW buf \in Buffer(N), NEW at \in Nat,
           NEW w \in Word, NEW n \in 0..37, NEW k \in 0..N
    PROVE  k >= at /\ k < at + n \div 8 => Drained(buf, at, w, n)[k] \in Byte
<1> SUFFICES ASSUME k >= at, k < at + n \div 8
             PROVE  Drained(buf, at, w, n)[k] \in Byte
  OBVIOUS
<1>1. PICK shift \in 0..56 : shift = n - 8 * (k - at + 1)
  <2>1. n - 8 * (k - at + 1) \in 0..56
    OBVIOUS
  <2> QED
    BY <2>1
<1>2. k \in at..at + n \div 8 - 1
  OBVIOUS
<1>3. Drained(buf, at, w, n)[k] = ByteAt(w, shift)
  BY <1>1, <1>2 DEF Drained, Buffer
<1>4. 1 \in 1..8
  OBVIOUS
<1> QED
  BY <1>3, <1>4, ByteAtBits, ZenonT(30)

--------------------------------------------------------------------------
(* What encode_len has added up, which is also where encode puts things. *)
Counted ==
    /\ pc = "encode_len" => Len(ends) = i /\ out = 0 /\ nbits = 0
    /\ pc # "encode_len" => Len(ends) = Len(src) /\ elen = (acc + 7) \div 8
    /\ acc = EndOf(Len(ends)) /\ acc <= 30 * Len(ends)
    /\ \A k \in 1..Len(ends) : ends[k] = EndOf(k - 1) + Len(Code[src[k]])
    /\ \A k \in 0..Len(ends) : EndOf(k) <= acc

(* dst is written from its start, byte by byte, and nowhere else. *)
Kept ==
    /\ pc # "done" => /\ \A k \in 0..4 * Len(src) : k >= out => dst[k] = Old
                      /\ \A k \in 0..out - 1 : dst[k] \in Byte
    /\ pc = "done" => \A k \in 0..4 * Len(src) : k >= elen => dst[k] = Old

(* The codes read so far end within what encode has produced. *)
Placed == pc = "encode" => \A k \in 0..i : EndOf(k) <= 8 * out + nbits

IInv == TypeOK /\ Counted /\ Kept /\ Placed /\ EncodedSoFar /\ LengthExact /\ EmitsCodes

LEMMA EndTyped ==
    ASSUME TypeOK, NEW k \in 0..Len(ends)
    PROVE  EndOf(k) \in Nat
<1>1. ends \in Seq(Nat)
  BY DEF TypeOK
<1> QED
  BY <1>1 DEF EndOf

LEMMA InitInv == Init => IInv
<1> SUFFICES ASSUME Init PROVE IInv
  OBVIOUS
<1>1. PICK n \in Nat : n = Len(src) /\ n < MaxLen
  BY EncoderBounds DEF Init
<1>2. TypeOK
  <2>1. src \in Seq(Byte) /\ Len(src) < MaxLen
    BY EncoderBounds DEF Init
  <2>2. dst \in [0..4 * Len(src) -> Byte \cup {Old}]
    BY DEF Init
  <2>3. bits \in [1..W -> Bit] /\ \A m \in 1..W - nbits : bits[m] = 0
    BY DEF Init, Zero, W, Bit
  <2>4. /\ i \in 0..Len(src) /\ acc \in 0..30 * Len(src) /\ elen \in 0..4 * Len(src)
        /\ out \in 0..4 * Len(src) /\ ret \in 0..4 * Len(src) /\ nbits \in 0..7
    BY <1>1 DEF Init
  <2>5. ends \in Seq(Nat) /\ pc \in {"encode_len", "encode", "done"}
    BY DEF Init
  <2> QED
    BY <2>1, <2>2, <2>3, <2>4, <2>5 DEF TypeOK
<1>3. Counted
  BY DEF Init, Counted, EndOf
<1>4. Kept
  BY DEF Init, Kept
<1>5. Placed /\ EncodedSoFar /\ LengthExact /\ EmitsCodes
  BY DEF Init, Placed, EncodedSoFar, LengthExact, EmitsCodes
<1> QED
  BY <1>2, <1>3, <1>4, <1>5 DEF IInv

(* A sum or an index within 32 * MaxLen does not wrap. *)
LEMMA NoWrap ==
    ASSUME NEW n \in Nat, n < MaxLen, NEW x \in Nat, x <= 32 * n + 31
    PROVE  x % U32 = x /\ x % U64 = x
<1>1. x < U32 /\ x < U64 /\ U32 \in Nat /\ U64 \in Nat
  BY EncoderBounds
<1> QED
  BY <1>1

LEMMA SumStep ==
    ASSUME IInv, sum_loop
    PROVE  IInv'
<1>0. TypeOK /\ Counted /\ Kept
  BY DEF IInv
<1>1. PICK n \in Nat : n = Len(src) /\ n < MaxLen /\ i \in 0..n - 1
  BY <1>0 DEF TypeOK, sum_loop
<1>2. PICK y \in Byte : y = src[i + 1]
  BY <1>0, <1>1 DEF TypeOK
<1>3. PICK c \in Nat : c = Len(Code[y]) /\ c <= 30
  BY ByteCode
<1>4. PICK l \in Nat : l = i /\ l < n /\ Len(ends) = l /\ acc \in Nat /\ acc <= 30 * l
  BY <1>0, <1>1 DEF TypeOK, Counted, sum_loop
<1>5. acc' = acc + c
  <2>1. acc + c \in Nat /\ acc + c <= 32 * n + 31
    BY <1>1, <1>3, <1>4
  <2>2. (acc + c) % U64 = acc + c
    BY <1>1, <2>1, NoWrap
  <2> QED
    BY <1>2, <1>3, <2>2 DEF sum_loop
<1>6. acc' \in Nat /\ acc' <= 30 * (l + 1) /\ acc <= acc'
  BY <1>3, <1>4, <1>5
<1>7. /\ ends' = Append(ends, acc') /\ i' = l + 1 /\ ends \in Seq(Nat)
      /\ UNCHANGED <<src, pc, elen, dst, out, nbits, bits, ret>> /\ pc = "encode_len"
  BY <1>0, <1>4 DEF sum_loop, stream, TypeOK
<1>8. TypeOK'
  <2>1. acc' \in 0..30 * n
    BY <1>1, <1>4, <1>6
  <2>2. ends' \in Seq(Nat) /\ i' \in 0..n
    BY <1>1, <1>4, <1>6, <1>7
  <2> QED
    BY <1>0, <1>1, <1>7, <2>1, <2>2 DEF TypeOK
<1>9. /\ Len(ends') = l + 1
      /\ ends'[l + 1] = acc'
      /\ \A k \in 1..l : ends'[k] = ends[k]
  BY <1>4, <1>6, <1>7
<1>10. /\ EndOf(l + 1)' = acc'
       /\ \A k \in 0..l : EndOf(k)' = EndOf(k)
  <2>1. EndOf(l + 1)' = acc'
    BY <1>9 DEF EndOf
  <2>2. ASSUME NEW k \in 0..l PROVE EndOf(k)' = EndOf(k)
    <3>1. k # 0 => k \in 1..l
      OBVIOUS
    <3> QED
      BY <1>9, <3>1 DEF EndOf
  <2> QED
    BY <2>1, <2>2
<1>11. Counted'
  <2>1. ASSUME NEW k \in 1..l + 1
        PROVE  ends'[k] = EndOf(k - 1)' + Len(Code[src'[k]])
    <3>1. CASE k = l + 1
      <4>1. k - 1 = l /\ EndOf(l) = acc /\ EndOf(l)' = EndOf(l)
        BY <1>0, <1>4, <1>10, <3>1 DEF Counted
      <4>2. src'[k] = y
        BY <1>2, <1>4, <1>7, <3>1
      <4> QED
        BY <1>3, <1>5, <1>9, <3>1, <4>1, <4>2
    <3>2. CASE k \in 1..l
      <4>1. k - 1 \in 0..l /\ EndOf(k - 1)' = EndOf(k - 1)
        BY <1>4, <1>10, <3>2
      <4>2. ends[k] = EndOf(k - 1) + Len(Code[src[k]])
        BY <1>0, <1>4, <3>2 DEF Counted
      <4> QED
        BY <1>7, <1>9, <3>2, <4>1, <4>2
    <3> QED
      BY <1>4, <3>1, <3>2
  <2>2. ASSUME NEW k \in 0..l + 1 PROVE EndOf(k)' <= acc'
    <3>1. CASE k = l + 1
      BY <1>6, <1>10, <3>1
    <3>2. CASE k \in 0..l
      <4>1. EndOf(k) <= acc /\ EndOf(k) \in Nat
        BY <1>0, <1>4, <3>2, EndTyped DEF Counted
      <4> QED
        BY <1>4, <1>6, <1>10, <3>2, <4>1
    <3> QED
      BY <1>4, <3>1, <3>2
  <2>3. acc' = EndOf(l + 1)' /\ acc' <= 30 * (l + 1)
    BY <1>6, <1>10
  <2>4. pc' = "encode_len" /\ i' = l + 1 /\ out' = 0 /\ nbits' = 0
    BY <1>0, <1>7 DEF Counted
  <2> QED
    BY <1>9, <2>1, <2>2, <2>3, <2>4 DEF Counted
<1>12. Kept' /\ Placed' /\ EncodedSoFar' /\ LengthExact' /\ EmitsCodes'
  BY <1>0, <1>7 DEF Kept, Placed, EncodedSoFar, LengthExact, EmitsCodes
<1> QED
  BY <1>8, <1>11, <1>12 DEF IInv

LEMMA LenReturn ==
    ASSUME IInv, encode_len
    PROVE  IInv'
<1>0. TypeOK /\ Counted /\ Kept
  BY DEF IInv
<1>1. PICK n \in Nat : n = Len(src) /\ n < MaxLen /\ i = n /\ Len(ends) = n
  BY <1>0 DEF TypeOK, Counted, encode_len
<1>2. acc \in Nat /\ acc <= 30 * n
  BY <1>0, <1>1 DEF TypeOK
<1>3. elen' = (acc + 7) \div 8 /\ elen' \in 0..4 * n
  <2>1. PICK e \in Nat : e = (acc + 7) \div 8
    BY <1>2
  <2>2. e <= 4 * n
    BY <1>2, <2>1
  <2>3. e % U32 = e
    BY <1>1, <2>2, NoWrap
  <2> QED
    BY <2>1, <2>2, <2>3 DEF encode_len
<1>4. /\ i' = 0 /\ pc' = "encode" /\ pc = "encode_len"
      /\ UNCHANGED <<src, acc, ends, dst, out, nbits, bits, ret>>
  BY DEF encode_len, stream
<1>5. TypeOK'
  BY <1>0, <1>1, <1>3, <1>4 DEF TypeOK
<1>6. \A k \in 0..n : EndOf(k)' = EndOf(k)
  BY <1>4 DEF EndOf
<1>7. Counted'
  <2>1. acc' = EndOf(n)' /\ acc' <= 30 * n
    BY <1>0, <1>1, <1>2, <1>4, <1>6 DEF Counted
  <2>2. ASSUME NEW k \in 1..n PROVE ends'[k] = EndOf(k - 1)' + Len(Code[src'[k]])
    <3>1. k - 1 \in 0..n
      BY <1>1
    <3> QED
      BY <1>0, <1>1, <1>4, <1>6, <3>1 DEF Counted
  <2>3. \A k \in 0..n : EndOf(k)' <= acc'
    BY <1>0, <1>1, <1>4, <1>6 DEF Counted
  <2>4. Len(ends') = n /\ Len(src') = n /\ pc' = "encode"
    BY <1>1, <1>4
  <2> QED
    BY <1>3, <1>4, <2>1, <2>2, <2>3, <2>4 DEF Counted
<1>8. Kept'
  BY <1>0, <1>4 DEF Kept
<1>9. EncodedSoFar' /\ Placed'
  BY <1>0, <1>4 DEF EncodedSoFar, Placed, EndOf, Counted
<1>10. LengthExact' /\ EmitsCodes'
  BY <1>4 DEF LengthExact, EmitsCodes
<1> QED
  BY <1>5, <1>7, <1>8, <1>9, <1>10 DEF IInv

--------------------------------------------------------------------------
(* encode_loop: the bits already produced stay, and the code follows them. *)

(* The step in terms of its intermediate values: l symbols read, y next.   *)
LEMMA LoopValues ==
    ASSUME IInv, encode_loop
    PROVE  \E n \in Nat, l \in Nat, y \in Byte, c \in Nat, n1 \in 0..37, w \in Word, o \in Nat :
              /\ n = Len(src) /\ n < MaxLen /\ l = i /\ l < n /\ Len(ends) = n
              /\ y = src[l + 1] /\ c = Len(Code[y]) /\ c <= 30 /\ n1 = nbits + c
              /\ w = ShiftIn(bits, Code[y])
              /\ EndOf(l) = 8 * out + nbits /\ EndOf(l + 1) = 8 * out + n1
              /\ acc \in Nat /\ EndOf(l + 1) <= acc /\ acc <= 30 * n
              /\ o = out + n1 \div 8 /\ 8 * o <= acc
              /\ dst' = Drained(dst, out, w, n1) /\ out' = o
              /\ nbits' = n1 % 8 /\ bits' = LowBitsOf(w, n1 % 8)
              /\ i' = l + 1 /\ pc = "encode"
              /\ UNCHANGED <<src, pc, ret, acc, elen, ends>>
<1>0. TypeOK /\ Counted /\ EncodedSoFar
  BY DEF IInv
<1>1. PICK n \in Nat : n = Len(src) /\ n < MaxLen /\ i \in 0..n - 1 /\ Len(ends) = n
  <2>1. Len(src) \in Nat /\ Len(src) < MaxLen /\ i \in 0..Len(src)
    BY <1>0 DEF TypeOK
  <2>2. i # Len(src) /\ Len(ends) = Len(src)
    BY <1>0 DEF encode_loop, Counted
  <2> QED
    BY <2>1, <2>2
<1>2. PICK l \in Nat : l = i /\ l < n
  BY <1>1
<1>3. PICK y \in Byte : y = src[l + 1]
  BY <1>0, <1>1, <1>2 DEF TypeOK
<1>4. PICK c \in Nat : c = Len(Code[y])
  BY ByteCode
<1>5. c <= 30
  BY <1>4, ByteCode
<1>6. nbits \in 0..7 /\ out \in Nat /\ bits \in Word
  BY <1>0, <1>1 DEF TypeOK, Word
<1>7. PICK n1 \in 0..37 : n1 = nbits + c
  BY <1>5, <1>6
<1>8. PICK w \in Word : w = ShiftIn(bits, Code[y])
  BY <1>4, <1>5, <1>6, ByteCode, ShiftInTyped
<1>9. EndOf(l) = 8 * out + nbits
  BY <1>0, <1>2 DEF EncodedSoFar, encode_loop
<1>10. EndOf(l + 1) = 8 * out + n1
  <2>1. l + 1 \in 1..Len(ends) /\ l + 1 - 1 = l
    BY <1>1, <1>2
  <2>2. ends[l + 1] = EndOf(l) + Len(Code[src[l + 1]])
    BY <1>0, <2>1 DEF Counted
  <2>3. EndOf(l + 1) = ends[l + 1]
    BY <2>1 DEF EndOf
  <2>4. ends[l + 1] = 8 * out + nbits + c
    BY <1>3, <1>4, <1>9, <2>2
  <2> QED
    BY <1>6, <1>7, <2>3, <2>4
<1>11. acc \in Nat /\ EndOf(l + 1) <= acc /\ acc <= 30 * n
  BY <1>0, <1>1, <1>2 DEF TypeOK, Counted
<1>12. PICK o \in Nat : o = out + n1 \div 8
  BY <1>6
<1>13. 8 * o <= acc
  <2>1. 8 * out + n1 <= acc
    BY <1>10, <1>11
  <2> QED
    BY <1>6, <1>11, <1>12, <2>1
<1>14. o % U32 = o
  <2>1. o <= 32 * n + 31
    BY <1>11, <1>13
  <2> QED
    BY <1>1, <2>1, NoWrap
<1>15. /\ dst' = Drained(dst, out, w, n1) /\ out' = o
       /\ nbits' = n1 % 8 /\ bits' = LowBitsOf(w, n1 % 8)
       /\ i' = l + 1 /\ pc = "encode"
       /\ UNCHANGED <<src, pc, ret, acc, elen, ends>>
  BY <1>2, <1>3, <1>4, <1>7, <1>8, <1>12, <1>14 DEF encode_loop, lengths
<1> QED
  BY <1>1, <1>2, <1>3, <1>4, <1>5, <1>7, <1>8, <1>9, <1>10, <1>11, <1>12, <1>13, <1>15

(* What StreamBit becomes: what was drained stays, and the rest is the     *)
(* shifted word's window.                                                  *)
LEMMA StreamAfter ==
    ASSUME TypeOK, NEW n1 \in 0..37, NEW w \in Word,
           out + n1 \div 8 <= 4 * Len(src) + 1,
           dst' = Drained(dst, out, w, n1), out' = out + n1 \div 8,
           nbits' = n1 % 8, bits' = LowBitsOf(w, n1 % 8), NEW p \in Nat
    PROVE  /\ p < 8 * out => (StreamBit(p) = (dst[p \div 8] \div Weight[(p % 8) + 1]) % 2
                              /\ StreamBit(p)' = StreamBit(p))
           /\ p >= 8 * out /\ p < 8 * out + n1 => StreamBit(p)' = Window(w, n1, p - 8 * out)
<1>a. out \in Nat /\ Len(src) \in Nat
  BY DEF TypeOK
<1>1. PICK o \in Nat, len \in Nat : o = out /\ len = Len(src) /\ o + n1 \div 8 <= 4 * len + 1
  BY <1>a
<1>2. DOMAIN dst = 0..4 * len
  BY <1>1 DEF TypeOK
<1>3. PICK k \in Nat, r \in 0..7 : k = p \div 8 /\ r = p % 8 /\ p = 8 * k + r
  OBVIOUS
<1>4. out' = o + n1 \div 8 /\ out' \in Nat
  BY <1>1
<1>5. CASE p < 8 * o
  <2>1. k \notin o..o + n1 \div 8 - 1 /\ k \in 0..4 * len /\ p < 8 * out'
    BY <1>1, <1>3, <1>4, <1>5
  <2>2. dst'[k] = dst[k]
    BY <1>1, <1>2, <2>1 DEF Drained
  <2> QED
    BY <1>1, <1>3, <1>5, <2>1, <2>2 DEF StreamBit
<1>6. CASE p >= 8 * o /\ p < 8 * o + n1 /\ k < o + n1 \div 8
  <2>1. k \in o..o + n1 \div 8 - 1 /\ k \in 0..4 * len /\ p < 8 * out'
    BY <1>1, <1>3, <1>4, <1>6
  <2>2. PICK shift \in 0..56 : shift = n1 - 8 * (k - o + 1)
    <3>1. n1 - 8 * (k - o + 1) \in 0..56
      BY <2>1
    <3> QED
      BY <3>1
  <2>3. PICK j \in 1..8 : j = r + 1
    OBVIOUS
  <2>4. dst'[k] = ByteAt(w, shift)
    BY <1>1, <1>2, <2>1, <2>2 DEF Drained
  <2>5. StreamBit(p)' = (ByteAt(w, shift) \div Weight[j]) % 2
    BY <1>3, <2>1, <2>3, <2>4 DEF StreamBit
  <2>6. (ByteAt(w, shift) \div Weight[j]) % 2 = w[56 - shift + j]
    BY ByteAtBits
  <2>7. 56 - shift + j = W - n1 + (p - 8 * o) + 1
    BY <1>3, <2>2, <2>3 DEF W
  <2> QED
    BY <1>1, <1>6, <2>5, <2>6, <2>7 DEF Window
<1>7. CASE p >= 8 * o /\ p < 8 * o + n1 /\ ~(k < o + n1 \div 8)
  <2>1. ~(p < 8 * out')
    BY <1>3, <1>4, <1>7
  <2>2. PICK n2 \in 0..7 : n2 = n1 % 8 /\ n1 = 8 * (n1 \div 8) + n2
    OBVIOUS
  <2>3. PICK m \in 64 - n2 + 1..64 : m = 64 - n2 + (p - 8 * out') + 1
    <3>1. p - 8 * out' >= 0 /\ p - 8 * out' < n2
      BY <1>4, <1>7, <2>1, <2>2
    <3>2. PICK d \in 0..n2 - 1 : d = p - 8 * out'
      BY <1>4, <3>1
    <3>3. 64 - n2 + d + 1 \in 64 - n2 + 1..64
      OBVIOUS
    <3> QED
      BY <3>2, <3>3
  <2>4. bits'[m] = w[m]
    BY <2>2, <2>3, LowBitsTyped DEF W
  <2>5. m = 64 - n1 + (p - 8 * o) + 1
    BY <1>4, <2>2, <2>3
  <2>6. StreamBit(p)' = bits'[m]
    BY <2>1, <2>2, <2>3 DEF StreamBit, W
  <2> QED
    BY <1>1, <1>7, <2>4, <2>5, <2>6 DEF Window, W
<1> QED
  BY <1>1, <1>5, <1>6, <1>7

LEMMA WholeAndRest ==
    ASSUME NEW n \in Nat, NEW u \in Nat, NEW o \in Nat, o = u + n \div 8
    PROVE  8 * o + (n % 8) = 8 * u + n
<1>1. PICK d \in Nat, m \in 0..7 : d = n \div 8 /\ m = n % 8 /\ n = 8 * d + m
  OBVIOUS
<1>2. o = u + d
  BY <1>1
<1>3. 8 * o + m = 8 * u + n
  BY <1>1, <1>2
<1> QED
  BY <1>1, <1>3

LEMMA LoopStep ==
    ASSUME IInv, encode_loop
    PROVE  IInv'
<1>0. TypeOK /\ Counted /\ Kept /\ Placed /\ EncodedSoFar
  BY DEF IInv
<1>1. PICK n \in Nat, l \in Nat, y \in Byte, c \in Nat, n1 \in 0..37, w \in Word, o \in Nat :
              /\ n = Len(src) /\ n < MaxLen /\ l = i /\ l < n /\ Len(ends) = n
              /\ y = src[l + 1] /\ c = Len(Code[y]) /\ c <= 30 /\ n1 = nbits + c
              /\ w = ShiftIn(bits, Code[y])
              /\ EndOf(l) = 8 * out + nbits /\ EndOf(l + 1) = 8 * out + n1
              /\ acc \in Nat /\ EndOf(l + 1) <= acc /\ acc <= 30 * n
              /\ o = out + n1 \div 8 /\ 8 * o <= acc
              /\ dst' = Drained(dst, out, w, n1) /\ out' = o
              /\ nbits' = n1 % 8 /\ bits' = LowBitsOf(w, n1 % 8)
              /\ i' = l + 1 /\ pc = "encode"
              /\ UNCHANGED <<src, pc, ret, acc, elen, ends>>
  BY LoopValues
<1>2. PICK u \in Nat, b \in 0..7 : u = out /\ b = nbits
  <2>1. out \in 0..4 * Len(src) /\ nbits \in 0..7
    BY <1>0 DEF TypeOK
  <2>2. out \in Nat
    BY <2>1
  <2> QED
    BY <2>1, <2>2
<1>3. n1 = b + c /\ o = u + n1 \div 8 /\ o <= 4 * n
  <2>1. n1 = b + c /\ o = u + n1 \div 8
    BY <1>1, <1>2
  <2>2. 8 * o <= 30 * n
    BY <1>1
  <2> QED
    BY <2>1, <2>2
<1>4. 8 * out' + nbits' = 8 * u + n1
  <2>0. o = u + n1 \div 8 /\ n1 \in Nat
    BY <1>3
  <2>1. 8 * o + (n1 % 8) = 8 * u + n1
    BY <2>0, WholeAndRest
  <2>2. out' = o /\ nbits' = n1 % 8
    BY <1>1
  <2> QED
    BY <2>1, <2>2
<1>5. dst \in [0..4 * n -> Byte \cup {Old}] /\ bits \in Word
  BY <1>0, <1>1 DEF TypeOK, Word
<1>6. /\ dst' \in [0..4 * n -> Byte \cup {Old}]
      /\ \A k \in 0..4 * n : IF k >= u /\ k < o THEN dst'[k] \in Byte ELSE dst'[k] = dst[k]
  <2>1. PICK N \in Nat : N = 4 * n
    OBVIOUS
  <2>2. dst \in Buffer(N)
    BY <1>5, <2>1 DEF Buffer
  <2>3. dst' = Drained(dst, u, w, n1)
    BY <1>1, <1>2
  <2>4. ASSUME NEW k \in 0..N
        PROVE  /\ k >= u /\ k < o => dst'[k] \in Byte
               /\ ~(k >= u /\ k < o) => dst'[k] = dst[k]
    <3>1. PICK d : d = Drained(dst, u, w, n1)
      OBVIOUS
    <3>2. k >= u /\ k < u + n1 \div 8 => d[k] \in Byte
      BY <2>2, <3>1, DrainedCell
    <3>3. ~(k >= u /\ k < u + n1 \div 8) => d[k] = dst[k]
      <4>1. ~(k >= u /\ k < u + n1 \div 8) => k \notin u..u + n1 \div 8 - 1
        OBVIOUS
      <4> QED
        BY <2>2, <3>1, <4>1 DEF Drained, Buffer
    <3>4. o = u + n1 \div 8
      BY <1>3
    <3> QED
      BY <2>3, <3>1, <3>2, <3>3, <3>4
  <2>5. DOMAIN dst' = 0..N /\ dst' = [k \in 0..N |-> dst'[k]]
    BY <2>2, <2>3 DEF Drained, Buffer
  <2>6. ASSUME NEW k \in 0..N PROVE dst'[k] \in Byte \cup {Old}
    BY <2>2, <2>4 DEF Buffer
  <2>7. dst' \in [0..N -> Byte \cup {Old}]
    BY <2>5, <2>6
  <2> QED
    BY <2>1, <2>4, <2>7
<1>7. TypeOK'
  <2>1. PICK z \in 0..7 : z = n1 % 8
    OBVIOUS
  <2>2. nbits' = z /\ bits' \in [1..W -> Bit] /\ \A m \in 1..W - z : bits'[m] = 0
    <3>1. nbits' = z /\ bits' = LowBitsOf(w, z)
      BY <1>1, <2>1
    <3> QED
      BY <3>1, LowBitsTyped DEF Word
  <2>3. i' \in 0..n /\ out' \in 0..4 * n
    BY <1>1, <1>3
  <2> QED
    BY <1>0, <1>1, <1>6, <2>2, <2>3 DEF TypeOK
<1>8. ASSUME NEW k \in Nat PROVE EndOf(k)' = EndOf(k)
  BY <1>1 DEF EndOf
<1>9. Counted'
  <2>1. acc' = EndOf(n)' /\ acc' <= 30 * n
    BY <1>0, <1>1, <1>8 DEF Counted
  <2>2. ASSUME NEW k \in 1..n PROVE ends'[k] = EndOf(k - 1)' + Len(Code[src'[k]])
    <3>1. k - 1 \in Nat
      OBVIOUS
    <3> QED
      BY <1>0, <1>1, <1>8, <3>1 DEF Counted
  <2>3. \A k \in 0..n : EndOf(k)' <= acc'
    BY <1>0, <1>1, <1>8 DEF Counted
  <2>4. Len(ends') = n /\ Len(src') = n /\ pc' = "encode" /\ elen' = (acc' + 7) \div 8
    BY <1>0, <1>1 DEF Counted
  <2> QED
    BY <2>1, <2>2, <2>3, <2>4 DEF Counted
<1>10. Kept'
  <2>1. ASSUME NEW k \in 0..4 * n, k >= o PROVE dst'[k] = Old
    <3>1. dst[k] = Old
      <4>1. k >= u /\ ~(k < o)
        BY <1>3, <2>1
      <4> QED
        BY <1>0, <1>1, <1>2, <4>1 DEF Kept
    <3>2. ~(k < o)
      BY <2>1
    <3> QED
      BY <1>6, <3>1, <3>2
  <2>2. ASSUME NEW k \in 0..o - 1 PROVE dst'[k] \in Byte
    <3>1. k \in 0..4 * n
      BY <1>3
    <3>2. CASE k < u
      <4>1. dst[k] \in Byte
        BY <1>0, <1>1, <1>2, <3>2 DEF Kept
      <4> QED
        BY <1>6, <3>1, <3>2, <4>1
    <3>3. CASE k >= u
      BY <1>6, <3>1, <3>3
    <3> QED
      BY <3>2, <3>3
  <2> QED
    BY <1>1, <2>1, <2>2 DEF Kept
<1>11. Placed'
  <2>1. ASSUME NEW k \in 0..l + 1 PROVE EndOf(k)' <= 8 * u + n1
    <3>1. CASE k = l + 1
      <4>1. EndOf(l + 1) = 8 * u + n1 /\ l + 1 \in Nat
        <5>1. EndOf(l + 1) = 8 * out + n1
          BY <1>1, Zenon
        <5>2. u = out
          BY <1>2, Zenon
        <5>3. l + 1 \in Nat
          OBVIOUS
        <5> QED
          BY <5>1, <5>2, <5>3, Zenon
      <4>2. EndOf(l + 1)' = 8 * u + n1
        BY <1>8, <4>1
      <4> QED
        BY <3>1, <4>2
    <3>2. CASE k \in 0..l
      <4>1. EndOf(k) <= 8 * u + b /\ EndOf(k) \in Nat
        BY <1>0, <1>1, <1>2, <3>2, EndTyped DEF Placed
      <4>2. EndOf(k) <= 8 * u + n1
        BY <1>3, <4>1
      <4> QED
        BY <1>8, <4>2
    <3> QED
      BY <3>1, <3>2
  <2> QED
    BY <1>1, <1>4, <2>1 DEF Placed
<1>12. ASSUME NEW p \in Nat, NEW q \in Nat, p = 8 * u + q, q < n1
       PROVE  StreamBit(p)' = IF q < b THEN StreamBit(p) ELSE Code[y][q - b + 1]
  <2>1. out + n1 \div 8 <= 4 * Len(src) + 1
    BY <1>1, <1>3
  <2>2. p >= 8 * out /\ p < 8 * out + n1 /\ p - 8 * out = q
    BY <1>2, <1>12
  <2>3. StreamBit(p)' = Window(w, n1, q)
    BY <1>0, <1>1, <2>1, <2>2, StreamAfter, ZenonT(30)
  <2>4. Code[y] \in Seq(Bit) /\ Len(Code[y]) <= 30
    BY ByteCode
  <2>5. Window(w, n1, q) = IF q < b THEN Window(bits, b, q) ELSE Code[y][q - b + 1]
    <3>0. bits \in Word
      BY <1>5
    <3>1. n1 = b + Len(Code[y])
      BY <1>1, <1>3
    <3>2. q < n1 /\ n1 \in Nat
      BY <1>12
    <3>3. PICK code : code = Code[y]
      OBVIOUS
    <3>4. code \in Seq(Bit) /\ Len(code) <= 30 /\ n1 = b + Len(code)
      BY <2>4, <3>1, <3>3
    <3>5. w = ShiftIn(bits, code)
      BY <1>1, <3>3
    <3>6. PICK x : x = Window(bits, b, q)
      OBVIOUS
    <3>7. q < b => Window(w, n1, q) = x
      BY <3>0, <3>2, <3>4, <3>5, <3>6, ShiftInWindow, SMTT(30)
    <3>8. ~(q < b) => Window(w, n1, q) = code[q - b + 1]
      BY <3>0, <3>2, <3>4, <3>5, <3>6, ShiftInWindow
    <3> QED
      BY <3>3, <3>6, <3>7, <3>8
  <2>6. StreamBit(p) = Window(bits, b, q)
    BY <1>2, <2>2 DEF StreamBit, Window
  <2> QED
    BY <2>3, <2>5, <2>6
<1>13. ASSUME NEW p \in Nat, p < 8 * u PROVE StreamBit(p)' = StreamBit(p)
  <2>1. out + n1 \div 8 <= 4 * Len(src) + 1
    BY <1>1, <1>3
  <2> QED
    BY <1>0, <1>1, <1>2, <1>13, <2>1, StreamAfter
<1>14. EncodedSoFar'
  <2>1. ASSUME NEW k \in 1..l, NEW j \in 1..Len(Code[src[k]])
        PROVE  StreamBit(EndOf(k - 1) + j - 1)' = Code[src[k]][j]
    <3>1. PICK e \in Nat, d \in Nat : e = EndOf(k - 1) /\ d = Len(Code[src[k]])
      <4>1. k \in 1..n /\ k - 1 \in 0..n
        BY <1>1, SMTT(30)
      <4>2. src \in Seq(Byte) /\ n = Len(src)
        BY <1>0, <1>1 DEF TypeOK
      <4>3. src[k] \in Byte
        BY <4>1, <4>2
      <4>4. Len(Code[src[k]]) \in Nat
        BY <4>3, ByteCode
      <4>5. EndOf(k - 1) \in Nat
        BY <1>0, <1>1, <4>1, EndTyped
      <4> QED
        BY <4>4, <4>5
    <3>2. e + d <= 8 * u + b
      <4>1. ends[k] = e + d
        <5>1. k \in 1..Len(ends)
          BY <1>1
        <5>2. ends[k] = EndOf(k - 1) + Len(Code[src[k]])
          BY <1>0, <5>1 DEF Counted
        <5> QED
          BY <3>1, <5>2
      <4>2. EndOf(k) = ends[k]
        BY DEF EndOf
      <4>3. EndOf(k) <= 8 * out + nbits
        BY <1>0, <1>1 DEF Placed
      <4> QED
        BY <1>2, <4>1, <4>2, <4>3
    <3>3. PICK p \in Nat : p = e + j - 1 /\ p < 8 * u + b
      BY <3>1, <3>2
    <3>4. StreamBit(p) = Code[src[k]][j]
      BY <1>0, <1>1, <3>1, <3>3 DEF EncodedSoFar
    <3>5. StreamBit(p)' = StreamBit(p)
      <4>1. CASE p < 8 * u
        BY <1>13, <4>1
      <4>2. CASE p >= 8 * u
        <5>1. PICK q \in Nat : p = 8 * u + q /\ q < b
          BY <3>3, <4>2
        <5>2. q < n1
          BY <1>3, <5>1
        <5> QED
          BY <1>12, <5>1, <5>2
      <4> QED
        BY <4>1, <4>2
    <3>6. EndOf(k - 1)' = e
      BY <1>8, <3>1
    <3> QED
      BY <3>3, <3>4, <3>5, <3>6
  <2>2. ASSUME NEW j \in 1..Len(Code[y])
        PROVE  StreamBit(EndOf(l) + j - 1)' = Code[y][j]
    <3>1. PICK q \in Nat : q = b + j - 1 /\ q < n1 /\ ~(q < b) /\ q - b + 1 = j
      <4>1. j <= c /\ j >= 1 /\ j \in Nat
        BY <1>1
      <4> QED
        BY <1>3, <4>1
    <3>2. PICK p \in Nat : p = 8 * u + q
      OBVIOUS
    <3>3. EndOf(l) + j - 1 = p /\ EndOf(l)' = EndOf(l)
      BY <1>1, <1>2, <1>8, <3>1, <3>2
    <3>4. StreamBit(p)' = Code[y][j]
      BY <1>12, <3>1, <3>2
    <3> QED
      BY <3>3, <3>4
  <2>3. ASSUME NEW k \in 1..l + 1, NEW j \in 1..Len(Code[src'[k]])
        PROVE  StreamBit(EndOf(k - 1) + j - 1)' = Code[src'[k]][j]
    <3>1. CASE k = l + 1
      <4>1. src'[k] = y /\ k - 1 = l
        BY <1>1, <3>1
      <4> QED
        BY <2>2, <4>1
    <3>2. CASE k \in 1..l
      BY <1>1, <2>1, <3>2
    <3> QED
      BY <3>1, <3>2
  <2>4. 8 * out' + nbits' = EndOf(l + 1)'
    <3>0. l + 1 \in Nat
      OBVIOUS
    <3>1. EndOf(l + 1) = 8 * u + n1
      BY <1>1, <1>2
    <3>2. EndOf(l + 1)' = 8 * u + n1
      BY <1>8, <3>0, <3>1
    <3> QED
      BY <1>4, <3>2
  <2> QED
    BY <1>1, <2>3, <2>4 DEF EncodedSoFar
<1>15. LengthExact' /\ EmitsCodes'
  BY <1>1 DEF LengthExact, EmitsCodes
<1> QED
  BY <1>7, <1>9, <1>10, <1>11, <1>14, <1>15 DEF IInv

--------------------------------------------------------------------------
(* Bit p of the bytes in dst. *)
CellBit(p) == (dst[p \div 8] \div Weight[(p % 8) + 1]) % 2

LEMMA EncodedBit ==
    ASSUME NEW p \in Nat, ret' \in Nat, p < 8 * ret'
    PROVE  bit_at(encoded', p) = CellBit(p)'
<1>1. PICK r \in Nat : r = ret'
  OBVIOUS
<1>2. PICK k \in Nat, m \in 0..7 : k = p \div 8 /\ p = 8 * k + m
  OBVIOUS
<1>3. p < 8 * r
  BY <1>1
<1>4. k + 1 \in 1..r /\ k + 1 - 1 = k
  BY <1>2, <1>3
<1>5. encoded'[k + 1] = dst'[k]
  BY <1>1, <1>4 DEF encoded
<1> QED
  BY <1>2, <1>5 DEF bit_at, CellBit

(* When encode returns: the bits of the stream, then ones. *)
LEMMA EmitsAtReturn ==
    ASSUME TypeOK, Counted, EncodedSoFar, pc = "encode", i = Len(src),
           UNCHANGED <<src, ends>>, ret' \in Nat,
           8 * ret' - EndOf(i) \in 0..7,
           \A k \in 0..ret' - 1 : dst'[k] \in Byte,
           \A p \in Nat : p < EndOf(i) => CellBit(p)' = StreamBit(p),
           \A p \in Nat : EndOf(i) <= p /\ p < 8 * ret' => CellBit(p)' = 1
    PROVE  EmitsCodes'
<1>1. PICK n \in Nat : n = Len(src) /\ i = n /\ Len(ends) = n /\ src \in Seq(Byte)
  BY SMTT(30) DEF TypeOK, Counted
<1>2. PICK r \in Nat, e \in Nat : r = ret' /\ e = EndOf(n) /\ 8 * r - e \in 0..7
  <2>1. EndOf(n) \in Nat
    BY <1>1, EndTyped
  <2> QED
    BY <1>1, <2>1
<1>3. ASSUME NEW k \in Nat PROVE EndOf(k)' = EndOf(k)
  BY DEF EndOf
<1>4. encoded' \in Seq(Byte)
  <2>1. ASSUME NEW k \in 1..r PROVE dst'[k - 1] \in Byte
    <3>1. k - 1 \in 0..r - 1
      OBVIOUS
    <3> QED
      BY <1>2, <3>1
  <2>2. encoded' = [k \in 1..r |-> dst'[k - 1]]
    BY <1>2 DEF encoded
  <2> QED
    BY <2>1, <2>2
<1>5. ASSUME NEW p \in Nat, p < 8 * r PROVE bit_at(encoded', p) = CellBit(p)'
  BY <1>2, <1>5, EncodedBit
<1>6. ASSUME NEW p \in e..8 * r - 1 PROVE bit_at(encoded', p) = 1
  <2>1. p \in Nat /\ p < 8 * r /\ e <= p
    OBVIOUS
  <2> QED
    BY <1>1, <1>2, <1>5, <2>1
<1>7. ASSUME NEW k \in 1..n
      PROVE  /\ ends'[k] = EndOf(k - 1)' + Len(Code[src'[k]])
             /\ ends'[k] <= 8 * r
             /\ \A j \in 1..Len(Code[src'[k]]) :
                   bit_at(encoded', EndOf(k - 1)' + j - 1) = Code[src'[k]][j]
  <2>1. PICK a \in Nat, d \in Nat : a = EndOf(k - 1) /\ d = Len(Code[src[k]])
    <3>1. EndOf(k - 1) \in Nat
      BY <1>1, EndTyped
    <3>2. src[k] \in Byte
      BY <1>1
    <3>3. Len(Code[src[k]]) \in Nat
      BY <3>2, ByteCode
    <3> QED
      BY <3>1, <3>3
  <2>2. ends[k] = EndOf(k - 1) + Len(Code[src[k]])
    BY <1>1 DEF Counted
  <2>3. EndOf(k - 1)' = a
    <3>1. k - 1 \in Nat
      OBVIOUS
    <3> QED
      BY <1>3, <2>1, <3>1
  <2>4. a + d <= e
    <3>1. EndOf(k) <= EndOf(n)
      <4>1. k \in 0..n /\ n \in 0..n
        OBVIOUS
      <4> QED
        BY <1>1, <4>1 DEF Counted
    <3>2. EndOf(k) = a + d
      BY <2>1, <2>2 DEF EndOf
    <3> QED
      BY <1>2, <3>1, <3>2
  <2>5. ASSUME NEW j \in 1..d PROVE bit_at(encoded', a + j - 1) = Code[src[k]][j]
    <3>a. e <= 8 * r
      BY <1>2
    <3>b. a + j - 1 \in Nat /\ a + j - 1 < e
      BY <2>4
    <3>1. PICK p \in Nat : p = a + j - 1 /\ p < e /\ p < 8 * r
      BY <3>a, <3>b
    <3>2. bit_at(encoded', p) = StreamBit(p)
      BY <1>1, <1>2, <1>5, <3>1
    <3>3. StreamBit(EndOf(k - 1) + j - 1) = Code[src[k]][j]
      BY <1>1, <2>1 DEF EncodedSoFar
    <3> QED
      BY <2>1, <3>1, <3>2, <3>3
  <2>6. ends'[k] = a + d /\ a + d <= 8 * r
    <3>1. e <= 8 * r
      BY <1>2
    <3>2. a + d <= 8 * r
      BY <2>4, <3>1
    <3> QED
      BY <2>1, <2>2, <3>2
  <2>7. src' = src
    OBVIOUS
  <2> QED
    BY <2>1, <2>3, <2>5, <2>6, <2>7
<1>8. Len(src') = n /\ EndOf(n)' = e /\ ret' = r
  BY <1>1, <1>2, <1>3
<1>9. 8 * ret' - EndOf(n)' \in 0..7
  BY <1>2, <1>8
<1> QED
  BY <1>4, <1>6, <1>7, <1>8, <1>9 DEF EmitsCodes

LEMMA PadOnesByte ==
    ASSUME TypeOK, nbits > 0
    PROVE  /\ PadOnes \in Byte
           /\ \A j \in 1..8 : (PadOnes \div Weight[j]) % 2 =
                              IF j <= nbits THEN Window(bits, nbits, j - 1) ELSE 1
<1>1. PICK b \in 1..7 : b = nbits
  BY DEF TypeOK
<1>2. bits \in Word
  BY DEF TypeOK, Word
<1>3. PICK pad : pad = [m \in 1..8 - b |-> 1]
  OBVIOUS
<1>4. pad \in Seq(Bit) /\ Len(pad) = 8 - b
  <2>1. 8 - b \in Nat
    OBVIOUS
  <2> QED
    BY <1>3, <2>1 DEF Bit
<1>5. PICK c \in Nat : c = 8 - b
  OBVIOUS
<1>6. Len(pad) = c /\ c <= 30 /\ Len(pad) <= 30
  BY <1>4, <1>5
<1>7. PICK x \in Word : x = ShiftIn(bits, pad)
  BY <1>2, <1>4, <1>6, ShiftInTyped
<1>8. PadOnes = ByteAt(x, 0)
  BY <1>1, <1>3, <1>7 DEF PadOnes
<1>9. PadOnes \in Byte
  <2>1. 1 \in 1..8 /\ 0 \in 0..56
    OBVIOUS
  <2> QED
    BY <1>8, <2>1, ByteAtBits
<1>10. ASSUME NEW j \in 1..8
       PROVE  (PadOnes \div Weight[j]) % 2 =
                IF j <= nbits THEN Window(bits, nbits, j - 1) ELSE 1
  <2>1. PICK q \in Nat : q = j - 1 /\ q < 8
    OBVIOUS
  <2>2. (PadOnes \div Weight[j]) % 2 = x[56 + j]
    <3>1. 0 \in 0..56 /\ 56 - 0 + j = 56 + j
      OBVIOUS
    <3> QED
      BY <1>8, <3>1, ByteAtBits
  <2>3. x[56 + j] = Window(x, 8, q)
    <3>1. 56 + j = W - 8 + q + 1
      BY <2>1 DEF W
    <3> QED
      BY <3>1 DEF Window
  <2>4. PICK e : e = Window(bits, b, q)
    OBVIOUS
  <2>5. 8 = b + Len(pad) /\ b \in 0..7
    BY <1>4
  <2>6. q < b => Window(x, 8, q) = e
    BY <1>2, <1>4, <1>6, <1>7, <2>1, <2>4, <2>5, ShiftInWindow
  <2>7. ~(q < b) => Window(x, 8, q) = pad[q - b + 1]
    BY <1>2, <1>4, <1>6, <1>7, <2>1, <2>4, <2>5, ShiftInWindow, SMTT(30)
  <2>8. ~(q < b) => pad[q - b + 1] = 1
    <3>1. ~(q < b) => q - b + 1 \in 1..8 - b
      BY <2>1
    <3> QED
      BY <1>3, <3>1
  <2>9. j <= b <=> q < b
    BY <2>1
  <2> QED
    BY <1>1, <2>1, <2>2, <2>3, <2>4, <2>6, <2>7, <2>8, <2>9
<1> QED
  BY <1>9, <1>10

(* The values encode ends with. *)
LEMMA AtEnd ==
    ASSUME IInv, pc = "encode", i = Len(src)
    PROVE  \E n \in Nat, u \in Nat, b \in 0..7 :
              /\ n = Len(src) /\ n < MaxLen /\ i = n /\ Len(ends) = n
              /\ u = out /\ b = nbits /\ EndOf(n) = 8 * u + b /\ acc = 8 * u + b
              /\ 8 * u + b <= 30 * n /\ elen = (acc + 7) \div 8
<1>0. TypeOK /\ Counted /\ EncodedSoFar
  BY DEF IInv
<1>1. PICK n \in Nat : n = Len(src) /\ n < MaxLen /\ i = n /\ Len(ends) = n
  BY <1>0 DEF TypeOK, Counted
<1>2. PICK u \in Nat, b \in 0..7 : u = out /\ b = nbits
  <2>1. out \in 0..4 * Len(src) /\ nbits \in 0..7
    BY <1>0 DEF TypeOK
  <2>2. out \in Nat
    BY <2>1
  <2> QED
    BY <2>1, <2>2
<1>3. EndOf(n) = 8 * u + b /\ acc = 8 * u + b
  BY <1>0, <1>1, <1>2 DEF EncodedSoFar, Counted
<1>4. acc <= 30 * n /\ elen = (acc + 7) \div 8
  BY <1>0, <1>1 DEF Counted
<1> QED
  BY <1>1, <1>2, <1>3, <1>4

LEMMA PaddedStep ==
    ASSUME IInv, encode_padded
    PROVE  IInv'
<1>0. TypeOK /\ Counted /\ Kept /\ EncodedSoFar
  BY DEF IInv
<1>1. PICK n \in Nat, u \in Nat, b \in 0..7 :
         /\ n = Len(src) /\ n < MaxLen /\ i = n /\ Len(ends) = n
         /\ u = out /\ b = nbits /\ EndOf(n) = 8 * u + b /\ acc = 8 * u + b
         /\ 8 * u + b <= 30 * n /\ elen = (acc + 7) \div 8
  BY AtEnd DEF encode_padded
<1>2. b \in 1..7
  BY <1>1 DEF encode_padded, Pads
<1>3. u + 1 \in 0..4 * n
  <2>1. 8 * u < 30 * n
    BY <1>1, <1>2
  <2> QED
    BY <2>1
<1>4. (u + 1) % U32 = u + 1
  <2>1. u + 1 <= 32 * n + 31
    BY <1>3
  <2> QED
    BY <1>1, <2>1, NoWrap
<1>5. elen = u + 1
  <2>1. (8 * u + b + 7) \div 8 = u + 1
    BY <1>2
  <2> QED
    BY <1>1, <2>1
<1>6. /\ dst' = [dst EXCEPT ![u] = PadOnes] /\ ret' = u + 1
      /\ pc' = "done" /\ pc = "encode"
      /\ UNCHANGED <<src, i, out, nbits, bits, acc, elen, ends>>
  BY <1>1, <1>4 DEF encode_padded, lengths
<1>7. /\ PadOnes \in Byte
      /\ \A j \in 1..8 : (PadOnes \div Weight[j]) % 2 =
                         IF j <= b THEN Window(bits, b, j - 1) ELSE 1
  <2>1. nbits > 0
    BY <1>1, <1>2
  <2> QED
    BY <1>0, <1>1, <2>1, PadOnesByte
<1>8. u \in 0..4 * n /\ dst \in [0..4 * n -> Byte \cup {Old}]
  BY <1>0, <1>1, <1>3 DEF TypeOK
<1>9. /\ dst' \in [0..4 * n -> Byte \cup {Old}] /\ dst'[u] = PadOnes
      /\ \A k \in 0..4 * n : k # u => dst'[k] = dst[k]
  BY <1>6, <1>7, <1>8
<1>10. TypeOK'
  BY <1>0, <1>1, <1>3, <1>6, <1>9 DEF TypeOK
<1>11. Counted'
  BY <1>0, <1>6 DEF Counted, EndOf
<1>12. Kept'
  <2>1. ASSUME NEW k \in 0..4 * n, k >= u + 1 PROVE dst'[k] = Old
    <3>1. k >= u /\ k # u
      BY <2>1
    <3>2. dst[k] = Old
      BY <1>0, <1>1, <1>6, <3>1 DEF Kept
    <3> QED
      BY <1>9, <3>1, <3>2
  <2> QED
    BY <1>1, <1>5, <1>6, <2>1 DEF Kept
<1>13. EmitsCodes'
  <2>1. 8 * (u + 1) - (8 * u + b) \in 0..7
    BY <1>2
  <2>2. ret' \in Nat /\ 8 * ret' - EndOf(i) \in 0..7
    BY <1>1, <1>6, <2>1
  <2>3. ASSUME NEW k \in 0..u PROVE dst'[k] \in Byte
    <3>1. CASE k = u
      BY <1>7, <1>9, <3>1
    <3>2. CASE k # u
      <4>1. k \in 0..u - 1 /\ k \in 0..4 * n
        BY <1>8, <3>2
      <4>2. dst[k] \in Byte
        BY <1>0, <1>1, <1>6, <4>1 DEF Kept
      <4> QED
        BY <1>9, <3>2, <4>1, <4>2
    <3> QED
      BY <3>1, <3>2
  <2>4. \A k \in 0..ret' - 1 : dst'[k] \in Byte
    <3>1. u + 1 - 1 = u
      OBVIOUS
    <3> QED
      BY <1>6, <2>3, <3>1
  <2>5. ASSUME NEW p \in Nat, p < 8 * u PROVE CellBit(p)' = StreamBit(p)
    <3>1. PICK k \in Nat, m \in 0..7 : k = p \div 8 /\ p = 8 * k + m
      OBVIOUS
    <3>2. k \in 0..4 * n /\ k # u
      BY <1>8, <2>5, <3>1
    <3>3. dst'[k] = dst[k]
      BY <1>9, <3>2
    <3> QED
      BY <1>1, <2>5, <3>1, <3>3 DEF CellBit, StreamBit
  <2>6. ASSUME NEW m \in 0..7, NEW p \in Nat, p = 8 * u + m
        PROVE  CellBit(p)' = IF m < b THEN StreamBit(p) ELSE 1
    <3>1. p \div 8 = u /\ p % 8 = m /\ ~(p < 8 * u) /\ p - 8 * u = m
      BY <2>6
    <3>2. PICK j \in 1..8 : j = m + 1
      OBVIOUS
    <3>3. CellBit(p)' = (PadOnes \div Weight[j]) % 2
      BY <1>9, <3>1, <3>2 DEF CellBit
    <3>4. StreamBit(p) = Window(bits, b, m)
      BY <1>1, <3>1 DEF StreamBit, Window
    <3>5. j - 1 = m /\ (j <= b <=> m < b)
      BY <3>2
    <3> QED
      BY <1>7, <3>3, <3>4, <3>5
  <2>7. ASSUME NEW p \in Nat, p < 8 * u + b PROVE CellBit(p)' = StreamBit(p)
    <3>1. CASE p < 8 * u
      BY <2>5, <3>1
    <3>2. CASE ~(p < 8 * u)
      <4>1. PICK m \in 0..7 : p = 8 * u + m /\ m < b
        BY <2>7, <3>2
      <4> QED
        BY <2>6, <4>1
    <3> QED
      BY <3>1, <3>2
  <2>8. ASSUME NEW p \in Nat, 8 * u + b <= p, p < 8 * (u + 1) PROVE CellBit(p)' = 1
    <3>1. PICK m \in 0..7 : p = 8 * u + m /\ ~(m < b)
      BY <2>8
    <3> QED
      BY <2>6, <3>1
  <2>9. /\ \A p \in Nat : p < EndOf(i) => CellBit(p)' = StreamBit(p)
        /\ \A p \in Nat : EndOf(i) <= p /\ p < 8 * ret' => CellBit(p)' = 1
    BY <1>1, <1>6, <2>7, <2>8
  <2>10. pc = "encode" /\ i = Len(src) /\ UNCHANGED <<src, ends>>
    BY <1>1, <1>6
  <2> QED
    BY <1>0, <2>2, <2>4, <2>9, <2>10, EmitsAtReturn
<1>14. Placed' /\ EncodedSoFar' /\ LengthExact'
  BY <1>5, <1>6 DEF Placed, EncodedSoFar, LengthExact
<1> QED
  BY <1>10, <1>11, <1>12, <1>13, <1>14 DEF IInv

LEMMA AlignedStep ==
    ASSUME IInv, encode_aligned
    PROVE  IInv'
<1>0. TypeOK /\ Counted /\ Kept /\ EncodedSoFar
  BY DEF IInv
<1>1. PICK n \in Nat, u \in Nat, b \in 0..7 :
         /\ n = Len(src) /\ n < MaxLen /\ i = n /\ Len(ends) = n
         /\ u = out /\ b = nbits /\ EndOf(n) = 8 * u + b /\ acc = 8 * u + b
         /\ 8 * u + b <= 30 * n /\ elen = (acc + 7) \div 8
  BY AtEnd DEF encode_aligned
<1>2. b = 0
  BY <1>1 DEF encode_aligned, Pads
<1>3. elen = u
  <2>1. (8 * u + 0 + 7) \div 8 = u
    OBVIOUS
  <2> QED
    BY <1>1, <1>2, <2>1
<1>4. /\ ret' = u /\ pc' = "done" /\ pc = "encode"
      /\ UNCHANGED <<src, dst, i, out, nbits, bits, acc, elen, ends>>
  BY <1>1 DEF encode_aligned, lengths
<1>5. TypeOK'
  BY <1>0, <1>1, <1>4 DEF TypeOK
<1>6. Counted'
  BY <1>0, <1>4 DEF Counted, EndOf
<1>7. Kept'
  BY <1>0, <1>1, <1>3, <1>4 DEF Kept
<1>8. EmitsCodes'
  <2>1. EndOf(n) = 8 * u
    BY <1>1, <1>2
  <2>2. ret' \in Nat /\ 8 * ret' - EndOf(i) \in 0..7
    BY <1>1, <1>4, <2>1
  <2>3. \A k \in 0..ret' - 1 : dst'[k] \in Byte
    BY <1>0, <1>1, <1>4 DEF Kept
  <2>4. ASSUME NEW p \in Nat, p < 8 * u PROVE CellBit(p)' = StreamBit(p)
    BY <1>1, <1>4, <2>4 DEF CellBit, StreamBit
  <2>5. /\ \A p \in Nat : p < EndOf(i) => CellBit(p)' = StreamBit(p)
        /\ \A p \in Nat : EndOf(i) <= p /\ p < 8 * ret' => CellBit(p)' = 1
    BY <1>1, <1>4, <2>1, <2>4
  <2>6. pc = "encode" /\ i = Len(src) /\ UNCHANGED <<src, ends>>
    BY <1>1, <1>4
  <2> QED
    BY <1>0, <2>2, <2>3, <2>5, <2>6, EmitsAtReturn
<1>9. Placed' /\ EncodedSoFar' /\ LengthExact'
  BY <1>3, <1>4 DEF Placed, EncodedSoFar, LengthExact
<1> QED
  BY <1>5, <1>6, <1>7, <1>8, <1>9 DEF IInv

LEMMA Unchanged ==
    ASSUME IInv, UNCHANGED vars
    PROVE  IInv'
<1>1. /\ src' = src /\ dst' = dst /\ pc' = pc /\ i' = i /\ acc' = acc /\ elen' = elen
      /\ out' = out /\ nbits' = nbits /\ bits' = bits /\ ret' = ret /\ ends' = ends
  BY DEF vars
<1>2. TypeOK'
  BY <1>1 DEF IInv, TypeOK
<1>3. Counted'
  BY <1>1 DEF IInv, Counted, EndOf
<1>4. Kept'
  BY <1>1 DEF IInv, Kept
<1>5. Placed'
  BY <1>1 DEF IInv, Placed, EndOf
<1>6. EncodedSoFar'
  BY <1>1 DEF IInv, EncodedSoFar, EndOf, StreamBit
<1>7. LengthExact'
  BY <1>1 DEF IInv, LengthExact
<1>8. EmitsCodes'
  BY <1>1 DEF IInv, EmitsCodes, EndOf, encoded
<1> QED
  BY <1>2, <1>3, <1>4, <1>5, <1>6, <1>7, <1>8 DEF IInv

LEMMA Inductive == IInv /\ [Next]_vars => IInv'
<1> SUFFICES ASSUME IInv, [Next]_vars PROVE IInv'
  OBVIOUS
<1>1. CASE sum_loop
  BY <1>1, SumStep
<1>2. CASE encode_len
  BY <1>2, LenReturn
<1>3. CASE encode_loop
  BY <1>3, LoopStep
<1>4. CASE encode_padded
  BY <1>4, PaddedStep
<1>5. CASE encode_aligned
  BY <1>5, AlignedStep
<1>6. CASE UNCHANGED vars
  BY <1>6, Unchanged
<1> QED
  BY <1>1, <1>2, <1>3, <1>4, <1>5, <1>6 DEF Next, Calls, Returned

LEMMA Invariance == Spec => []IInv
<1>1. Init => IInv
  BY InitInv
<1>2. IInv /\ [Next]_vars => IInv'
  BY Inductive
<1> QED
  BY <1>1, <1>2, PTL DEF Spec

(* No count wraps and no store leaves dst (NoOverrun of the F* signature's  *)
(* 4 * len + 1): type correctness of both calls, for every message.         *)
THEOREM EncoderTyped == Spec => []TypeOK
<1>1. IInv => TypeOK
  BY DEF IInv
<1> QED
  BY <1>1, Invariance, PTL

(* At every step of encode_loop the bytes stored and the residue are the    *)
(* codes of the symbols read.                                               *)
THEOREM StreamCorrect == Spec => []EncodedSoFar
<1>1. IInv => EncodedSoFar
  BY DEF IInv
<1> QED
  BY <1>1, Invariance, PTL

(* encode returns what encode_len returned.                                 *)
THEOREM LengthsAgree == Spec => []LengthExact
<1>1. IInv => LengthExact
  BY DEF IInv
<1> QED
  BY <1>1, Invariance, PTL

(* encode writes nothing past what encode_len returned.                     *)
THEOREM NoOverrun == Spec => []WithinLength
<1>1. IInv => WithinLength
  <2> SUFFICES ASSUME IInv, pc # "encode_len" PROVE \A k \in DOMAIN dst : k >= elen => dst[k] = Old
    BY DEF WithinLength
  <2>0. TypeOK /\ Counted /\ Kept /\ EncodedSoFar
    BY DEF IInv
  <2>1. CASE pc = "done"
    BY <2>0, <2>1 DEF TypeOK, Kept
  <2>2. CASE pc = "encode"
    <3>1. PICK u \in Nat, b \in 0..7, a \in Nat : u = out /\ b = nbits /\ a = acc
      <4>1. Len(src) \in Nat /\ out \in 0..4 * Len(src) /\ nbits \in 0..7
        BY <2>0 DEF TypeOK
      <4>2. acc \in 0..30 * Len(src)
        BY <2>0 DEF TypeOK
      <4>3. out \in Nat /\ acc \in Nat
        BY <4>1, <4>2
      <4> QED
        BY <4>1, <4>3
    <3>2. 8 * u + b <= a
      <4>1. i \in 0..Len(ends)
        BY <2>0, <2>2 DEF TypeOK, Counted
      <4> QED
        BY <2>0, <2>2, <3>1, <4>1 DEF Counted, EncodedSoFar
    <3>3. elen = (a + 7) \div 8 /\ (a + 7) \div 8 >= u /\ elen \in Nat
      BY <2>0, <2>2, <3>1, <3>2 DEF Counted
    <3>4. \A k \in 0..4 * Len(src) : k >= u => dst[k] = Old
      BY <2>0, <2>2, <3>1 DEF Kept
    <3> QED
      BY <2>0, <3>3, <3>4 DEF TypeOK
  <2> QED
    BY <2>0, <2>1, <2>2 DEF TypeOK
<1> QED
  BY <1>1, Invariance, PTL

(* The result of encode: every code at the place encode_len counted, then   *)
(* at most seven ones.  The decoder's DecodingComplete starts from this.    *)
THEOREM EncodingCorrect == Spec => []EmitsCodes
<1>1. IInv => EmitsCodes
  BY DEF IInv
<1> QED
  BY <1>1, Invariance, PTL

--------------------------------------------------------------------------
(***************************************************************************)
(* What the two encoder calls promise, for every code of at most 30 bits:  *)
(* their result is the one encoding of the message, so the reference       *)
(* decoder returns the message, and the calls implement EncodeContract.    *)
(***************************************************************************)

(* Where the codes of src end, as encode_len counted them. *)
Ends == [k \in 0..Len(src) |-> EndOf(k)]

LEMMA EndsCounted ==
    ASSUME IInv, pc # "encode_len"
    PROVE  EndsOf(src, Ends) /\ Ends[Len(src)] = acc
<1>0. TypeOK /\ Counted
  BY DEF IInv
<1>1. PICK n \in Nat : n = Len(src) /\ Len(ends) = n /\ src \in Seq(Byte)
  BY <1>0 DEF TypeOK, Counted
<1>2. PICK at : at = Ends /\ at = [k \in 0..n |-> EndOf(k)]
  BY <1>1 DEF Ends
<1>3. \A k \in 0..n : EndOf(k) \in Nat
  BY <1>0, <1>1, EndTyped
<1>4. at \in [0..n -> Nat] /\ \A k \in 0..n : at[k] = EndOf(k)
  BY <1>2, <1>3
<1>5. at[0] = 0
  <2>1. 0 \in 0..n
    OBVIOUS
  <2> QED
    BY <1>4, <2>1 DEF EndOf
<1>6. ASSUME NEW k \in 1..n PROVE at[k] = at[k - 1] + Len(Code[src[k]])
  <2>1. k \in 0..n /\ k - 1 \in 0..n /\ k # 0
    OBVIOUS
  <2>2. ends[k] = EndOf(k - 1) + Len(Code[src[k]])
    BY <1>0, <1>1 DEF Counted
  <2>3. EndOf(k) = ends[k]
    BY <2>1 DEF EndOf
  <2> QED
    BY <1>4, <2>1, <2>2, <2>3
<1>7. at[n] = acc
  <2>1. n \in 0..n
    OBVIOUS
  <2> QED
    BY <1>0, <1>1, <1>4, <2>1 DEF Counted
<1> QED
  BY <1>1, <1>2, <1>4, <1>5, <1>6, <1>7 DEF EndsOf

(* EmitsCodes, told as a layout of the result's bits. *)
LEMMA ResultLaidOut ==
    ASSUME IInv, pc = "done"
    PROVE  /\ src \in Seq(Byte) /\ encoded \in Seq(Byte)
           /\ LaysOut(bytes_to_bits(encoded), src, Ends)
           /\ PaddedFrom(bytes_to_bits(encoded), Ends[Len(src)])
<1>0. TypeOK /\ Counted /\ EmitsCodes
  BY DEF IInv
<1>1. PICK n \in Nat, r \in Nat :
         n = Len(src) /\ Len(ends) = n /\ src \in Seq(Byte) /\ r = ret
  BY <1>0 DEF TypeOK, Counted
<1>2. PICK e : /\ e = encoded /\ e \in Seq(Byte)
               /\ 8 * r - EndOf(n) \in 0..7
               /\ \A p \in EndOf(n)..8 * r - 1 : bit_at(e, p) = 1
               /\ \A k \in 1..n :
                     /\ ends[k] <= 8 * r
                     /\ \A j \in 1..Len(Code[src[k]]) :
                           bit_at(e, EndOf(k - 1) + j - 1) = Code[src[k]][j]
  BY <1>0, <1>1 DEF EmitsCodes
<1>3. Len(e) = r
  BY <1>1, <1>2 DEF encoded
<1>4. PICK v \in Seq(Bit) : v = bytes_to_bits(e) /\ Len(v) = 8 * r
  BY <1>2, <1>3, BitsOfBytes
<1>5. \A p \in Nat : p < 8 * r => v[p + 1] = bit_at(e, p)
  BY <1>3, <1>4 DEF bytes_to_bits
<1>6. EndsOf(src, Ends) /\ \A k \in 0..n : Ends[k] = EndOf(k)
  BY <1>1, EndsCounted DEF Ends
<1>7. \A k \in 0..n : EndOf(k) \in Nat
  BY <1>0, <1>1, EndTyped
<1>8. ASSUME NEW k \in 1..n
      PROVE  /\ Ends[k] <= Len(v)
             /\ \A j \in 1..Len(Code[src[k]]) : v[Ends[k - 1] + j] = Code[src[k]][j]
  <2>1. k \in 0..n /\ k - 1 \in 0..n /\ k # 0
    OBVIOUS
  <2>2. PICK a \in Nat, c \in Nat, b \in Nat :
           /\ a = EndOf(k - 1) /\ c = Len(Code[src[k]]) /\ b = ends[k]
           /\ b = a + c /\ b <= 8 * r
    <3>1. src[k] \in Byte
      BY <1>1
    <3>2. Len(Code[src[k]]) \in Nat
      BY <3>1, ByteCode
    <3>3. ends[k] = EndOf(k - 1) + Len(Code[src[k]])
      BY <1>0, <1>1 DEF Counted
    <3>4. EndOf(k - 1) \in Nat
      BY <1>7, <2>1
    <3>5. PICK a \in Nat, c \in Nat : a = EndOf(k - 1) /\ c = Len(Code[src[k]])
      BY <3>2, <3>4
    <3>6. ends[k] = a + c /\ a + c \in Nat /\ ends[k] <= 8 * r
      BY <1>2, <3>3, <3>5
    <3> QED
      BY <3>5, <3>6
  <2>3. Ends[k] = b /\ Ends[k - 1] = a
    BY <1>6, <2>1, <2>2 DEF EndOf
  <2>4. ASSUME NEW j \in 1..c PROVE v[a + j] = Code[src[k]][j]
    <3>1. PICK p \in Nat : p = a + j - 1 /\ p < 8 * r /\ p + 1 = a + j
      <4>1. a + j - 1 \in Nat /\ a + j - 1 < 8 * r /\ (a + j - 1) + 1 = a + j
        BY <2>2, SMTT(30)
      <4> QED
        BY <4>1
    <3>2. bit_at(e, p) = Code[src[k]][j]
      BY <1>2, <2>2, <3>1
    <3> QED
      BY <1>5, <3>1, <3>2
  <2> QED
    BY <1>4, <2>2, <2>3, <2>4
<1>9. LaysOut(v, src, Ends)
  BY <1>1, <1>6, <1>8 DEF LaysOut, EndsOf
<1>10. PICK f \in Nat : f = EndOf(n) /\ f = Ends[n]
  <2>1. n \in 0..n
    OBVIOUS
  <2> QED
    BY <1>6, <1>7, <2>1
<1>11. ASSUME NEW m \in f + 1..8 * r PROVE v[m] = 1
  <2>1. PICK p \in Nat : p = m - 1 /\ p + 1 = m /\ p < 8 * r /\ p \in f..8 * r - 1
    <3>1. m - 1 \in Nat /\ (m - 1) + 1 = m /\ m - 1 < 8 * r /\ m - 1 \in f..8 * r - 1
      OBVIOUS
    <3> QED
      BY <3>1
  <2>2. bit_at(e, p) = 1
    BY <1>2, <1>10, <2>1
  <2> QED
    BY <1>5, <2>1, <2>2
<1>12. PaddedFrom(v, Ends[Len(src)])
  BY <1>1, <1>2, <1>4, <1>10, <1>11 DEF PaddedFrom
<1> QED
  BY <1>1, <1>2, <1>4, <1>9, <1>12

(* The result is the encoding of the reference codec. *)
LEMMA ResultIsEncoding ==
    ASSUME IInv, pc = "done"
    PROVE  encoded = Encoding(src)
<1>1. PICK at : at = Ends
  OBVIOUS
<1> QED
  BY <1>1, ResultLaidOut, EncodingUnique

(* The announced length is its length. *)
LEMMA AnnouncedLength ==
    ASSUME IInv, pc # "encode_len"
    PROVE  elen = Len(Encoding(src))
<1>0. TypeOK /\ Counted
  BY DEF IInv
<1>1. src \in Seq(Byte) /\ elen = (acc + 7) \div 8
  BY <1>0 DEF TypeOK, Counted
<1>2. PICK at : EndsOf(src, at) /\ at[Len(src)] = acc
  BY EndsCounted
<1> QED
  BY <1>1, <1>2, EncodingLength

(* What encode stores, the reference decoder accepts, and returns the      *)
(* message: the round trip of the extracted encoder, for every message.    *)
THEOREM EncoderRoundTrip == Spec => []DecodesToMessage
<1>1. IInv => DecodesToMessage
  <2> SUFFICES ASSUME IInv, pc = "done"
               PROVE  decode_bits(bytes_to_bits(encoded)) = [ok |-> TRUE, out |-> src]
    BY DEF DecodesToMessage
  <2>1. PICK v \in Seq(Bit) : v = bytes_to_bits(encoded)
    BY ResultLaidOut, BitsOfBytes
  <2>2. PICK at : at = Ends
    OBVIOUS
  <2>3. src \in Seq(Byte) /\ LaysOut(v, src, at) /\ PaddedFrom(v, at[Len(src)])
    BY <2>1, <2>2, ResultLaidOut
  <2> QED
    BY <2>1, <2>3, LaidOutDecodes
<1> QED
  BY <1>1, Invariance, PTL

--------------------------------------------------------------------------
(* What the two calls have answered. *)
Promised ==
    /\ pc # "encode_len" => elen = Len(Encoding(src))
    /\ pc = "done" => encoded = Encoding(src)

LEMMA Keeps == Spec => []Promised
<1>1. IInv => Promised
  BY AnnouncedLength, ResultIsEncoding DEF Promised
<1> QED
  BY <1>1, Invariance, PTL

(* The contract's specification is over the same code: its operators are   *)
(* these.                                                                  *)
LEMMA SameEncoding == Contract!Encoding(src) = Encoding(src)
<1>1. ASSUME NEW seqs PROVE Contract!FlattenSeq(seqs) = FlattenSeq(seqs)
  BY DEF Contract!FlattenSeq, FlattenSeq
<1>2. Contract!encode_bits(src) = encode_bits(src)
  BY <1>1 DEF Contract!encode_bits, encode_bits
<1>3. Contract!padded(src) = padded(src)
  BY <1>2 DEF Contract!padded, padded
<1>4. ASSUME NEW w, NEW p PROVE Contract!byte_at(w, p) = byte_at(w, p)
  BY DEF Contract!byte_at, byte_at
<1>5. PICK w : w = padded(src)
  OBVIOUS
<1>6. Contract!Encoding(src) = [j \in 1..Len(w) \div 8 |-> byte_at(w, 8 * (j - 1))]
  BY <1>3, <1>4, <1>5 DEF Contract!Encoding
<1>7. Encoding(src) = [j \in 1..Len(w) \div 8 |-> byte_at(w, 8 * (j - 1))]
  BY <1>5 DEF Encoding
<1> QED
  BY <1>6, <1>7

LEMMA AnnounceStep == ASSUME Promised', encode_len PROVE Contract!Announce
<1>1. /\ pc = "encode_len" /\ pc' = "encode" /\ src' = src
  BY DEF encode_len, stream
<1>2. elen' = Len(Encoding(src'))
  BY <1>1 DEF Promised
<1> QED
  BY <1>1, <1>2, SameEncoding
  DEF Contract!Announce, Answered, Contract!Answered, Contract!NotYet

LEMMA AnswerStep ==
    ASSUME Promised', encode_padded \/ encode_aligned
    PROVE  Contract!Answer
<1>1. /\ pc = "encode" /\ pc' = "done" /\ src' = src /\ elen' = elen
  BY DEF encode_padded, encode_aligned, lengths
<1>2. encoded' = Encoding(src')
  BY <1>1 DEF Promised
<1> QED
  BY <1>1, <1>2, SameEncoding
  DEF Contract!Answer, Answered, Contract!Answered, Contract!NotYet

LEMMA QuietStep ==
    ASSUME sum_loop \/ encode_loop \/ UNCHANGED vars
    PROVE  UNCHANGED <<src, Answered(pc # "encode_len", elen), Answered(pc = "done", encoded)>>
<1>1. CASE sum_loop
  BY <1>1 DEF sum_loop, stream, Answered
<1>2. CASE encode_loop
  BY <1>2 DEF encode_loop, lengths, Answered
<1>3. CASE UNCHANGED vars
  BY <1>3 DEF vars, Answered, encoded
<1> QED
  BY <1>1, <1>2, <1>3

(* The two calls implement EncodeContract: encode_len announces the length *)
(* of the encoding, then encode answers with the encoding, whole.          *)
THEOREM EncoderImplements == Spec => ImplementsContract
<1>1. Init => Contract!Init
  BY DEF Init, Contract!Init, Contract!NotYet, Answered
<1>2. Promised' /\ [Next]_vars =>
        [Contract!Announce \/ Contract!Answer]_<<src, Answered(pc # "encode_len", elen),
                                                 Answered(pc = "done", encoded)>>
  <2> SUFFICES ASSUME Promised', [Next]_vars
               PROVE  [Contract!Announce \/ Contract!Answer]_<<src,
                          Answered(pc # "encode_len", elen), Answered(pc = "done", encoded)>>
    OBVIOUS
  <2>1. CASE encode_len
    BY <2>1, AnnounceStep
  <2>2. CASE encode_padded \/ encode_aligned
    BY <2>2, AnswerStep
  <2>3. CASE sum_loop \/ encode_loop \/ UNCHANGED vars
    BY <2>3, QuietStep
  <2> QED
    BY <2>1, <2>2, <2>3 DEF Next, Calls, Returned
<1> QED
  BY <1>1, <1>2, Keeps, PTL DEF Spec, ImplementsContract, Contract!Spec
====
