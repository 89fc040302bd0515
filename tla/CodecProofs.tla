---- MODULE CodecProofs ----
(***************************************************************************)
(* Proofs about the C shim, for any number of calls in any order and every *)
(* code of at most 30 bits.  The invariant says what each buffer holds: in *)
(* enc the encoding of the latest message encode accepted, in dec what the *)
(* latest decode answered; the clamp, the casts and the length guards then *)
(* lose nothing.                                                           *)
(***************************************************************************)
EXTENDS Codec, HuffmanSpecProofs

--------------------------------------------------------------------------
(* The casts. *)

LEMMA NoWrap ==
    ASSUME NEW n \in Nat, n < U32
    PROVE  uint32_t(n) = n
<1>1. U32 \in Nat
  BY CodecBounds
<1> QED
  BY <1>1 DEF uint32_t

LEMMA Bounds ==
    /\ MAX_LEN \in Nat /\ MAX_LEN >= 1 /\ U32 \in Nat /\ 32 * MAX_LEN <= U32
    /\ EncSize \in Nat /\ DecSize \in Nat /\ 4 * (MAX_LEN - 1) + 1 <= EncSize
    /\ UINT32_MAX = U32 - 1 /\ MAX_LEN <= UINT32_MAX
  BY CodecBounds DEF UINT32_MAX

(* The clamp keeps every capacity up to the largest the decoder takes. *)
LEMMA Clamped ==
    ASSUME NEW cap \in Caps
    PROVE  /\ cap \in 0..DecSize /\ cap32(cap) \in Nat /\ cap32(cap) <= cap
           /\ \A n \in Nat : n < MAX_LEN /\ n <= cap => n <= cap32(cap)
<1>1. cap \in Nat /\ cap \in 0..DecSize
  BY CodecBounds
<1>2. CASE cap > UINT32_MAX
  <2>1. cap32(cap) = UINT32_MAX
    BY <1>2 DEF cap32
  <2> QED
    BY <1>1, <1>2, <2>1, Bounds
<1>3. CASE ~(cap > UINT32_MAX)
  <2>1. cap < U32
    BY <1>1, <1>3, Bounds
  <2>2. cap32(cap) = cap
    BY <1>1, <1>3, <2>1, NoWrap DEF cap32
  <2> QED
    BY <1>1, <2>2
<1> QED
  BY <1>2, <1>3

LEMMA SeesAll ==
    ASSUME NEW m \in Seq(Byte), Len(m) < MAX_LEN
    PROVE  SubSeq(m, 1, uint32_t(Len(m))) = m
<1>1. Len(m) \in Nat /\ Len(m) < U32
  BY Bounds
<1>2. uint32_t(Len(m)) = Len(m)
  BY <1>1, NoWrap
<1>3. SubSeq(m, 1, Len(m)) = m
  OBVIOUS
<1> QED
  BY <1>2, <1>3

--------------------------------------------------------------------------
(* Codes of at most 30 bits: an encoding takes at most 4 bytes a symbol.   *)
LEMMA EncodingFits ==
    ASSUME NEW m \in Seq(Byte)
    PROVE  Len(Encoding(m)) \in Nat /\ Len(Encoding(m)) <= 4 * Len(m)
<1>1. PICK n \in Nat : n = Len(m)
  OBVIOUS
<1>2. PICK at : LaysOut(encode_bits(m), m, at) /\ at[Len(m)] = Len(encode_bits(m))
  BY EncodeLaysOut
<1>3. at[0] = 0 /\ at \in [0..n -> Nat] /\ \A k \in 1..n : at[k] = at[k - 1] + Len(Code[m[k]])
  BY <1>1, <1>2 DEF LaysOut
<1> DEFINE Below == {k \in Nat : k <= n => at[k] <= 30 * k}
<1>4. 0 \in Below
  BY <1>3
<1>5. ASSUME NEW k \in Nat, k \in Below PROVE k + 1 \in Below
  <2> SUFFICES ASSUME k + 1 <= n PROVE at[k + 1] <= 30 * (k + 1)
    OBVIOUS
  <2>1. PICK y \in Byte : y = m[k + 1]
    BY <1>1
  <2>2. Len(Code[y]) <= 30
    BY CodecBounds
  <2>3. Code[y] \in Seq(Bit)
    BY ByteIsSymbol, CodeTyped
  <2>4. k + 1 \in 1..n /\ k \in 0..n /\ (k + 1) - 1 = k
    BY <1>1
  <2>5. at[k + 1] = at[k] + Len(Code[y])
    BY <1>3, <2>1, <2>4
  <2>6. at[k] \in Nat /\ at[k] <= 30 * k
    BY <1>3, <1>5, <2>4
  <2>7. Len(Code[y]) \in Nat
    BY <2>3
  <2> QED
    BY <2>2, <2>5, <2>6, <2>7
<1>6. Nat \subseteq Below
  <2> HIDE DEF Below
  <2> QED
    BY <1>4, <1>5, NatSetInduction
<1>7. at[n] \in Nat /\ at[n] <= 30 * n
  <2>1. n \in 0..n
    OBVIOUS
  <2> QED
    BY <1>3, <1>6, <2>1
<1>8. PICK l \in Nat, b \in Nat : l = Len(Encoding(m)) /\ b = at[n] /\ 8 * l - b \in 0..7
  <2>1. Encoding(m) \in Seq(Byte) /\ 8 * Len(Encoding(m)) - Len(encode_bits(m)) \in 0..7
    BY EncodingBits
  <2>2. Len(Encoding(m)) \in Nat
    BY <2>1
  <2> QED
    BY <1>1, <1>2, <1>7, <2>1, <2>2
<1>9. l <= 4 * n
  <2>1. b <= 30 * n /\ 8 * l <= b + 7 /\ b \in Nat /\ n \in Nat /\ l \in Nat
    BY <1>1, <1>7, <1>8
  <2>2. 8 * l <= 32 * n + 7
    BY <2>1
  <2> QED
    BY <2>1, <2>2
<1> QED
  BY <1>1, <1>8, <1>9

(* What encode_len and encode return for m. *)
LenOf(m) == IF TooLong(Len(m)) THEN 0 ELSE Len(Encoding(m))

LEMMA Accepted ==
    ASSUME NEW m \in Seq(Byte), ~TooLong(Len(m))
    PROVE  /\ Seen(m) = m /\ Encoding(m) \in Seq(Byte)
           /\ Len(Encoding(m)) \in 0..EncSize
           /\ uint32_t(Len(Encoding(m))) = Len(Encoding(m))
<1>1. PICK n \in Nat : n = Len(m) /\ n < MAX_LEN
  BY Bounds DEF TooLong
<1>2. PICK l \in Nat : l = Len(Encoding(m)) /\ l <= 4 * n
  BY <1>1, EncodingFits
<1>3. l < U32 /\ l <= EncSize
  BY <1>1, <1>2, Bounds
<1>4. uint32_t(l) = l
  BY <1>3, NoWrap
<1>5. Seen(m) = m
  BY <1>1, SeesAll DEF Seen
<1>6. Encoding(m) \in Seq(Byte)
  BY EncodingBits
<1>7. l \in 0..EncSize
  BY <1>3
<1> QED
  BY <1>2, <1>4, <1>5, <1>6, <1>7

LEMMA LenOfTyped ==
    ASSUME NEW m \in Seq(Byte)
    PROVE  LenOf(m) \in 0..EncSize
<1>1. 0 \in 0..EncSize
  BY Bounds
<1> QED
  BY <1>1, Accepted DEF LenOf

--------------------------------------------------------------------------
(* A buffer of n cells, and one where the bytes of s were stored. *)
Buffer(n) == [0..n - 1 -> Byte \cup {Old}]

Holds(old, s, n, new) ==
    /\ new \in Buffer(n)
    /\ FirstOf(new, Len(s)) = s
    /\ \A k \in 0..n - 1 : k >= Len(s) => new[k] = old[k]

LEMMA Stores ==
    ASSUME NEW n \in Nat, NEW buf \in Buffer(n), NEW s \in Seq(Byte), Len(s) <= n
    PROVE  Holds(buf, s, n, Stored(buf, s))
<1>1. PICK l \in Nat : l = Len(s) /\ l <= n
  OBVIOUS
<1>2. DOMAIN buf \cup 0..l - 1 = 0..n - 1
  <2>1. DOMAIN buf = 0..n - 1
    BY DEF Buffer
  <2>2. 0..l - 1 \subseteq 0..n - 1
    BY <1>1
  <2> QED
    BY <2>1, <2>2
<1>3. PICK new : new = Stored(buf, s)
  OBVIOUS
<1>4. new = [k \in 0..n - 1 |-> IF k < l THEN s[k + 1] ELSE buf[k]]
  BY <1>1, <1>2, <1>3 DEF Stored
<1>5. ASSUME NEW k \in 0..n - 1
      PROVE  (IF k < l THEN s[k + 1] ELSE buf[k]) \in Byte \cup {Old}
  <2>1. CASE k < l
    <3>1. k + 1 \in 1..l
      BY <2>1
    <3> QED
      BY <1>1, <2>1, <3>1
  <2>2. CASE ~(k < l)
    BY <2>2 DEF Buffer
  <2> QED
    BY <2>1, <2>2
<1>6. new \in Buffer(n)
  BY <1>4, <1>5 DEF Buffer
<1>7. FirstOf(new, l) = s
  <2>1. ASSUME NEW k \in 1..l PROVE new[k - 1] = s[k]
    <3>1. k - 1 \in 0..n - 1 /\ k - 1 < l /\ (k - 1) + 1 = k
      BY <1>1
    <3> QED
      BY <1>4, <3>1
  <2>2. s = [k \in 1..l |-> s[k]]
    BY <1>1
  <2> QED
    BY <2>1, <2>2 DEF FirstOf
<1>8. \A k \in 0..n - 1 : k >= l => new[k] = buf[k]
  BY <1>1, <1>4
<1> QED
  BY <1>1, <1>3, <1>6, <1>7, <1>8 DEF Holds

(* Storing nothing changes nothing. *)
LEMMA StoresNothing ==
    ASSUME NEW n \in Nat, NEW buf \in Buffer(n), NEW s \in Seq(Byte), Len(s) = 0
    PROVE  Stored(buf, s) = buf
<1>0. Len(s) <= n
  OBVIOUS
<1>1. PICK new : new = Stored(buf, s) /\ Holds(buf, s, n, new)
  BY <1>0, Stores
<1>2. new \in [0..n - 1 -> Byte \cup {Old}] /\ buf \in [0..n - 1 -> Byte \cup {Old}]
  BY <1>1 DEF Holds, Buffer
<1>3. \A k \in 0..n - 1 : new[k] = buf[k]
  BY <1>1 DEF Holds
<1> QED
  BY <1>1, <1>2, <1>3

--------------------------------------------------------------------------
(* What the reference decoder returns for bytes s. *)
DecodedOut(s) == decode_bits(bytes_to_bits(s)).out

LEMMA DecodedOutTyped == ASSUME NEW s \in Seq(Byte) PROVE DecodedOut(s) \in Seq(Byte)
<1>1. PICK bits \in Seq(Bit) : bits = bytes_to_bits(s)
  BY BitsOfBytes
<1>2. PICK e \in State : e = decode_go(bits)[Len(bits)]
  <2>1. Len(bits) \in 0..Len(bits)
    OBVIOUS
  <2> QED
    BY <2>1, DecodeGo
<1>3. PICK ok : ok = is_accepting(e)
  OBVIOUS
<1>4. decode_bits(bits) = [ok |-> ok, out |-> e.out]
  BY <1>2, <1>3 DEF decode_bits
<1>5. DecodedOut(s) = e.out
  BY <1>1, <1>4 DEF DecodedOut
<1> QED
  BY <1>5 DEF State

LEMMA AnswerTyped ==
    ASSUME NEW s \in Seq(Byte), NEW cap \in Nat, NEW a \in DecodeAnswers(s, cap)
    PROVE  /\ a.rc \in {-1, 0} /\ a.out \in Seq(Byte) /\ Len(a.out) <= cap
           /\ IsPrefix(a.out, DecodedOut(s))
<1>1. PICK d : d = decode_bits(bytes_to_bits(s))
  OBVIOUS
<1>2. PICK v \in Seq(Byte) : v = d.out /\ v = DecodedOut(s)
  BY <1>1, DecodedOutTyped DEF DecodedOut
<1>3. CASE d.ok /\ Len(d.out) <= cap
  <2>1. DecodeAnswers(s, cap) = {[rc |-> 0, out |-> v]}
    BY <1>1, <1>2, <1>3 DEF DecodeAnswers
  <2>2. a.rc = 0 /\ a.out = v
    BY <2>1
  <2>3. IsPrefix(v, v)
    BY DEF IsPrefix
  <2> QED
    BY <1>2, <1>3, <2>2, <2>3
<1>4. CASE ~(d.ok /\ Len(d.out) <= cap)
  <2>1. DecodeAnswers(s, cap) = {[rc |-> -1, out |-> SubSeq(v, 1, n)] :
                                    n \in {m \in 0..cap : m <= Len(v)}}
    BY <1>1, <1>2, <1>4 DEF DecodeAnswers
  <2>2. PICK n \in 0..cap : n <= Len(v) /\ a.rc = -1 /\ a.out = SubSeq(v, 1, n)
    BY <2>1
  <2>3. PICK w : w = SubSeq(v, 1, n)
    OBVIOUS
  <2>4. w \in Seq(Byte) /\ Len(w) = n
    BY <2>2, <2>3
  <2>5. SubSeq(w, 1, n) = w
    BY <2>4
  <2>6. IsPrefix(w, v)
    BY <2>2, <2>3, <2>4, <2>5 DEF IsPrefix
  <2> QED
    BY <1>2, <2>2, <2>3, <2>4, <2>6
<1> QED
  BY <1>3, <1>4

(* The encoding of a message that fits has one answer: the message. *)
LEMMA EncodingAnswer ==
    ASSUME NEW m \in Seq(Byte), NEW cap \in Nat, Len(m) <= cap,
           NEW a \in DecodeAnswers(Encoding(m), cap)
    PROVE  a.rc = 0 /\ a.out = m
<1>1. PICK d : d = decode_bits(bytes_to_bits(Encoding(m))) /\ d.ok /\ d.out = m
  BY DecodeEncode
<1>2. DecodeAnswers(Encoding(m), cap) = {[rc |-> 0, out |-> m]}
  BY <1>1 DEF DecodeAnswers
<1> QED
  BY <1>2

--------------------------------------------------------------------------
(* enc holds the encoding of the latest message encode accepted. *)
Encoded ==
    /\ sent \in Seq(Byte) /\ elen = LenOf(sent)
    /\ ~TooLong(Len(sent)) => FirstOf(enc, elen) = Encoding(sent)

Announced == announced.src \in Seq(Byte) /\ announced.len = LenOf(announced.src)

(* dec holds what the latest decode answered. *)
AnsweredBy(s, cap) ==
    /\ s \in Seq(Byte) /\ cap \in Caps
    /\ IF TooLong(Len(s)) THEN rc = -1 /\ out_len = 0
       ELSE \E a \in DecodeAnswers(s, cap32(cap)) : rc = a.rc /\ FirstOf(dec, out_len) = a.out

Decoded == asked # NotAsked => AnsweredBy(asked.src, asked.cap)

IInv == TypeOK /\ Encoded /\ Announced /\ Decoded

LEMMA InitInv == Init => IInv
<1> SUFFICES ASSUME Init PROVE IInv
  OBVIOUS
<1>1. <<>> \in Seq(Byte) /\ Len(<<>>) = 0 /\ ~TooLong(0)
  BY Bounds DEF TooLong
<1>2. Len(Encoding(<<>>)) = 0 /\ Encoding(<<>>) = <<>>
  <2>1. PICK w \in Seq(Byte) : w = Encoding(<<>>) /\ Len(w) = 0
    <3>1. Len(Encoding(<<>>)) \in Nat /\ Len(Encoding(<<>>)) <= 4 * 0
      BY <1>1, EncodingFits
    <3>2. PICK m \in Seq(Byte) : m = <<>> /\ Len(m) = 0
      BY <1>1
    <3>3. Encoding(m) \in Seq(Byte)
      BY EncodingBits
    <3>4. PICK l \in Nat : l = Len(Encoding(<<>>)) /\ l <= 0
      BY <3>1
    <3> QED
      BY <3>2, <3>3, <3>4
  <2> QED
    BY <2>1
<1>3. TypeOK
  <2>1. enc \in [0..EncSize - 1 -> Byte \cup {Old}] /\ dec \in [0..DecSize - 1 -> Byte \cup {Old}]
    BY DEF Init, Cells
  <2>2. elen \in 0..EncSize /\ out_len \in 0..DecSize /\ rc \in {-1, 0} /\ calls \in 0..MaxCalls
    BY CodecBounds DEF Init
  <2>3. /\ announced.src \in Messages \cup {<<>>} /\ announced.len \in 0..EncSize
        /\ sent \in Messages \cup {<<>>} /\ asked.cap \in Caps \cup {-1}
    BY CodecBounds DEF Init, NotAsked
  <2> QED
    BY <2>1, <2>2, <2>3 DEF TypeOK
<1>4. Encoded
  <2>1. FirstOf(enc, 0) = <<>>
    BY DEF FirstOf
  <2> QED
    BY <1>1, <1>2, <2>1 DEF Init, Encoded, LenOf
<1>5. Announced
  BY <1>1, <1>2 DEF Init, Announced, LenOf
<1>6. Decoded
  BY DEF Init, Decoded
<1> QED
  BY <1>3, <1>4, <1>5, <1>6 DEF IInv

(* A call is counted. *)
Counts == calls < MaxCalls /\ calls' = calls + 1

LEMMA CountsTyped == ASSUME TypeOK, Counts PROVE calls' \in 0..MaxCalls
  BY CodecBounds DEF TypeOK, Counts

LEMMA EncodeLenStep ==
    ASSUME IInv, Counts, NEW m \in Messages, hpack_huffman_encode_len(m)
    PROVE  IInv'
<1>0. TypeOK /\ Encoded /\ Announced /\ Decoded
  BY DEF IInv
<1>1. m \in Seq(Byte)
  BY CodecBounds
<1>2. /\ enc' = enc /\ elen' = elen /\ dec' = dec /\ out_len' = out_len /\ rc' = rc
      /\ sent' = sent /\ asked' = asked
  BY DEF hpack_huffman_encode_len, decoder
<1>3. announced'.src = m /\ announced'.len = LenOf(m)
  <2>1. CASE TooLong(Len(m))
    BY <2>1 DEF hpack_huffman_encode_len, LenOf
  <2>2. CASE ~TooLong(Len(m))
    <3>1. Seen(m) = m /\ uint32_t(Len(Encoding(m))) = Len(Encoding(m))
      BY <1>1, <2>2, Accepted
    <3> QED
      BY <2>2, <3>1 DEF hpack_huffman_encode_len, LenOf
  <2> QED
    BY <2>1, <2>2
<1>4. TypeOK'
  BY <1>0, <1>1, <1>2, <1>3, CountsTyped, LenOfTyped DEF TypeOK
<1>5. Announced'
  BY <1>1, <1>3 DEF Announced
<1>6. Encoded' /\ Decoded'
  BY <1>0, <1>2 DEF Encoded, Decoded, AnsweredBy
<1> QED
  BY <1>4, <1>5, <1>6 DEF IInv

LEMMA EncodeStep ==
    ASSUME IInv, Counts, NEW m \in Messages, hpack_huffman_encode(m)
    PROVE  /\ IInv'
           /\ elen' = LenOf(m) /\ sent' = m /\ asked' = NotAsked /\ dec' = dec
           /\ TooLong(Len(m)) => enc' = enc
           /\ ~TooLong(Len(m)) => enc' = Stored(enc, Encoding(m)) /\ FirstOf(enc', elen') = Encoding(m)
<1>0. TypeOK /\ Encoded /\ Announced /\ Decoded
  BY DEF IInv
<1>1. m \in Seq(Byte)
  BY CodecBounds
<1>2. /\ announced' = announced /\ dec' = dec /\ out_len' = out_len /\ rc' = rc
      /\ sent' = m /\ asked' = NotAsked
  BY DEF hpack_huffman_encode, decoder
<1>3. enc \in Buffer(EncSize) /\ EncSize \in Nat
  BY <1>0, Bounds DEF TypeOK, Buffer
<1>4. /\ elen' = LenOf(m) /\ enc' \in Buffer(EncSize)
      /\ TooLong(Len(m)) => enc' = enc
      /\ ~TooLong(Len(m)) => enc' = Stored(enc, Encoding(m)) /\ FirstOf(enc', elen') = Encoding(m)
  <2>1. CASE TooLong(Len(m))
    BY <1>3, <2>1 DEF hpack_huffman_encode, LenOf
  <2>2. CASE ~TooLong(Len(m))
    <3>1. PICK e \in Seq(Byte) : e = Encoding(m)
      BY <1>1, <2>2, Accepted
    <3>2. Seen(m) = m /\ uint32_t(Len(e)) = Len(e) /\ Len(e) \in 0..EncSize
      BY <1>1, <2>2, <3>1, Accepted
    <3>3. elen' = Len(e) /\ enc' = Stored(enc, e)
      BY <2>2, <3>1, <3>2 DEF hpack_huffman_encode
    <3>4. Len(e) <= EncSize
      BY <1>3, <3>2
    <3>5. Holds(enc, e, EncSize, enc')
      BY <1>3, <3>3, <3>4, Stores
    <3> QED
      BY <2>2, <3>1, <3>3, <3>5 DEF Holds, LenOf
  <2> QED
    BY <2>1, <2>2
<1>5. TypeOK'
  <2>1. elen' \in 0..EncSize
    BY <1>1, <1>4, LenOfTyped
  <2>2. asked'.cap \in Caps \cup {-1}
    BY <1>2 DEF NotAsked
  <2> QED
    BY <1>0, <1>2, <1>4, <2>1, <2>2, CountsTyped DEF TypeOK, Buffer
<1>6. Encoded'
  BY <1>1, <1>2, <1>4 DEF Encoded
<1>7. Announced' /\ Decoded'
  BY <1>0, <1>2 DEF Announced, Decoded
<1> QED
  BY <1>2, <1>4, <1>5, <1>6, <1>7 DEF IInv

LEMMA DecodeStep ==
    ASSUME IInv, Counts, NEW n \in 0..EncSize, NEW cap \in Caps,
           \A k \in 0..n - 1 : enc[k] \in Byte,
           hpack_huffman_decode(n, cap)
    PROVE  /\ IInv'
           /\ sent' = sent /\ asked'.cap = cap /\ dec' \in Buffer(DecSize)
           /\ \A k \in 0..DecSize - 1 : k >= cap => dec'[k] = dec[k]
<1>0. TypeOK /\ Encoded /\ Announced /\ Decoded
  BY DEF IInv
<1>1. n \in Nat /\ EncSize \in Nat /\ DecSize \in Nat
  BY Bounds
<1>2. PICK s \in Seq(Byte) : s = FirstOf(enc, n) /\ Len(s) = n
  <2>1. ASSUME NEW k \in 1..n PROVE enc[k - 1] \in Byte
    <3>1. k - 1 \in 0..n - 1
      OBVIOUS
    <3> QED
      BY <3>1
  <2>2. PICK w : w = FirstOf(enc, n) /\ w = [k \in 1..n |-> enc[k - 1]]
    BY DEF FirstOf
  <2>3. w \in Seq(Byte) /\ Len(w) = n
    BY <1>1, <2>1, <2>2
  <2> QED
    BY <2>2, <2>3
<1>3. /\ enc' = enc /\ elen' = elen /\ announced' = announced /\ sent' = sent
      /\ asked' = [src |-> s, cap |-> cap]
  BY <1>2 DEF hpack_huffman_decode
<1>4. asked'.src = s /\ asked'.cap = cap
  BY <1>3
<1>5. dec \in Buffer(DecSize)
  BY <1>0 DEF TypeOK, Buffer
<1>6. /\ dec' \in Buffer(DecSize) /\ out_len' \in 0..DecSize /\ rc' \in {-1, 0}
      /\ AnsweredBy(s, cap)'
      /\ \A k \in 0..DecSize - 1 : k >= cap => dec'[k] = dec[k]
  <2>1. CASE TooLong(n)
    <3>1. rc' = -1 /\ out_len' = 0 /\ dec' = dec
      BY <2>1 DEF hpack_huffman_decode, Refuse
    <3> QED
      BY <1>1, <1>2, <1>5, <2>1, <3>1 DEF AnsweredBy
  <2>2. CASE ~TooLong(n)
    <3>1. PICK c \in Nat : c = cap32(cap) /\ c <= cap /\ cap \in 0..DecSize
      BY Clamped
    <3>2. Len(s) < MAX_LEN
      BY <1>1, <1>2, <2>2, Bounds DEF TooLong
    <3>3. SubSeq(s, 1, uint32_t(n)) = s
      BY <1>2, <3>2, SeesAll
    <3>4. PICK a \in DecodeAnswers(s, c) :
             /\ dec' = Stored(dec, a.out) /\ out_len' = Len(a.out)
             /\ rc' = IF a.rc = 0 THEN 0 ELSE -1
      BY <1>2, <2>2, <3>1, <3>3 DEF hpack_huffman_decode
    <3>5. PICK o \in Seq(Byte) : o = a.out /\ Len(o) <= c
      BY AnswerTyped
    <3>6. rc' = a.rc /\ a.rc \in {-1, 0}
      BY <3>4, AnswerTyped
    <3>7. PICK l \in Nat : l = Len(o) /\ l <= DecSize /\ l <= cap
      <4>1. Len(o) \in Nat
        OBVIOUS
      <4> QED
        BY <1>1, <3>1, <3>5, <4>1
    <3>8. Holds(dec, o, DecSize, dec')
      BY <1>1, <1>5, <3>4, <3>5, <3>7, Stores
    <3>9. /\ dec' \in Buffer(DecSize) /\ FirstOf(dec', out_len') = a.out
          /\ \A k \in 0..DecSize - 1 : k >= l => dec'[k] = dec[k]
      BY <3>4, <3>5, <3>7, <3>8 DEF Holds
    <3>10. out_len' \in 0..DecSize
      BY <3>4, <3>5, <3>7
    <3>11. ASSUME NEW k \in 0..DecSize - 1, k >= cap PROVE dec'[k] = dec[k]
      <4>1. k >= l
        BY <3>1, <3>7, <3>11
      <4> QED
        BY <3>9, <4>1
    <3>12. AnsweredBy(s, cap)'
      BY <1>2, <2>2, <3>1, <3>6, <3>9 DEF AnsweredBy
    <3> QED
      BY <3>6, <3>9, <3>10, <3>11, <3>12
  <2> QED
    BY <2>1, <2>2
<1>7. TypeOK'
  BY <1>0, <1>3, <1>4, <1>6, CountsTyped DEF TypeOK, Buffer
<1>8. Decoded'
  BY <1>4, <1>6 DEF Decoded, AnsweredBy
<1>9. Encoded' /\ Announced'
  BY <1>0, <1>3 DEF Encoded, Announced
<1> QED
  BY <1>3, <1>4, <1>6, <1>7, <1>8, <1>9 DEF IInv

LEMMA Inductive == IInv /\ [Next]_vars => IInv'
<1> SUFFICES ASSUME IInv, [Next]_vars PROVE IInv'
  OBVIOUS
<1>1. CASE Call
  <2>1. Counts
    BY <1>1 DEF Call, Counts
  <2>2. ASSUME NEW m \in Messages, hpack_huffman_encode_len(m) \/ hpack_huffman_encode(m)
        PROVE  IInv'
    BY <2>1, <2>2, EncodeLenStep, EncodeStep
  <2>3. ASSUME NEW n \in 0..EncSize, NEW cap \in Caps, \A k \in 0..n - 1 : enc[k] \in Byte,
               hpack_huffman_decode(n, cap)
        PROVE  IInv'
    BY <2>1, <2>3, DecodeStep
  <2> QED
    BY <1>1, <2>2, <2>3 DEF Call
<1>2. CASE UNCHANGED vars
  <2>1. /\ enc' = enc /\ elen' = elen /\ dec' = dec /\ out_len' = out_len /\ rc' = rc
        /\ announced' = announced /\ sent' = sent /\ asked' = asked /\ calls' = calls
    BY <1>2 DEF vars
  <2>2. TypeOK'
    BY <2>1 DEF IInv, TypeOK
  <2>3. Encoded' /\ Announced' /\ Decoded'
    BY <2>1 DEF IInv, Encoded, Announced, Decoded, AnsweredBy
  <2> QED
    BY <2>2, <2>3 DEF IInv
<1> QED
  BY <1>1, <1>2 DEF Next, Finished

LEMMA Invariance == Spec => []IInv
<1>1. Init => IInv
  BY InitInv
<1>2. IInv /\ [Next]_vars => IInv'
  BY Inductive
<1> QED
  BY <1>1, <1>2, PTL DEF Spec

(* Over any sequence of calls hpack_huffman.c stores within the buffers    *)
(* and reports no length past them.                                        *)
THEOREM CodecTyped == Spec => []TypeOK
<1>1. IInv => TypeOK
  BY DEF IInv
<1> QED
  BY <1>1, Invariance, PTL

LEMMA RoundTripHolds == IInv => RoundTrip
<1> SUFFICES ASSUME IInv, DecodesWhatWasEncoded, Len(sent) < MAX_LEN, elen < MAX_LEN
             PROVE  rc = 0 /\ FirstOf(dec, out_len) = sent
  BY DEF RoundTrip, Recovered
<1>0. Encoded /\ Decoded
  BY DEF IInv
<1>1. PICK m \in Seq(Byte) : m = sent /\ ~TooLong(Len(m)) /\ Len(m) \in Nat /\ Len(m) < MAX_LEN
  <2>1. sent \in Seq(Byte) /\ Len(sent) \in Nat
    BY <1>0 DEF Encoded
  <2> QED
    BY <2>1, Bounds DEF TooLong
<1>2. PICK e \in Seq(Byte) : e = Encoding(m) /\ Len(e) = elen /\ e = FirstOf(enc, elen)
  BY <1>0, <1>1, EncodingBits DEF Encoded, LenOf
<1>3. asked.src = e /\ asked.cap >= Len(m)
  BY <1>1, <1>2 DEF DecodesWhatWasEncoded
<1>4. asked # NotAsked
  <2>1. asked.cap # -1
    BY <1>1, <1>3
  <2> QED
    BY <2>1 DEF NotAsked
<1>5. PICK cap \in Caps : cap = asked.cap /\ AnsweredBy(e, cap)
  BY <1>0, <1>3, <1>4 DEF Decoded, AnsweredBy
<1>6. ~TooLong(Len(e))
  BY <1>2, Bounds DEF TooLong
<1>7. PICK c \in Nat : c = cap32(cap) /\ Len(m) <= c
  <2>1. Len(m) <= cap
    BY <1>3, <1>5, Clamped
  <2> QED
    BY <1>1, <2>1, Clamped
<1>8. PICK a \in DecodeAnswers(e, c) : rc = a.rc /\ FirstOf(dec, out_len) = a.out
  BY <1>5, <1>6, <1>7 DEF AnsweredBy
<1>9. a.rc = 0 /\ a.out = m
  BY <1>2, <1>7, EncodingAnswer
<1> QED
  BY <1>1, <1>8, <1>9

(* decode recovers every message below the bound whose encoding is below   *)
(* it too, whatever calls came before: Lowstar.RoundTrip.fst's capstone,   *)
(* through the shim and over buffers used again.                           *)
THEOREM RoundTripCorrect == Spec => []RoundTrip
  BY RoundTripHolds, Invariance, PTL

LEMMA ReportsHolds == IInv => ReportsThisCall
<1> SUFFICES ASSUME IInv, asked # NotAsked
             PROVE  IsPrefix(FirstOf(dec, out_len), DecodedOut(asked.src))
  BY DEF ReportsThisCall, DecodedOut
<1>1. PICK s \in Seq(Byte), cap \in Caps : s = asked.src /\ AnsweredBy(s, cap)
  BY DEF IInv, Decoded, AnsweredBy
<1>2. CASE TooLong(Len(s))
  <2>1. FirstOf(dec, out_len) = <<>>
    BY <1>1, <1>2 DEF AnsweredBy, FirstOf
  <2>2. PICK v \in Seq(Byte) : v = DecodedOut(s)
    BY DecodedOutTyped
  <2>3. IsPrefix(<<>>, v)
    BY DEF IsPrefix
  <2> QED
    BY <1>1, <2>1, <2>2, <2>3
<1>3. CASE ~TooLong(Len(s))
  <2>1. PICK c \in Nat : c = cap32(cap)
    BY Clamped
  <2>2. PICK a \in DecodeAnswers(s, c) : FirstOf(dec, out_len) = a.out
    BY <1>1, <1>3, <2>1 DEF AnsweredBy
  <2> QED
    BY <1>1, <2>2, AnswerTyped
<1> QED
  BY <1>2, <1>3

(* What decode counts in out_len is a prefix of what this stream decodes   *)
(* to: nothing an earlier call left in dst is reported, on any path.       *)
THEOREM ReportsCorrect == Spec => []ReportsThisCall
  BY ReportsHolds, Invariance, PTL

(* The length announced for a message is the length returned for it.       *)
THEOREM AnnouncedCorrect == Spec => []AnnouncedIsReturned
<1>1. IInv => AnnouncedIsReturned
  BY DEF IInv, Announced, Encoded, AnnouncedIsReturned
<1> QED
  BY <1>1, Invariance, PTL

(* encode stores the whole encoding of its message, or leaves the buffer   *)
(* alone and returns 0.                                                    *)
THEOREM EncodesWhole == Spec => WholeOrNothing
<1>1. IInv /\ [Next]_vars =>
        [sent' # sent =>
            \/ elen' > 0 /\ FirstOf(enc', elen') = Encoding(sent')
            \/ elen' = 0 /\ enc' = enc]_vars
  <2> SUFFICES ASSUME IInv, Next, sent' # sent
               PROVE  \/ elen' > 0 /\ FirstOf(enc', elen') = Encoding(sent')
                      \/ elen' = 0 /\ enc' = enc
    OBVIOUS
  <2>1. Call
    BY DEF Next, Finished, vars
  <2>2. Counts
    BY <2>1 DEF Call, Counts
  <2>3. PICK m \in Messages : hpack_huffman_encode(m)
    <3>1. ASSUME NEW m \in Messages, hpack_huffman_encode_len(m) PROVE FALSE
      BY <3>1 DEF hpack_huffman_encode_len
    <3>2. ASSUME NEW n \in 0..EncSize, NEW cap \in Caps, hpack_huffman_decode(n, cap) PROVE FALSE
      BY <3>2 DEF hpack_huffman_decode
    <3> QED
      BY <2>1, <3>1, <3>2 DEF Call
  <2>4. m \in Seq(Byte)
    BY CodecBounds
  <2>5. CASE TooLong(Len(m))
    BY <2>2, <2>3, <2>5, EncodeStep DEF LenOf
  <2>6. CASE ~TooLong(Len(m))
    <3>1. PICK e \in Seq(Byte) : e = Encoding(m) /\ elen' = Len(e) /\ sent' = m
      BY <2>2, <2>3, <2>4, <2>6, EncodeStep, Accepted DEF LenOf
    <3>2. enc' = Stored(enc, e) /\ FirstOf(enc', elen') = e
      BY <2>2, <2>3, <2>6, <3>1, EncodeStep
    <3>3. CASE Len(e) = 0
      <4>1. enc \in Buffer(EncSize) /\ EncSize \in Nat
        BY Bounds DEF IInv, TypeOK, Buffer
      <4>2. enc' = enc
        BY <3>2, <3>3, <4>1, StoresNothing
      <4> QED
        BY <3>1, <3>3, <4>2
    <3>4. CASE Len(e) # 0
      <4>1. elen' > 0
        BY <3>1, <3>4
      <4> QED
        BY <3>1, <3>2, <4>1
    <3> QED
      BY <3>3, <3>4
  <2> QED
    BY <2>5, <2>6
<1> QED
  BY <1>1, Invariance, PTL DEF Spec, WholeOrNothing

(* decode stores nothing at or past the capacity its caller stated, after  *)
(* the clamp too.                                                          *)
THEOREM CapacityKept == Spec => CapacityHonoured
<1>1. IInv /\ [Next]_vars =>
        [\A k \in DOMAIN dec' : k >= asked'.cap /\ asked' # NotAsked =>
            k \in DOMAIN dec /\ dec'[k] = dec[k]]_vars
  <2> SUFFICES ASSUME IInv, Next, asked' # NotAsked, NEW k \in DOMAIN dec', k >= asked'.cap
               PROVE  k \in DOMAIN dec /\ dec'[k] = dec[k]
    OBVIOUS
  <2>1. CASE dec' = dec
    BY <2>1
  <2>2. CASE dec' # dec
    <3>1. Call
      BY <2>2 DEF Next, Finished, vars
    <3>2. Counts
      BY <3>1 DEF Call, Counts
    <3>3. PICK n \in 0..EncSize, cap \in Caps :
             (\A q \in 0..n - 1 : enc[q] \in Byte) /\ hpack_huffman_decode(n, cap)
      <4>1. ASSUME NEW m \in Messages, hpack_huffman_encode_len(m) PROVE FALSE
        BY <2>2, <4>1 DEF hpack_huffman_encode_len, decoder
      <4>2. ASSUME NEW m \in Messages, hpack_huffman_encode(m) PROVE FALSE
        BY <2>2, <4>2 DEF hpack_huffman_encode, decoder
      <4> QED
        BY <3>1, <4>1, <4>2 DEF Call
    <3>4. /\ asked'.cap = cap /\ dec' \in Buffer(DecSize)
          /\ \A q \in 0..DecSize - 1 : q >= cap => dec'[q] = dec[q]
      BY <3>2, <3>3, DecodeStep
    <3>5. DOMAIN dec = 0..DecSize - 1 /\ k \in 0..DecSize - 1
      BY <3>4 DEF IInv, TypeOK, Buffer
    <3> QED
      BY <3>4, <3>5
  <2> QED
    BY <2>1, <2>2
<1> QED
  BY <1>1, Invariance, PTL DEF Spec, CapacityHonoured
====
