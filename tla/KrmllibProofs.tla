---- MODULE KrmllibProofs ----
(***************************************************************************)
(* Proofs about the parts of krmllib: the byte-order conversions and the   *)
(* accessors, for bytes of any number of values, and the 128-bit integers, *)
(* for words of any even number of bits.                                   *)
(***************************************************************************)
EXTENDS Endianness, UInt128, NaturalProofs

--------------------------------------------------------------------------
(* Byte order: an integer is its bytes, in either direction, and every     *)
(* conversion and every access is then a permutation of bytes.             *)

Bytes(n) == [1..n -> 0..B - 1]

(* The integers of n bytes. *)
Fits(x, n) == x \in Nat /\ x < Power(B, n)

--------------------------------------------------------------------------
(* Integers and their bytes. *)

LEMMA ByteBase == B \in Nat \ {0}
  BY ByteBounds

LEMMA BytesOf ==
    ASSUME NEW x \in Nat, NEW n \in Nat
    PROVE  /\ LittleBytes(x, n) \in Bytes(n)
           /\ \A k \in 1..n : LittleBytes(x, n)[k] = Lane(x, k - 1)
<1>1. Digits(B, x, n) \in [1..n -> 0..B - 1]
  BY ByteBase, DigitsTyped
<1>2. \A k \in 1..n : Digits(B, x, n)[k] = Digit(B, x, k - 1)
  BY ByteBase, DigitsTyped
<1> QED
  BY <1>1, <1>2 DEF LittleBytes, Lane, Bytes

LEMMA FromLittleBytes ==
    ASSUME NEW n \in Nat, NEW x, Fits(x, n)
    PROVE  FromBytes(LittleBytes(x, n)) = x
<1>1. x \in Nat /\ x < Power(B, n)
  BY DEF Fits
<1>2. PICK p \in Nat \ {0} : p = Power(B, n)
  BY ByteBase, PowerPositive
<1>3. Number(B, Digits(B, x, n)) = x % p
  BY <1>1, <1>2, ByteBase, NumberOfDigits
<1>4. x % p = x
  BY <1>1, <1>2, ModOfSmall
<1> QED
  BY <1>3, <1>4 DEF FromBytes, LittleBytes

LEMMA LittleBytesOf ==
    ASSUME NEW n \in Nat, NEW d \in Bytes(n)
    PROVE  Fits(FromBytes(d), n) /\ LittleBytes(FromBytes(d), n) = d
<1>1. d \in [1..n -> 0..B - 1]
  BY DEF Bytes
<1>2. /\ Number(B, d) \in Nat /\ Number(B, d) < Power(B, n)
      /\ Digits(B, Number(B, d), n) = d
  BY <1>1, ByteBase, DigitsOfNumber
<1> QED
  BY <1>2 DEF Fits, FromBytes, LittleBytes

LEMMA SameBytes ==
    ASSUME NEW n \in Nat, NEW x, NEW y, Fits(x, n), Fits(y, n),
           LittleBytes(x, n) = LittleBytes(y, n)
    PROVE  x = y
<1>1. FromBytes(LittleBytes(x, n)) = x /\ FromBytes(LittleBytes(y, n)) = y
  BY FromLittleBytes
<1> QED
  BY <1>1

LEMMA ReverseBytes ==
    ASSUME NEW n \in Nat, NEW d \in Bytes(n)
    PROVE  /\ Reverse(d) \in Bytes(n) /\ Reverse(Reverse(d)) = d
           /\ \A k \in 1..n : Reverse(d)[k] = d[n + 1 - k]
<1>1. d \in [1..n -> 0..B - 1]
  BY DEF Bytes
<1>2. ASSUME NEW e \in [1..n -> 0..B - 1]
      PROVE  /\ Reverse(e) \in [1..n -> 0..B - 1]
             /\ \A k \in 1..n : Reverse(e)[k] = e[n + 1 - k]
  <2>1. Len(e) = n
    BY LenOfString
  <2>2. Reverse(e) = [k \in 1..n |-> e[(n - k) + 1]]
    BY <2>1 DEF Reverse
  <2>3. \A k \in 1..n : (n - k) + 1 = n + 1 - k /\ n + 1 - k \in 1..n
    OBVIOUS
  <2> QED
    BY <2>2, <2>3
<1>3. PICK r \in [1..n -> 0..B - 1] : r = Reverse(d)
  BY <1>1, <1>2
<1>4. ASSUME NEW k \in 1..n PROVE Reverse(r)[k] = d[k]
  <2>1. n + 1 - k \in 1..n /\ n + 1 - (n + 1 - k) = k
    OBVIOUS
  <2>2. Reverse(r)[k] = r[n + 1 - k]
    BY <1>2
  <2>3. r[n + 1 - k] = d[n + 1 - (n + 1 - k)]
    BY <1>1, <1>2, <1>3, <2>1
  <2> QED
    BY <2>1, <2>2, <2>3
<1>5. Reverse(r) \in [1..n -> 0..B - 1]
  BY <1>2
<1>6. Reverse(r) = d
  BY <1>1, <1>4, <1>5
<1> QED
  BY <1>1, <1>2, <1>3, <1>6 DEF Bytes

LEMMA SwappedBytes ==
    ASSUME NEW n \in Nat, NEW x, Fits(x, n)
    PROVE  /\ Fits(byteswap(x, n), n)
           /\ LittleBytes(byteswap(x, n), n) = Reverse(LittleBytes(x, n))
<1>1. LittleBytes(x, n) \in Bytes(n)
  BY BytesOf DEF Fits
<1>2. Reverse(LittleBytes(x, n)) \in Bytes(n)
  BY <1>1, ReverseBytes
<1> QED
  BY <1>2, LittleBytesOf DEF byteswap

LEMMA SwapTwice ==
    ASSUME NEW n \in Nat, NEW x, Fits(x, n)
    PROVE  byteswap(byteswap(x, n), n) = x
<1>1. LittleBytes(x, n) \in Bytes(n)
  BY BytesOf DEF Fits
<1>2. Reverse(Reverse(LittleBytes(x, n))) = LittleBytes(x, n)
  BY <1>1, ReverseBytes
<1>3. Reverse(LittleBytes(byteswap(x, n), n)) = LittleBytes(x, n)
  BY <1>2, SwappedBytes
<1> QED
  BY <1>3, FromLittleBytes DEF byteswap

LEMMA InOrderTyped ==
    ASSUME NEW n \in Nat, NEW x, Fits(x, n), NEW order \in Orders
    PROVE  InOrder(order, x, n) \in Bytes(n)
<1>1. LittleBytes(x, n) \in Bytes(n)
  BY BytesOf DEF Fits
<1> QED
  BY <1>1, ReverseBytes DEF InOrder

(* Bytes in one order are the bytes of the swapped integer in the other. *)
LEMMA InOtherOrder ==
    ASSUME NEW n \in Nat, NEW x, Fits(x, n), NEW o \in Orders, NEW p \in Orders, o # p
    PROVE  InOrder(o, x, n) = InOrder(p, byteswap(x, n), n)
<1>1. LittleBytes(x, n) \in Bytes(n)
  BY BytesOf DEF Fits
<1>2. Reverse(Reverse(LittleBytes(x, n))) = LittleBytes(x, n)
  BY <1>1, ReverseBytes
<1>3. LittleBytes(byteswap(x, n), n) = Reverse(LittleBytes(x, n))
  BY SwappedBytes
<1>4. CASE o = "le" /\ p = "be"
  BY <1>2, <1>3, <1>4 DEF InOrder
<1>5. CASE o = "be" /\ p = "le"
  BY <1>3, <1>5 DEF InOrder
<1> QED
  BY <1>4, <1>5 DEF Orders

--------------------------------------------------------------------------
(* The generic conversions are the byte swaps. *)

LEMMA FourBytes ==
    ASSUME NEW d \in Bytes(4)
    PROVE  FromBytes(d) = d[1] + d[2] * B + d[3] * B * B + d[4] * B * B * B
<1>1. PICK v \in [0..4 -> Nat] : RunningValues(B, d, 4, v) /\ Number(B, d) = v[4]
  BY ByteBase, NumberIs DEF Bytes
<1>2. B \in Nat
  BY ByteBase
<1>3. Power(B, 0) = 1 /\ Power(B, 1) = B /\ Power(B, 2) = B * B /\ Power(B, 3) = B * (B * B)
  <2>1. Power(B, 0) = 1
    BY <1>2, PowerZero
  <2>2. Power(B, 0 + 1) = B * Power(B, 0)
    BY <1>2, PowerNext
  <2>3. Power(B, 1) = B
    BY <1>2, <2>1, <2>2
  <2>4. Power(B, 1 + 1) = B * Power(B, 1)
    BY <1>2, PowerNext
  <2>5. Power(B, 2) = B * B
    BY <2>3, <2>4
  <2>6. Power(B, 2 + 1) = B * Power(B, 2)
    BY <1>2, PowerNext
  <2>7. Power(B, 3) = B * (B * B)
    BY <2>5, <2>6
  <2> QED
    BY <2>1, <2>3, <2>5, <2>7
<1>4. v[0] = 0 /\ \A k \in 1..4 : v[k] = v[k - 1] + d[k] * Power(B, k - 1)
  BY <1>1 DEF RunningValues
<1>5. PICK d1 \in Nat, d2 \in Nat, d3 \in Nat, d4 \in Nat :
         d1 = d[1] /\ d2 = d[2] /\ d3 = d[3] /\ d4 = d[4]
  BY <1>2 DEF Bytes
<1>6. v[1] = v[0] + d[1] * Power(B, 0)
  BY <1>4
<1>7. v[2] = v[1] + d[2] * Power(B, 1)
  BY <1>4
<1>8. v[3] = v[2] + d[3] * Power(B, 2)
  BY <1>4
<1>9. v[4] = v[3] + d[4] * Power(B, 3)
  BY <1>4
<1>10. v[1] = d1
  BY <1>3, <1>4, <1>5, <1>6
<1>11. v[4] = d1 + d2 * B + d3 * (B * B) + d4 * (B * (B * B))
  BY <1>3, <1>5, <1>7, <1>8, <1>9, <1>10
<1>12. d3 * B * B = d3 * (B * B) /\ d4 * B * B * B = d4 * (B * (B * B))
  BY <1>2
<1> QED
  BY <1>1, <1>5, <1>11, <1>12 DEF FromBytes

LEMMA Swap32 ==
    ASSUME NEW x, Fits(x, 4)
    PROVE  generic_swap32(x) = byteswap(x, 4)
<1> DEFINE d == LittleBytes(x, 4)
           r == Reverse(d)
<1>1. x \in Nat /\ 4 \in Nat
  BY DEF Fits
<1>2. d \in Bytes(4)
  BY <1>1, BytesOf
<1>3. d[1] = Lane(x, 0) /\ d[2] = Lane(x, 1) /\ d[3] = Lane(x, 2) /\ d[4] = Lane(x, 3)
  <2>1. \A k \in 1..4 : d[k] = Lane(x, k - 1)
    BY <1>1, BytesOf
  <2> QED
    BY <2>1
<1> HIDE DEF d
<1>4. r \in Bytes(4) /\ \A k \in 1..4 : r[k] = d[4 + 1 - k]
  BY <1>1, <1>2, ReverseBytes
<1>5. r[1] = d[4] /\ r[2] = d[3] /\ r[3] = d[2] /\ r[4] = d[1]
  BY <1>4
<1>6. FromBytes(r) = r[1] + r[2] * B + r[3] * B * B + r[4] * B * B * B
  BY <1>4, FourBytes
<1> QED
  BY <1>3, <1>5, <1>6 DEF generic_swap32, byteswap, d

(* Two halves of n bytes make an integer of 2n. *)
LEMMA Halves ==
    ASSUME NEW n \in Nat, NEW x, Fits(x, n + n)
    PROVE  /\ Fits(x % Power(B, n), n) /\ Fits(x \div Power(B, n), n)
           /\ x = (x \div Power(B, n)) * Power(B, n) + (x % Power(B, n))
  BY ByteBase, TwoHalves DEF Fits

LEMMA Joined ==
    ASSUME NEW n \in Nat, NEW u, Fits(u, n), NEW w, Fits(w, n)
    PROVE  /\ Fits(u * Power(B, n) + w, n + n)
           /\ (u * Power(B, n) + w) \div Power(B, n) = u
           /\ (u * Power(B, n) + w) % Power(B, n) = w
  BY ByteBase, HalvesJoined DEF Fits

(* The low bytes of an integer are those of its lower half, and so on. *)
LEMMA BytesOfHalves ==
    ASSUME NEW n \in Nat, NEW x, Fits(x, n + n), NEW k \in 1..n
    PROVE  /\ LittleBytes(x, n + n)[k] = LittleBytes(x % Power(B, n), n)[k]
           /\ LittleBytes(x, n + n)[n + k] = LittleBytes(x \div Power(B, n), n)[k]
<1>1. /\ x \in Nat /\ x % Power(B, n) \in Nat /\ x \div Power(B, n) \in Nat
  BY Halves DEF Fits
<1>2. n + n \in Nat /\ k - 1 \in Nat /\ k - 1 < n /\ k \in 1..n + n /\ n + k \in 1..n + n
  OBVIOUS
<1>3. /\ LittleBytes(x, n + n)[k] = Lane(x, k - 1)
      /\ LittleBytes(x, n + n)[n + k] = Lane(x, (n + k) - 1)
  BY <1>1, <1>2, BytesOf
<1>4. /\ LittleBytes(x % Power(B, n), n)[k] = Lane(x % Power(B, n), k - 1)
      /\ LittleBytes(x \div Power(B, n), n)[k] = Lane(x \div Power(B, n), k - 1)
  BY <1>1, BytesOf
<1>5. Digit(B, x % Power(B, n), k - 1) = Digit(B, x, k - 1)
  BY <1>1, <1>2, ByteBase, DigitBelow
<1>6. Digit(B, x \div Power(B, n), k - 1) = Digit(B, x, n + (k - 1))
  BY <1>1, <1>2, ByteBase, DigitAbove
<1>7. n + (k - 1) = (n + k) - 1
  OBVIOUS
<1> QED
  BY <1>3, <1>4, <1>5, <1>6, <1>7 DEF Lane

(* A swap exchanges the halves and swaps each. *)
LEMMA SwapHalves ==
    ASSUME NEW n \in Nat, NEW x, Fits(x, n + n)
    PROVE  byteswap(x, n + n) = byteswap(x % Power(B, n), n) * Power(B, n)
                                  + byteswap(x \div Power(B, n), n)
<1> DEFINE lo == x % Power(B, n)
           hi == x \div Power(B, n)
           u == byteswap(lo, n)
           w == byteswap(hi, n)
           y == u * Power(B, n) + w
<1>0. n + n \in Nat
  OBVIOUS
<1>1. Fits(lo, n) /\ Fits(hi, n)
  BY Halves
<1>2. /\ Fits(u, n) /\ LittleBytes(u, n) = Reverse(LittleBytes(lo, n))
      /\ Fits(w, n) /\ LittleBytes(w, n) = Reverse(LittleBytes(hi, n))
  BY <1>1, SwappedBytes
<1>3. Fits(y, n + n) /\ y \div Power(B, n) = u /\ y % Power(B, n) = w
  BY <1>2, Joined
<1>a. /\ LittleBytes(lo, n) \in Bytes(n) /\ LittleBytes(hi, n) \in Bytes(n)
      /\ LittleBytes(x, n + n) \in Bytes(n + n) /\ LittleBytes(y, n + n) \in Bytes(n + n)
  BY <1>0, <1>1, <1>3, BytesOf DEF Fits
<1>4. \A k \in 1..n : /\ LittleBytes(x, n + n)[k] = LittleBytes(lo, n)[k]
                      /\ LittleBytes(x, n + n)[n + k] = LittleBytes(hi, n)[k]
  BY BytesOfHalves
<1>5. \A k \in 1..n : /\ LittleBytes(y, n + n)[k] = LittleBytes(w, n)[k]
                      /\ LittleBytes(y, n + n)[n + k] = LittleBytes(u, n)[k]
  BY <1>3, BytesOfHalves
<1> HIDE DEF lo, hi, u, w, y
<1>6. /\ \A k \in 1..n : LittleBytes(u, n)[k] = LittleBytes(lo, n)[n + 1 - k]
      /\ \A k \in 1..n : LittleBytes(w, n)[k] = LittleBytes(hi, n)[n + 1 - k]
  BY <1>2, <1>a, ReverseBytes
<1>7. \A k \in 1..n + n : Reverse(LittleBytes(x, n + n))[k] = LittleBytes(x, n + n)[n + n + 1 - k]
  BY <1>0, <1>a, ReverseBytes
<1>8. ASSUME NEW k \in 1..n + n
      PROVE  LittleBytes(y, n + n)[k] = Reverse(LittleBytes(x, n + n))[k]
  <2>1. CASE k <= n
    <3>1. k \in 1..n /\ n + 1 - k \in 1..n /\ n + n + 1 - k = n + (n + 1 - k)
      BY <2>1
    <3>2. LittleBytes(y, n + n)[k] = LittleBytes(hi, n)[n + 1 - k]
      BY <1>5, <1>6, <3>1
    <3>3. LittleBytes(x, n + n)[n + (n + 1 - k)] = LittleBytes(hi, n)[n + 1 - k]
      BY <1>4, <3>1
    <3> QED
      BY <1>7, <3>1, <3>2, <3>3
  <2>2. CASE n < k
    <3>1. PICK j \in 1..n : k = n + j
      <4>1. k - n \in 1..n /\ k = n + (k - n)
        BY <2>2
      <4> QED
        BY <4>1
    <3>2. n + 1 - j \in 1..n /\ n + n + 1 - k = n + 1 - j
      BY <3>1
    <3>3. LittleBytes(y, n + n)[k] = LittleBytes(lo, n)[n + 1 - j]
      BY <1>5, <1>6, <3>1
    <3>4. LittleBytes(x, n + n)[n + 1 - j] = LittleBytes(lo, n)[n + 1 - j]
      BY <1>4, <3>2
    <3> QED
      BY <1>7, <3>2, <3>3, <3>4
  <2> QED
    BY <2>1, <2>2
<1>9. LittleBytes(y, n + n) = Reverse(LittleBytes(x, n + n))
  <2>1. Reverse(LittleBytes(x, n + n)) \in Bytes(n + n)
    BY <1>0, <1>a, ReverseBytes
  <2> QED
    BY <1>8, <1>a, <2>1 DEF Bytes
<1>10. FromBytes(LittleBytes(y, n + n)) = y
  BY <1>0, <1>3, FromLittleBytes
<1>11. byteswap(x, n + n) = y
  BY <1>9, <1>10 DEF byteswap
<1> QED
  BY <1>11 DEF y, u, w, lo, hi

LEMMA Swap64 ==
    ASSUME NEW x, Fits(x, 8), NEW h, h.order = "le"
    PROVE  generic_swap64(h, x) = byteswap(x, 8)
<1> DEFINE lo == x % Power(B, 4)
           hi == x \div Power(B, 4)
<1>1. 4 \in Nat /\ 4 + 4 = 8 /\ Fits(x, 4 + 4)
  OBVIOUS
<1>2. Fits(lo, 4) /\ Fits(hi, 4)
  BY <1>1, Halves
<1>3. byteswap(x, 8) = byteswap(lo, 4) * Power(B, 4) + byteswap(hi, 4)
  BY <1>1, SwapHalves
<1>4. htobe32(h, lo) = byteswap(lo, 4) /\ htobe32(h, hi) = byteswap(hi, 4)
  <2>1. generic_swap32(lo) = byteswap(lo, 4)
    BY <1>2, Swap32
  <2>2. generic_swap32(hi) = byteswap(hi, 4)
    BY <1>2, Swap32
  <2> QED
    BY <2>1, <2>2 DEF htobe32
<1>5. generic_swap64(h, x) = htobe32(h, lo) * Power(B, 4) + htobe32(h, hi)
  BY DEF generic_swap64
<1> HIDE DEF lo, hi
<1> QED
  BY <1>3, <1>4, <1>5

(* What htole64 of the big-endian branch does, it undoes. *)
LEMMA ExchangeTwice ==
    ASSUME NEW x, Fits(x, 8), NEW h, h.order = "be", NEW g, g.order = "be"
    PROVE  Fits(generic_swap64(h, x), 8) /\ generic_swap64(g, generic_swap64(h, x)) = x
<1> DEFINE lo == x % Power(B, 4)
           hi == x \div Power(B, 4)
           y == lo * Power(B, 4) + hi
<1>1. 4 \in Nat /\ 4 + 4 = 8 /\ Fits(x, 4 + 4)
  OBVIOUS
<1>2. Fits(lo, 4) /\ Fits(hi, 4) /\ x = hi * Power(B, 4) + lo
  BY <1>1, Halves
<1>3. Fits(y, 8) /\ y \div Power(B, 4) = lo /\ y % Power(B, 4) = hi
  BY <1>1, <1>2, Joined
<1>4. generic_swap64(h, x) = y
  BY DEF generic_swap64, htobe32
<1>5. generic_swap64(g, y) = (y % Power(B, 4)) * Power(B, 4) + (y \div Power(B, 4))
  BY DEF generic_swap64, htobe32
<1> HIDE DEF lo, hi, y
<1> QED
  BY <1>2, <1>3, <1>4, <1>5

--------------------------------------------------------------------------
(* Conversions, stores and loads of up to 8 bytes. *)

WordSizes == {2, 4, 8}

LEMMA Converts ==
    ASSUME NEW h \in Hosts, NEW o \in Orders, NEW n \in WordSizes \cap Sizes(h),
           NEW x, Fits(x, n), ~Misplaces(h, o, n)
    PROVE  convert(h, o, x, n) = IF h.order = o THEN x ELSE byteswap(x, n)
<1>1. h.order \in Orders
  BY DEF Hosts
<1>2. CASE h.order = o
  BY <1>2 DEF convert, generic_convert, system_convert
<1>3. CASE h.order # o /\ h.branch # "generic"
  BY <1>3 DEF convert, system_convert
<1>4. CASE h.order # o /\ h.branch = "generic"
  <2>1. n = 4 \/ n = 8
    BY <1>4 DEF Sizes, WordSizes
  <2>2. CASE n = 4
    <3>1. generic_swap32(x) = byteswap(x, n)
      BY <2>2, Swap32
    <3> QED
      BY <1>4, <2>2, <3>1 DEF convert, generic_convert
  <2>3. CASE n = 8
    <3>1. h.order = "le"
      BY <1>1, <1>4, <2>3 DEF Misplaces, Orders
    <3>2. generic_swap64(h, x) = byteswap(x, n)
      BY <2>3, <3>1, Swap64
    <3> QED
      BY <1>4, <2>3, <3>2 DEF convert, generic_convert
  <2> QED
    BY <2>1, <2>2, <2>3
<1> QED
  BY <1>2, <1>3, <1>4

(* A right store puts the bytes in the chosen order. *)
LEMMA StoredBytes ==
    ASSUME NEW h \in Hosts, NEW o \in Orders, NEW n \in WordSizes \cap Sizes(h),
           NEW x, Fits(x, n), ~Misplaces(h, o, n)
    PROVE  InMemory(h, convert(h, o, x, n), n) = InOrder(o, x, n)
<1>1. n \in Nat /\ h.order \in Orders
  BY DEF Hosts, WordSizes
<1>2. convert(h, o, x, n) = IF h.order = o THEN x ELSE byteswap(x, n)
  BY Converts
<1>3. \A y : InMemory(h, y, n) = InOrder(h.order, y, n)
  BY DEF InMemory, InOrder
<1>4. CASE h.order = o
  BY <1>2, <1>3, <1>4
<1>5. CASE h.order # o
  <2>1. InOrder(o, x, n) = InOrder(h.order, byteswap(x, n), n)
    BY <1>1, <1>5, InOtherOrder
  <2> QED
    BY <1>2, <1>3, <1>5, <2>1
<1> QED
  BY <1>4, <1>5

(* The n bytes of m from at on are d. *)
Holds(m, at, d, n) == \A k \in 1..n : m[at + k - 1] = d[k]

(* An integer in the buffer, as the host that reads it finds it. *)
LEMMA CopiedNumber ==
    ASSUME NEW h \in Hosts, NEW m, NEW at, NEW n \in Nat, NEW d \in Bytes(n),
           Holds(m, at, d, n)
    PROVE  Copied(h, m, at, n) = FromBytes(IF h.order = "le" THEN d ELSE Reverse(d))
<1>1. d = [k \in 1..n |-> d[k]]
  BY DEF Bytes
<1>2. [k \in 1..n |-> m[at + k - 1]] = d
  BY <1>1 DEF Holds
<1> QED
  BY <1>2 DEF Copied

LEMMA CopiedBack ==
    ASSUME NEW h \in Hosts, NEW m, NEW at, NEW n \in Nat, NEW x, Fits(x, n),
           Holds(m, at, InMemory(h, x, n), n)
    PROVE  Copied(h, m, at, n) = x
<1>1. LittleBytes(x, n) \in Bytes(n)
  BY BytesOf DEF Fits
<1>2. Reverse(LittleBytes(x, n)) \in Bytes(n) /\ Reverse(Reverse(LittleBytes(x, n))) = LittleBytes(x, n)
  BY <1>1, ReverseBytes
<1>3. InMemory(h, x, n) \in Bytes(n)
  BY <1>1, <1>2 DEF InMemory
<1>4. (IF h.order = "le" THEN InMemory(h, x, n) ELSE Reverse(InMemory(h, x, n))) = LittleBytes(x, n)
  BY <1>2 DEF InMemory
<1> QED
  BY <1>3, <1>4, CopiedNumber, FromLittleBytes

(* A right load finds the number whose bytes are there in its order. *)
LEMMA LoadedNumber ==
    ASSUME NEW h \in Hosts, NEW o \in Orders, NEW n \in WordSizes \cap Sizes(h),
           NEW x, Fits(x, n), ~Misplaces(h, o, n),
           NEW m, NEW at, Holds(m, at, InOrder(o, x, n), n)
    PROVE  load(h, m, at, o, n) = x
<1> DEFINE y == convert(h, o, x, n)
<1>1. n \in Nat /\ h.order \in Orders
  BY DEF Hosts, WordSizes
<1>2. y = IF h.order = o THEN x ELSE byteswap(x, n)
  BY Converts
<1>3. Fits(y, n)
  BY <1>1, <1>2, SwappedBytes
<1>4. InMemory(h, y, n) = InOrder(o, x, n)
  BY StoredBytes
<1> HIDE DEF y
<1>5. Copied(h, m, at, n) = y
  BY <1>1, <1>3, <1>4, CopiedBack
<1>6. convert(h, o, y, n) = IF h.order = o THEN y ELSE byteswap(y, n)
  BY <1>3, Converts
<1>7. convert(h, o, y, n) = x
  BY <1>1, <1>2, <1>6, SwapTwice
<1> QED
  BY <1>5, <1>7 DEF load

(* The wrong conversion, in the store and in the load, undoes itself. *)
LEMMA MisplacedTwice ==
    ASSUME NEW h \in Hosts, NEW g \in Hosts, NEW o \in Orders, NEW x, Fits(x, 8),
           Misplaces(h, o, 8), Misplaces(g, o, 8),
           NEW m, NEW at, Holds(m, at, InMemory(h, convert(h, o, x, 8), 8), 8)
    PROVE  load(g, m, at, o, 8) = x
<1> DEFINE y == generic_swap64(h, x)
<1>1. /\ h.order = "be" /\ h.branch = "generic" /\ o = "le"
      /\ g.order = "be" /\ g.branch = "generic"
  BY DEF Misplaces
<1>2. convert(h, o, x, 8) = y
  BY <1>1 DEF convert, generic_convert
<1>3. Fits(y, 8) /\ generic_swap64(g, y) = x
  BY <1>1, ExchangeTwice
<1> HIDE DEF y
<1>4. InMemory(g, y, 8) = InMemory(h, y, 8)
  BY <1>1 DEF InMemory
<1>5. Copied(g, m, at, 8) = y
  <2>1. 8 \in Nat /\ Holds(m, at, InMemory(g, y, 8), 8)
    BY <1>2, <1>4
  <2> QED
    BY <1>3, <2>1, CopiedBack
<1>6. convert(g, o, y, 8) = generic_swap64(g, y)
  BY <1>1 DEF convert, generic_convert
<1> QED
  BY <1>3, <1>5, <1>6 DEF load

LEMMA ConvertFits ==
    ASSUME NEW h \in Hosts, NEW o \in Orders, NEW n \in WordSizes \cap Sizes(h),
           NEW x, Fits(x, n)
    PROVE  Fits(convert(h, o, x, n), n)
<1>1. n \in Nat /\ Fits(byteswap(x, n), n)
  BY SwappedBytes DEF WordSizes
<1>2. CASE ~Misplaces(h, o, n)
  BY <1>1, <1>2, Converts
<1>3. CASE Misplaces(h, o, n)
  <2>1. n = 8 /\ h.order = "be" /\ o = "le" /\ h.branch = "generic"
    BY <1>3 DEF Misplaces, WordSizes
  <2>2. Fits(generic_swap64(h, x), 8)
    BY <2>1, ExchangeTwice
  <2> QED
    BY <2>1, <2>2 DEF convert, generic_convert
<1> QED
  BY <1>2, <1>3

IsBuffer(m) == m = [k \in 0..15 |-> m[k]]

LEMMA OverwrittenAt ==
    ASSUME NEW m, IsBuffer(m), NEW n \in Nat, NEW at \in Nat, at + n <= 16, NEW d \in Bytes(n)
    PROVE  /\ IsBuffer(Overwritten(m, at, d))
           /\ Holds(Overwritten(m, at, d), at, d, n)
           /\ \A k \in 0..15 : k < at \/ k >= at + n => Overwritten(m, at, d)[k] = m[k]
<1>1. Len(d) = n
  BY LenOfString DEF Bytes
<1>2. DOMAIN m = 0..15
  BY DEF IsBuffer
<1>3. Overwritten(m, at, d) =
         [k \in 0..15 |-> IF k - at \in 0..n - 1 THEN d[k - at + 1] ELSE m[k]]
  BY <1>1, <1>2 DEF Overwritten
<1>4. IsBuffer(Overwritten(m, at, d))
  BY <1>3 DEF IsBuffer
<1>5. ASSUME NEW k \in 1..n PROVE Overwritten(m, at, d)[at + k - 1] = d[k]
  <2>1. at + k - 1 \in 0..15 /\ at + k - 1 - at \in 0..n - 1 /\ at + k - 1 - at + 1 = k
    OBVIOUS
  <2> QED
    BY <1>3, <2>1
<1>6. ASSUME NEW k \in 0..15, k < at \/ k >= at + n PROVE Overwritten(m, at, d)[k] = m[k]
  <2>1. k - at \notin 0..n - 1
    BY <1>6
  <2> QED
    BY <1>3, <2>1
<1> QED
  BY <1>4, <1>5, <1>6 DEF Holds

LEMMA StoreWord ==
    ASSUME NEW h \in Hosts, NEW o \in Orders, NEW n \in WordSizes \cap Sizes(h),
           NEW x, Fits(x, n), NEW m, IsBuffer(m), NEW at \in Nat, at + n <= 16
    PROVE  /\ IsBuffer(store(h, m, at, o, x, n))
           /\ Holds(store(h, m, at, o, x, n), at, InMemory(h, convert(h, o, x, n), n), n)
           /\ \A k \in 0..15 : k < at \/ k >= at + n => store(h, m, at, o, x, n)[k] = m[k]
<1> DEFINE y == convert(h, o, x, n)
           d == InMemory(h, y, n)
<1>1. n \in Nat
  BY DEF WordSizes
<1>2. Fits(y, n)
  BY ConvertFits
<1>3. LittleBytes(y, n) \in Bytes(n)
  BY <1>1, <1>2, BytesOf DEF Fits
<1>4. d \in Bytes(n)
  BY <1>1, <1>3, ReverseBytes DEF InMemory
<1>5. store(h, m, at, o, x, n) = Overwritten(m, at, d)
  BY DEF store
<1> HIDE DEF y, d
<1>6. /\ IsBuffer(Overwritten(m, at, d)) /\ Holds(Overwritten(m, at, d), at, d, n)
      /\ \A k \in 0..15 : k < at \/ k >= at + n => Overwritten(m, at, d)[k] = m[k]
  BY <1>1, <1>4, OverwrittenAt
<1> QED
  BY <1>5, <1>6 DEF d, y

--------------------------------------------------------------------------
(* 128 bits: the words at the lower and at the higher address. *)

First(o, x) == IF o = "le" THEN x % Power(B, 8) ELSE x \div Power(B, 8)
Second(o, x) == IF o = "le" THEN x \div Power(B, 8) ELSE x % Power(B, 8)

LEMMA WordsOf ==
    ASSUME NEW x, Fits(x, 16), NEW o \in Orders
    PROVE  /\ Fits(First(o, x), 8) /\ Fits(Second(o, x), 8)
           /\ x = (IF o = "le" THEN Second(o, x) * Power(B, 8) + First(o, x)
                   ELSE First(o, x) * Power(B, 8) + Second(o, x))
<1>1. 8 \in Nat /\ 8 + 8 = 16 /\ Fits(x, 8 + 8)
  OBVIOUS
<1>2. /\ Fits(x % Power(B, 8), 8) /\ Fits(x \div Power(B, 8), 8)
      /\ x = (x \div Power(B, 8)) * Power(B, 8) + (x % Power(B, 8))
  BY <1>1, Halves
<1> QED
  BY <1>2 DEF First, Second

LEMMA InOrderWords ==
    ASSUME NEW x, Fits(x, 16), NEW o \in Orders, NEW k \in 1..8
    PROVE  /\ InOrder(o, x, 16)[k] = InOrder(o, First(o, x), 8)[k]
           /\ InOrder(o, x, 16)[8 + k] = InOrder(o, Second(o, x), 8)[k]
<1> DEFINE lo == x % Power(B, 8)
           hi == x \div Power(B, 8)
<1>1. 8 \in Nat /\ 16 \in Nat /\ 8 + 8 = 16 /\ Fits(x, 8 + 8)
  OBVIOUS
<1>2. \A j \in 1..8 : /\ LittleBytes(x, 16)[j] = LittleBytes(lo, 8)[j]
                      /\ LittleBytes(x, 16)[8 + j] = LittleBytes(hi, 8)[j]
  BY <1>1, BytesOfHalves
<1>3. Fits(lo, 8) /\ Fits(hi, 8)
  BY <1>1, Halves
<1>4. /\ LittleBytes(x, 16) \in Bytes(16)
      /\ LittleBytes(lo, 8) \in Bytes(8) /\ LittleBytes(hi, 8) \in Bytes(8)
  BY <1>1, <1>3, BytesOf DEF Fits
<1>5. CASE o = "le"
  BY <1>2, <1>5 DEF InOrder, First, Second
<1>6. CASE o # "le"
  <2>1. 8 + k \in 1..16 /\ k \in 1..16 /\ 9 - k \in 1..8
        /\ 16 + 1 - k = 8 + (9 - k) /\ 16 + 1 - (8 + k) = 9 - k /\ 8 + 1 - k = 9 - k
    OBVIOUS
  <2>2. /\ Reverse(LittleBytes(x, 16))[k] = LittleBytes(x, 16)[16 + 1 - k]
        /\ Reverse(LittleBytes(x, 16))[8 + k] = LittleBytes(x, 16)[16 + 1 - (8 + k)]
    BY <1>1, <1>4, <2>1, ReverseBytes
  <2>3. /\ Reverse(LittleBytes(hi, 8))[k] = LittleBytes(hi, 8)[8 + 1 - k]
        /\ Reverse(LittleBytes(lo, 8))[k] = LittleBytes(lo, 8)[8 + 1 - k]
    BY <1>1, <1>4, ReverseBytes
  <2>4. /\ LittleBytes(x, 16)[8 + (9 - k)] = LittleBytes(hi, 8)[9 - k]
        /\ LittleBytes(x, 16)[9 - k] = LittleBytes(lo, 8)[9 - k]
    BY <1>2, <2>1
  <2>5. /\ InOrder(o, x, 16) = Reverse(LittleBytes(x, 16))
        /\ InOrder(o, First(o, x), 8) = Reverse(LittleBytes(hi, 8))
        /\ InOrder(o, Second(o, x), 8) = Reverse(LittleBytes(lo, 8))
    BY <1>6 DEF InOrder, First, Second
  <2> HIDE DEF lo, hi
  <2> QED
    BY <2>1, <2>2, <2>3, <2>4, <2>5
<1> QED
  BY <1>5, <1>6

HoldsBoth(m, d, e) == Holds(m, 0, d, 8) /\ Holds(m, 8, e, 8)

LEMMA HoldsWords ==
    ASSUME NEW x, Fits(x, 16), NEW o \in Orders, NEW m
    PROVE  Holds(m, 0, InOrder(o, x, 16), 16) <=>
               HoldsBoth(m, InOrder(o, First(o, x), 8), InOrder(o, Second(o, x), 8))
<1> DEFINE d == InOrder(o, x, 16)
           f == InOrder(o, First(o, x), 8)
           s == InOrder(o, Second(o, x), 8)
<1>1. \A k \in 1..8 : d[k] = f[k] /\ d[8 + k] = s[k]
  BY InOrderWords
<1> HIDE DEF d, f, s
<1>2. ASSUME Holds(m, 0, d, 16) PROVE HoldsBoth(m, f, s)
  <2>1. ASSUME NEW k \in 1..8 PROVE m[0 + k - 1] = f[k] /\ m[8 + k - 1] = s[k]
    <3>1. k \in 1..16 /\ 8 + k \in 1..16 /\ 0 + (8 + k) - 1 = 8 + k - 1
      OBVIOUS
    <3>2. m[0 + k - 1] = d[k] /\ m[0 + (8 + k) - 1] = d[8 + k]
      BY <1>2, <3>1 DEF Holds
    <3> QED
      BY <1>1, <3>1, <3>2
  <2> QED
    BY <2>1 DEF Holds, HoldsBoth
<1>3. ASSUME HoldsBoth(m, f, s) PROVE Holds(m, 0, d, 16)
  <2>1. ASSUME NEW k \in 1..16 PROVE m[0 + k - 1] = d[k]
    <3>1. CASE k <= 8
      <4>1. k \in 1..8
        BY <3>1
      <4> QED
        BY <1>1, <1>3, <4>1 DEF Holds, HoldsBoth
    <3>2. CASE k > 8
      <4>1. PICK j \in 1..8 : k = 8 + j
        <5>1. k - 8 \in 1..8 /\ k = 8 + (k - 8)
          BY <3>2
        <5> QED
          BY <5>1
      <4>2. m[8 + j - 1] = s[j]
        BY <1>3 DEF Holds, HoldsBoth
      <4>3. 0 + k - 1 = 8 + j - 1
        BY <4>1
      <4> QED
        BY <1>1, <4>1, <4>2, <4>3
    <3> QED
      BY <3>1, <3>2
  <2> QED
    BY <2>1 DEF Holds
<1> QED
  BY <1>2, <1>3 DEF d, f, s

Emitted(h, o, x) == InMemory(h, convert(h, o, x, 8), 8)

LEMMA EightFits ==
    ASSUME NEW h \in Hosts
    PROVE  8 \in WordSizes \cap Sizes(h) /\ Sizes(h) \subseteq {2, 4, 8, 16}
  BY DEF WordSizes, Sizes

LEMMA Store128 ==
    ASSUME NEW h \in Hosts, NEW o \in Orders, NEW x, Fits(x, 16), NEW m, IsBuffer(m)
    PROVE  /\ IsBuffer(store128(h, m, o, x))
           /\ HoldsBoth(store128(h, m, o, x), Emitted(h, o, First(o, x)),
                        Emitted(h, o, Second(o, x)))
<1> DEFINE f == First(o, x)
           s == Second(o, x)
           m1 == store(h, m, 0, o, f, 8)
           m2 == store(h, m1, 8, o, s, 8)
<1>1. Fits(f, 8) /\ Fits(s, 8)
  BY WordsOf
<1>2. store128(h, m, o, x) = m2
  <2>1. CASE o = "le"
    BY <2>1 DEF store128, First, Second
  <2>2. CASE o = "be"
    BY <2>2 DEF store128, First, Second
  <2> QED
    BY <2>1, <2>2 DEF Orders
<1> HIDE DEF f, s
<1>3. 0 \in Nat /\ 8 \in Nat /\ 0 + 8 <= 16 /\ 8 + 8 <= 16
  OBVIOUS
<1>4. IsBuffer(m1) /\ Holds(m1, 0, Emitted(h, o, f), 8)
  BY <1>1, <1>3, EightFits, StoreWord DEF Emitted
<1> HIDE DEF m1
<1>5. /\ IsBuffer(m2) /\ Holds(m2, 8, Emitted(h, o, s), 8)
      /\ \A k \in 0..15 : k < 8 \/ k >= 8 + 8 => m2[k] = m1[k]
  BY <1>1, <1>3, <1>4, EightFits, StoreWord DEF Emitted
<1> HIDE DEF m2
<1>6. Holds(m2, 0, Emitted(h, o, f), 8)
  <2>1. ASSUME NEW k \in 1..8 PROVE m2[0 + k - 1] = Emitted(h, o, f)[k]
    <3>1. 0 + k - 1 \in 0..15 /\ 0 + k - 1 < 8
      OBVIOUS
    <3>2. m2[0 + k - 1] = m1[0 + k - 1]
      BY <1>5, <3>1
    <3> QED
      BY <1>4, <3>2 DEF Holds
  <2> QED
    BY <2>1 DEF Holds
<1> QED
  BY <1>2, <1>5, <1>6 DEF HoldsBoth, f, s

(* A load of 128 bits puts the words it loads back where they belong. *)
LEMMA Load128 ==
    ASSUME NEW h \in Hosts, NEW o \in Orders, NEW x, Fits(x, 16), NEW m,
           load(h, m, 0, o, 8) = First(o, x), load(h, m, 8, o, 8) = Second(o, x)
    PROVE  load128(h, m, o) = x
<1>1. x = (IF o = "le" THEN Second(o, x) * Power(B, 8) + First(o, x)
           ELSE First(o, x) * Power(B, 8) + Second(o, x))
  BY WordsOf
<1>2. CASE o = "le"
  <2>1. load128(h, m, o) = load(h, m, 8, o, 8) * Power(B, 8) + load(h, m, 0, o, 8)
    BY <1>2 DEF load128
  <2> QED
    BY <1>1, <1>2, <2>1
<1>3. CASE o = "be"
  <2>1. load128(h, m, o) = load(h, m, 0, o, 8) * Power(B, 8) + load(h, m, 8, o, 8)
    BY <1>3 DEF load128
  <2> QED
    BY <1>1, <1>3, <2>1
<1> QED
  BY <1>2, <1>3 DEF Orders

LEMMA Loaded128 ==
    ASSUME NEW h \in Hosts, NEW o \in Orders, NEW x, Fits(x, 16), ~Misplaces(h, o, 16),
           NEW m, Holds(m, 0, InOrder(o, x, 16), 16)
    PROVE  load128(h, m, o) = x
<1>1. ~Misplaces(h, o, 8)
  BY DEF Misplaces
<1>2. Fits(First(o, x), 8) /\ Fits(Second(o, x), 8)
  BY WordsOf
<1>3. /\ Holds(m, 0, InOrder(o, First(o, x), 8), 8)
      /\ Holds(m, 8, InOrder(o, Second(o, x), 8), 8)
  BY HoldsWords DEF HoldsBoth
<1>4. load(h, m, 0, o, 8) = First(o, x)
  BY <1>1, <1>2, <1>3, EightFits, LoadedNumber
<1>5. load(h, m, 8, o, 8) = Second(o, x)
  BY <1>1, <1>2, <1>3, EightFits, LoadedNumber
<1> QED
  BY <1>4, <1>5, Load128

--------------------------------------------------------------------------
(* What the two calls leave and find, for every size. *)

Stores(h, m, o, x, n) == IF n = 16 THEN store128(h, m, o, x) ELSE store(h, m, 0, o, x, n)

Loads(h, m, o, n) ==
    IF n < 16 THEN load(h, m, 0, o, n)
    ELSE IF h.impl = "msvc" THEN msvc_load128(h, m, o)
    ELSE load128(h, m, o)

Empty == [k \in 0..15 |-> Old]

LEMMA StoresInOrder ==
    ASSUME NEW h \in Hosts, NEW o \in Orders, NEW n \in Sizes(h), NEW x, Fits(x, n),
           ~Misplaces(h, o, n)
    PROVE  Holds(Stores(h, Empty, o, x, n), 0, InOrder(o, x, n), n)
<1>0. IsBuffer(Empty)
  BY DEF IsBuffer, Empty
<1>1. CASE n = 16
  <2>1. ~Misplaces(h, o, 8)
    BY <1>1 DEF Misplaces
  <2>2. Fits(First(o, x), 8) /\ Fits(Second(o, x), 8)
    BY <1>1, WordsOf
  <2>3. Emitted(h, o, First(o, x)) = InOrder(o, First(o, x), 8)
    BY <2>1, <2>2, EightFits, StoredBytes DEF Emitted
  <2>4. Emitted(h, o, Second(o, x)) = InOrder(o, Second(o, x), 8)
    BY <2>1, <2>2, EightFits, StoredBytes DEF Emitted
  <2>5. HoldsBoth(store128(h, Empty, o, x), Emitted(h, o, First(o, x)), Emitted(h, o, Second(o, x)))
    BY <1>0, <1>1, Store128
  <2>6. Holds(store128(h, Empty, o, x), 0, InOrder(o, x, 16), 16)
    BY <1>1, <2>3, <2>4, <2>5, HoldsWords
  <2> QED
    BY <1>1, <2>6 DEF Stores
<1>2. CASE n # 16
  <2>1. n \in WordSizes \cap Sizes(h) /\ 0 \in Nat /\ 0 + n <= 16
    BY <1>2, EightFits DEF WordSizes
  <2>2. Holds(store(h, Empty, 0, o, x, n), 0, InMemory(h, convert(h, o, x, n), n), n)
    BY <1>0, <2>1, StoreWord
  <2>3. InMemory(h, convert(h, o, x, n), n) = InOrder(o, x, n)
    BY <2>1, StoredBytes
  <2> QED
    BY <1>2, <2>2, <2>3 DEF Stores
<1> QED
  BY <1>1, <1>2

LEMMA StoresNoMore ==
    ASSUME NEW h \in Hosts, NEW o \in Orders, NEW n \in Sizes(h), NEW x, Fits(x, n),
           NEW k \in n..15
    PROVE  Stores(h, Empty, o, x, n)[k] = Old
<1>0. IsBuffer(Empty)
  BY DEF IsBuffer, Empty
<1>1. n \in WordSizes \cap Sizes(h) /\ 0 \in Nat /\ 0 + n <= 16 /\ n # 16
      /\ k \in 0..15 /\ k >= 0 + n
  <2>1. n \in {2, 4, 8, 16}
    BY EightFits
  <2> QED
    BY <2>1 DEF WordSizes
<1>2. \A j \in 0..15 : j < 0 \/ j >= 0 + n => store(h, Empty, 0, o, x, n)[j] = Empty[j]
  BY <1>0, <1>1, StoreWord
<1> QED
  BY <1>1, <1>2 DEF Stores, Empty

LEMMA LoadsNumber ==
    ASSUME NEW h \in Hosts, NEW o \in Orders, NEW n \in Sizes(h), NEW x, Fits(x, n),
           ~Misplaces(h, o, n), NEW m, Holds(m, 0, InOrder(o, x, n), n)
    PROVE  Loads(h, m, o, n) = x
<1>0. n \in {2, 4, 8, 16}
  BY EightFits
<1>1. CASE n # 16
  <2>1. n \in WordSizes \cap Sizes(h) /\ n < 16
    BY <1>0, <1>1 DEF WordSizes
  <2>2. load(h, m, 0, o, n) = x
    BY <2>1, LoadedNumber
  <2> QED
    BY <2>1, <2>2 DEF Loads
<1>2. CASE n = 16 /\ ~(h.impl = "msvc" /\ o = "le")
  <2>1. load128(h, m, o) = x
    BY <1>2, Loaded128
  <2> QED
    BY <1>2, <2>1 DEF Loads, msvc_load128
<1>3. CASE n = 16 /\ h.impl = "msvc" /\ o = "le"
  <2>1. h.order = "le"
    BY <1>3 DEF Hosts
  <2>2. InMemory(h, x, 16) = InOrder(o, x, 16)
    BY <1>3, <2>1 DEF InMemory, InOrder
  <2>3. Copied(h, m, 0, 16) = x
    <3>1. 16 \in Nat
      OBVIOUS
    <3> QED
      BY <1>3, <2>2, <3>1, CopiedBack
  <2> QED
    BY <1>3, <2>3 DEF Loads, msvc_load128
<1> QED
  BY <1>1, <1>2, <1>3

LEMMA LoadsMisplaced ==
    ASSUME NEW h \in Hosts, NEW g \in Hosts, NEW o \in Orders, NEW n \in Sizes(h),
           NEW x, Fits(x, n), Misplaces(h, o, n), Misplaces(g, o, n)
    PROVE  Loads(g, Stores(h, Empty, o, x, n), o, n) = x
<1>0. IsBuffer(Empty)
  BY DEF IsBuffer, Empty
<1>1. Misplaces(h, o, 8) /\ Misplaces(g, o, 8) /\ g.impl # "msvc" /\ n \in {8, 16}
  <2>1. n \in {2, 4, 8, 16}
    BY EightFits
  <2> QED
    BY <2>1 DEF Misplaces, Hosts
<1>2. CASE n = 8
  <2>1. 0 \in Nat /\ 0 + 8 <= 16
    OBVIOUS
  <2>2. Holds(store(h, Empty, 0, o, x, 8), 0, InMemory(h, convert(h, o, x, 8), 8), 8)
    BY <1>0, <1>2, <2>1, EightFits, StoreWord
  <2>3. load(g, store(h, Empty, 0, o, x, 8), 0, o, 8) = x
    BY <1>1, <1>2, <2>2, MisplacedTwice
  <2> QED
    BY <1>2, <2>3 DEF Loads, Stores
<1>3. CASE n = 16
  <2> DEFINE m == store128(h, Empty, o, x)
  <2>1. Fits(First(o, x), 8) /\ Fits(Second(o, x), 8)
    BY <1>3, WordsOf
  <2>2. HoldsBoth(m, Emitted(h, o, First(o, x)), Emitted(h, o, Second(o, x)))
    BY <1>0, <1>3, Store128
  <2> HIDE DEF m
  <2>3. load(g, m, 0, o, 8) = First(o, x)
    BY <1>1, <2>1, <2>2, MisplacedTwice DEF HoldsBoth, Emitted
  <2>4. load(g, m, 8, o, 8) = Second(o, x)
    BY <1>1, <2>1, <2>2, MisplacedTwice DEF HoldsBoth, Emitted
  <2>5. load128(g, m, o) = x
    BY <1>3, <2>3, <2>4, Load128
  <2> QED
    BY <1>1, <1>3, <2>5 DEF Loads, Stores, m
<1> QED
  BY <1>1, <1>2, <1>3

--------------------------------------------------------------------------
(* The buffer and the result are what the two calls made them. *)

StoreMade ==
    stored # None =>
        /\ stored.order \in Orders /\ stored.size \in Sizes(sender)
        /\ Fits(stored.value, stored.size)
        /\ buf = Stores(sender, Empty, stored.order, stored.value, stored.size)

LoadMade ==
    loaded # None =>
        /\ stored # None /\ stored.size \in Sizes(receiver) /\ loaded.order \in Orders
        /\ loaded.value = Loads(receiver, buf, loaded.order, stored.size)

IInv ==
    /\ sender \in Hosts /\ receiver \in Hosts
    /\ stored = None => buf = Empty
    /\ StoreMade /\ LoadMade

LEMMA InitIInv == ASSUME TransferInit PROVE IInv
  BY DEF TransferInit, IInv, StoreMade, LoadMade, Empty

LEMMA NextIInv == ASSUME IInv, [TransferNext]_transfer PROVE IInv'
<1>1. CASE Store
  <2>1. loaded = None /\ stored = None /\ buf = Empty
    BY <1>1 DEF IInv, LoadMade, Store
  <2>2. PICK order \in Orders, n \in Sizes(sender) : \E x \in Values[n] :
           /\ buf' = Stores(sender, buf, order, x, n)
           /\ stored' = [order |-> order, size |-> n, value |-> x]
    BY <1>1, Zenon DEF Store, Stores
  <2>3. PICK x \in Values[n] :
           /\ buf' = Stores(sender, buf, order, x, n)
           /\ stored' = [order |-> order, size |-> n, value |-> x]
    BY <2>2
  <2>4. n \in {2, 4, 8, 16}
    BY EightFits DEF IInv
  <2>5. Fits(x, n)
    <3>1. Values[n] \subseteq 0..Power(B, n) - 1
      BY <2>4, ByteBounds
    <3>2. PICK p \in Nat : p = Power(B, n)
      BY <2>4, ByteBase, PowerNat
    <3> QED
      BY <3>1, <3>2 DEF Fits
  <2>6. stored'.order = order /\ stored'.size = n /\ stored'.value = x
    BY <2>3
  <2>7. stored' # None
    <3>1. None.order = "none" /\ order # "none"
      BY DEF None, Orders
    <3> QED
      BY <2>6, <3>1
  <2>8. UNCHANGED <<sender, receiver, loaded>>
    BY <1>1 DEF Store
  <2>9. StoreMade'
    BY <2>1, <2>3, <2>5, <2>6, <2>8 DEF StoreMade, Stores, Fits, Empty
  <2> QED
    BY <2>1, <2>7, <2>8, <2>9 DEF IInv, LoadMade
<1>2. CASE Load
  <2>1. PICK order \in Orders :
           loaded' = [order |-> order, value |-> Loads(receiver, buf, order, stored.size)]
    BY <1>2, Zenon DEF Load, Loads
  <2>2. loaded'.order = order /\ loaded'.value = Loads(receiver, buf, order, stored.size)
    BY <2>1
  <2>3. /\ UNCHANGED <<sender, receiver, buf, stored>>
        /\ stored # None /\ stored.size \in Sizes(receiver)
    BY <1>2 DEF Load
  <2>4. LoadMade'
    BY <2>2, <2>3 DEF LoadMade, Loads
  <2> QED
    BY <2>3, <2>4 DEF IInv, StoreMade, Stores, Fits
<1>3. CASE UNCHANGED transfer
  BY <1>3 DEF transfer, IInv, StoreMade, LoadMade, Stores, Loads, Fits
<1> QED
  BY <1>1, <1>2, <1>3 DEF TransferNext, Ended

LEMMA IInvHolds == TransferSpec => []IInv
<1>1. TransferInit => IInv
  BY InitIInv
<1>2. IInv /\ [TransferNext]_transfer => IInv'
  BY NextIInv
<1> QED
  BY <1>1, <1>2, PTL DEF TransferSpec

--------------------------------------------------------------------------
(* The bytes after a store are those of the chosen order, whichever host   *)
(* and branch of lowstar_endianness.h stored them, unless the big-endian   *)
(* htole64 did; no byte past the integer changes.                          *)
THEOREM WireOrderCorrect == TransferSpec => []WireOrder
<1>1. ASSUME IInv PROVE WireOrder
  <2> SUFFICES ASSUME stored # None
               PROVE  /\ StoreMisplaced \/ BytesStored = InOrder(stored.order, stored.value, stored.size)
                      /\ \A k \in stored.size..15 : buf[k] = Old
    BY DEF WireOrder
  <2>1. PICK o \in Orders, n \in Sizes(sender), x \in Nat :
           /\ o = stored.order /\ n = stored.size /\ x = stored.value /\ Fits(x, n)
           /\ buf = Stores(sender, Empty, o, x, n)
    BY <1>1 DEF IInv, StoreMade, Fits
  <2>2. sender \in Hosts /\ n \in Nat
    <3>1. n \in {2, 4, 8, 16}
      BY <1>1, EightFits DEF IInv
    <3> QED
      BY <1>1, <3>1 DEF IInv
  <2>3. ASSUME ~StoreMisplaced PROVE BytesStored = InOrder(o, x, n)
    <3>1. Holds(buf, 0, InOrder(o, x, n), n)
      BY <2>1, <2>2, <2>3, StoresInOrder DEF StoreMisplaced
    <3>2. InOrder(o, x, n) \in Bytes(n)
      BY <2>1, <2>2, InOrderTyped
    <3>3. ASSUME NEW k \in 1..n PROVE buf[k - 1] = InOrder(o, x, n)[k]
      <4>1. buf[0 + k - 1] = InOrder(o, x, n)[k] /\ 0 + k - 1 = k - 1
        BY <2>2, <3>1 DEF Holds
      <4> QED
        BY <4>1
    <3>4. BytesStored = [k \in 1..n |-> buf[k - 1]]
      BY <2>1 DEF BytesStored
    <3> QED
      BY <3>2, <3>3, <3>4 DEF Bytes
  <2>4. \A k \in n..15 : buf[k] = Old
    BY <2>1, <2>2, StoresNoMore
  <2> QED
    BY <2>1, <2>3, <2>4
<1> QED
  BY <1>1, IInvHolds, PTL

(* A load in the order of the store gives back the value, and one in the   *)
(* other order its bytes reversed, between any two hosts and for every     *)
(* integer; the exception is a big-endian htole64 on one side only.        *)
THEOREM ReadsBackCorrect == TransferSpec => []ReadsBack
<1>1. ASSUME IInv PROVE ReadsBack
  <2> SUFFICES ASSUME loaded # None
               PROVE  /\ loaded.order = stored.order /\ StoreMisplaced = LoadMisplaces =>
                             loaded.value = stored.value
                      /\ loaded.order # stored.order /\ ~StoreMisplaced /\ ~LoadMisplaces =>
                             loaded.value = byteswap(stored.value, stored.size)
    BY DEF ReadsBack
  <2>1. stored # None
    BY <1>1 DEF IInv, LoadMade
  <2>2. PICK o \in Orders, p \in Orders, n \in Sizes(sender) \cap Sizes(receiver), x \in Nat :
           /\ o = stored.order /\ p = loaded.order /\ n = stored.size /\ x = stored.value
           /\ Fits(x, n) /\ buf = Stores(sender, Empty, o, x, n)
           /\ loaded.value = Loads(receiver, buf, p, n)
    BY <1>1, <2>1 DEF IInv, StoreMade, LoadMade, Fits
  <2>3. sender \in Hosts /\ receiver \in Hosts /\ n \in Nat
    <3>1. n \in {2, 4, 8, 16}
      BY <1>1, EightFits DEF IInv
    <3> QED
      BY <1>1, <3>1 DEF IInv
  <2>4. /\ StoreMisplaced <=> Misplaces(sender, o, n)
        /\ LoadMisplaces <=> Misplaces(receiver, p, n)
    BY <2>2 DEF StoreMisplaced, LoadMisplaces
  <2>5. ASSUME ~Misplaces(sender, o, n) PROVE Holds(buf, 0, InOrder(o, x, n), n)
    BY <2>2, <2>3, <2>5, StoresInOrder
  <2>6. ASSUME p = o, ~Misplaces(sender, o, n), ~Misplaces(receiver, p, n)
        PROVE  loaded.value = x
    BY <2>2, <2>3, <2>5, <2>6, LoadsNumber
  <2>7. ASSUME p = o, Misplaces(sender, o, n), Misplaces(receiver, p, n)
        PROVE  loaded.value = x
    BY <2>2, <2>3, <2>7, LoadsMisplaced
  <2>8. ASSUME p # o, ~Misplaces(sender, o, n), ~Misplaces(receiver, p, n)
        PROVE  loaded.value = byteswap(x, n)
    <3>1. Fits(byteswap(x, n), n)
      BY <2>2, <2>3, SwappedBytes
    <3>2. InOrder(o, x, n) = InOrder(p, byteswap(x, n), n)
      BY <2>2, <2>3, <2>8, InOtherOrder
    <3>3. Holds(buf, 0, InOrder(p, byteswap(x, n), n), n)
      BY <2>5, <2>8, <3>2
    <3> QED
      BY <2>2, <2>3, <2>8, <3>1, <3>3, LoadsNumber
  <2>9. (StoreMisplaced = LoadMisplaces) =>
            (Misplaces(sender, o, n) <=> Misplaces(receiver, p, n))
    BY <2>4
  <2> QED
    BY <2>2, <2>4, <2>6, <2>7, <2>8, <2>9
<1> QED
  BY <1>1, IInvHolds, PTL

--------------------------------------------------------------------------
(* 128-bit integers: a word is its bits, in either direction; a masked     *)
(* comparison is a word of ones or zero; sums carry at most once, a shift  *)
(* splits a word, a product is that of four half words; and the operations *)
(* of each implementation answer what the numbers do.                      *)

--------------------------------------------------------------------------
(* Words. *)

Full == Power(2, W)       \* the number of words
Top == Power(2, W - 1)    \* the weight of the top bit
Root == Power(2, H)       \* the number of half words

LEMMA WordSizes128 ==
    /\ W \in Nat \ {0} /\ W - 1 \in Nat /\ H \in Nat \ {0} /\ W = H + H /\ H < W
    /\ Full \in Nat \ {0} /\ Top \in Nat \ {0} /\ Root \in Nat \ {0}
    /\ Full = 2 * Top /\ Full = Root * Root
<1>1. W \in Nat \ {0} /\ W - 1 \in Nat /\ W = (W - 1) + 1 /\ 2 \in Nat \ {0} /\ 2 \in Nat
  BY WordBounds
<1>2. H \in Nat \ {0} /\ W = H + H /\ H < W
  <2>1. W % 2 = 0 /\ W \in Nat \ {0}
    BY WordBounds
  <2> QED
    BY <2>1 DEF H
<1>3. Full \in Nat \ {0} /\ Top \in Nat \ {0} /\ Root \in Nat \ {0}
  BY <1>1, <1>2, PowerPositive DEF Full, Top, Root
<1>4. Full = 2 * Top
  BY <1>1, PowerNext DEF Full, Top
<1>5. Full = Root * Root
  BY <1>1, <1>2, PowerSum DEF Full, Root
<1> QED
  BY <1>1, <1>2, <1>3, <1>4, <1>5

LEMMA WordTyped == ASSUME NEW x PROVE x \in Word <=> x \in Nat /\ x < Full
<1>1. Full \in Nat \ {0}
  BY WordSizes128
<1> QED
  BY <1>1 DEF Word, Full

(* The bits of two words, and of the results of the bitwise operators. *)
LEMMA BitTyped ==
    ASSUME NEW x \in Nat, NEW k \in Nat
    PROVE  Digit(2, x, k) \in {0, 1}
<1>1. 2 \in Nat \ {0} /\ \A d : d \in 0..2 - 1 => d \in {0, 1}
  OBVIOUS
<1> QED
  BY <1>1, DigitTyped

LEMMA BitsAre ==
    ASSUME NEW x \in Nat
    PROVE  Bits(x) \in [1..2 * W -> {0, 1}] /\ \A k \in 1..2 * W : Bits(x)[k] = Digit(2, x, k - 1)
<1>1. ASSUME NEW k \in 1..2 * W PROVE Digit(2, x, k - 1) \in {0, 1}
  <2>1. k - 1 \in Nat
    BY WordSizes128
  <2> QED
    BY <2>1, BitTyped
<1> QED
  BY <1>1 DEF Bits, Digits

(* A number made of given bits. *)
LEMMA NumberOfBits ==
    ASSUME NEW d \in [1..2 * W -> {0, 1}]
    PROVE  /\ Number(2, d) \in Nat /\ Number(2, d) < Power(2, 2 * W)
           /\ \A k \in 1..2 * W : Digit(2, Number(2, d), k - 1) = d[k]
<1>1. 2 * W \in Nat /\ 2 \in Nat \ {0} /\ 0..2 - 1 = {0, 1}
  BY WordSizes128
<1>2. d \in [1..2 * W -> 0..2 - 1]
  BY <1>1
<1>3. Number(2, d) \in Nat /\ Number(2, d) < Power(2, 2 * W)
  BY <1>1, <1>2, DigitsOfNumber
<1>4. Digits(2, Number(2, d), 2 * W) = d
  BY <1>1, <1>2, DigitsOfNumber
<1>5. \A k \in 1..2 * W : Digits(2, Number(2, d), 2 * W)[k] = Digit(2, Number(2, d), k - 1)
  <2>1. PICK m \in Nat : m = Number(2, d)
    BY <1>3
  <2>2. PICK n \in Nat : n = 2 * W
    BY <1>1
  <2>3. \A k \in 1..n : Digits(2, m, n)[k] = Digit(2, m, k - 1)
    BY <1>1, DigitsTyped
  <2> QED
    BY <2>1, <2>2, <2>3
<1> QED
  BY <1>3, <1>4, <1>5

LEMMA AndBits ==
    ASSUME NEW x \in Nat, NEW y \in Nat
    PROVE  /\ x & y \in Nat /\ x & y < Power(2, 2 * W)
           /\ \A k \in 1..2 * W :
                 Digit(2, x & y, k - 1) = Digit(2, x, k - 1) * Digit(2, y, k - 1)
<1> DEFINE d == [k \in 1..2 * W |-> Bits(x)[k] * Bits(y)[k]]
<1>1. /\ Bits(x) \in [1..2 * W -> {0, 1}] /\ \A k \in 1..2 * W : Bits(x)[k] = Digit(2, x, k - 1)
      /\ Bits(y) \in [1..2 * W -> {0, 1}] /\ \A k \in 1..2 * W : Bits(y)[k] = Digit(2, y, k - 1)
  BY BitsAre
<1>2. d \in [1..2 * W -> {0, 1}]
  <2>1. \A a \in {0, 1}, b \in {0, 1} : a * b \in {0, 1}
    OBVIOUS
  <2>2. \A k \in 1..2 * W : Bits(x)[k] \in {0, 1} /\ Bits(y)[k] \in {0, 1}
    BY <1>1
  <2> QED
    BY <2>1, <2>2
<1>3. x & y = Number(2, d)
  BY DEF &
<1>4. \A k \in 1..2 * W : d[k] = Digit(2, x, k - 1) * Digit(2, y, k - 1)
  BY <1>1
<1> HIDE DEF d
<1> QED
  BY <1>2, <1>3, <1>4, NumberOfBits

LEMMA OrBits ==
    ASSUME NEW x \in Nat, NEW y \in Nat
    PROVE  /\ x | y \in Nat /\ x | y < Power(2, 2 * W)
           /\ \A k \in 1..2 * W :
                 Digit(2, x | y, k - 1) = Digit(2, x, k - 1) + Digit(2, y, k - 1)
                                            - Digit(2, x, k - 1) * Digit(2, y, k - 1)
<1> DEFINE d == [k \in 1..2 * W |-> Bits(x)[k] + Bits(y)[k] - Bits(x)[k] * Bits(y)[k]]
<1>1. /\ Bits(x) \in [1..2 * W -> {0, 1}] /\ \A k \in 1..2 * W : Bits(x)[k] = Digit(2, x, k - 1)
      /\ Bits(y) \in [1..2 * W -> {0, 1}] /\ \A k \in 1..2 * W : Bits(y)[k] = Digit(2, y, k - 1)
  BY BitsAre
<1>2. d \in [1..2 * W -> {0, 1}]
  <2>1. \A a \in {0, 1}, b \in {0, 1} : a + b - a * b \in {0, 1}
    OBVIOUS
  <2>2. \A k \in 1..2 * W : Bits(x)[k] \in {0, 1} /\ Bits(y)[k] \in {0, 1}
    BY <1>1
  <2> QED
    BY <2>1, <2>2
<1>3. x | y = Number(2, d)
  BY DEF |
<1>4. \A k \in 1..2 * W : d[k] = Digit(2, x, k - 1) + Digit(2, y, k - 1)
                                   - Digit(2, x, k - 1) * Digit(2, y, k - 1)
  BY <1>1
<1> HIDE DEF d
<1> QED
  BY <1>2, <1>3, <1>4, NumberOfBits

LEMMA XorBits ==
    ASSUME NEW x \in Nat, NEW y \in Nat
    PROVE  /\ x ^^ y \in Nat /\ x ^^ y < Power(2, 2 * W)
           /\ \A k \in 1..2 * W :
                 Digit(2, x ^^ y, k - 1) = (Digit(2, x, k - 1) + Digit(2, y, k - 1)) % 2
<1> DEFINE d == [k \in 1..2 * W |-> (Bits(x)[k] + Bits(y)[k]) % 2]
<1>1. /\ Bits(x) \in [1..2 * W -> {0, 1}] /\ \A k \in 1..2 * W : Bits(x)[k] = Digit(2, x, k - 1)
      /\ Bits(y) \in [1..2 * W -> {0, 1}] /\ \A k \in 1..2 * W : Bits(y)[k] = Digit(2, y, k - 1)
  BY BitsAre
<1>2. d \in [1..2 * W -> {0, 1}]
  <2>1. \A a \in {0, 1}, b \in {0, 1} : (a + b) % 2 \in {0, 1}
    OBVIOUS
  <2>2. \A k \in 1..2 * W : Bits(x)[k] \in {0, 1} /\ Bits(y)[k] \in {0, 1}
    BY <1>1
  <2> QED
    BY <2>1, <2>2
<1>3. x ^^ y = Number(2, d)
  BY DEF ^^
<1>4. \A k \in 1..2 * W : d[k] = (Digit(2, x, k - 1) + Digit(2, y, k - 1)) % 2
  BY <1>1
<1> HIDE DEF d
<1> QED
  BY <1>2, <1>3, <1>4, NumberOfBits

(* A number is a word when its bits from the W-th on are zeros. *)
LEMMA HighBitsOfWord ==
    ASSUME NEW x \in Word, NEW k \in Nat, k >= W
    PROVE  Digit(2, x, k) = 0
<1>1. x \in Nat /\ x < Full /\ Full \in Nat \ {0} /\ W \in Nat
  BY WordTyped, WordSizes128
<1>2. PICK j \in Nat : k = W + j
  <2>1. k - W \in Nat /\ k = W + (k - W)
    BY <1>1
  <2> QED
    BY <2>1
<1>3. PICK r \in Nat \ {0} : r = Power(2, j)
  BY PowerPositive
<1>4. Power(2, k) = Full * r
  BY <1>1, <1>2, <1>3, PowerSum DEF Full
<1>5. x < Full * r /\ Full * r \in Nat \ {0}
  <2>1. PICK e \in Nat : r = e + 1
    <3>1. r - 1 \in Nat /\ r = (r - 1) + 1
      OBVIOUS
    <3> QED
      BY <3>1
  <2>2. Full * r = Full * e + Full /\ Full * e \in Nat
    BY <1>1, <2>1
  <2>3. PICK z \in Nat : z = Full * e
    BY <2>2
  <2> QED
    BY <1>1, <2>2, <2>3
<1>6. x \div (Full * r) = 0
  BY <1>1, <1>5, ModOfSmall
<1>7. 0 % 2 = 0
  OBVIOUS
<1> QED
  BY <1>4, <1>6, <1>7 DEF Digit

LEMMA WordByBits ==
    ASSUME NEW x \in Nat, x < Power(2, 2 * W), \A k \in W..2 * W - 1 : Digit(2, x, k) = 0
    PROVE  x \in Word
<1> DEFINE q == x \div Full
<1>1. W \in Nat /\ 2 * W = W + W /\ 2 \in Nat \ {0} /\ Full \in Nat \ {0}
  BY WordSizes128
<1>2. q \in Nat /\ q < Full /\ x % Full \in Nat /\ x % Full < Full /\ x = q * Full + (x % Full)
  BY <1>1, TwoHalves DEF Full
<1>3. ASSUME NEW k \in 1..W PROVE Digit(2, q, k - 1) = Digit(2, 0, k - 1)
  <2>1. k - 1 \in Nat /\ W + (k - 1) \in W..2 * W - 1
    BY <1>1
  <2>2. Digit(2, q, k - 1) = Digit(2, x, W + (k - 1))
    BY <1>1, <2>1, DigitAbove DEF Full
  <2>3. Digit(2, 0, k - 1) = 0
    <3>2. PICK p \in Nat \ {0} : p = Power(2, k - 1)
      BY <1>1, <2>1, PowerPositive
    <3>3. 0 \div p = 0 /\ 0 % 2 = 0
      BY <3>2, ModOfSmall
    <3> QED
      BY <3>2, <3>3 DEF Digit
  <2> QED
    BY <2>1, <2>2, <2>3
<1> HIDE DEF q
<1>4. 0 \in Nat /\ 0 < Full
  BY <1>1
<1>5. q = 0
  BY <1>1, <1>2, <1>3, <1>4, SameDigits DEF Full
<1>6. x = x % Full
  BY <1>1, <1>2, <1>5
<1> QED
  BY <1>2, <1>6, WordTyped

(* Sums and differences of words wrap at most once. *)
LEMMA ModOfNegative ==
    ASSUME NEW d \in Nat \ {0}, NEW z \in Nat, z <= d, z # 0
    PROVE  (-z) % d = d - z
<1>1. PICK q \in Int, r \in Nat : -z = d * q + r /\ r < d /\ (-z) % d = r
  OBVIOUS
<1>2. d * q \in Int
  OBVIOUS
<1>3. q < 0
  BY <1>1, <1>2
<1>4. ~(q < -1)
  <2> SUFFICES ASSUME q < -1 PROVE FALSE
    OBVIOUS
  <2>1. PICK e \in Nat : q = -2 - e
    <3>1. -2 - q \in Nat /\ q = -2 - (-2 - q)
      BY <1>1
    <3> QED
      BY <3>1
  <2>2. d * q = -(d + d) - d * e /\ d * e \in Nat
    BY <2>1
  <2> QED
    BY <1>1, <2>2
<1>5. q = -1 /\ d * q = -d
  BY <1>3, <1>4
<1> QED
  BY <1>1, <1>5

LEMMA PlusIs ==
    ASSUME NEW x \in Word, NEW y \in Word
    PROVE  /\ plus(x, y) \in Word
           /\ plus(x, y) = IF x + y < Full THEN x + y ELSE x + y - Full
<1>1. x \in Nat /\ y \in Nat /\ x < Full /\ y < Full /\ Full \in Nat \ {0}
  BY WordTyped, WordSizes128
<1>2. plus(x, y) = (x + y) % Full
  BY DEF plus, Full
<1>3. CASE x + y < Full
  <2>1. (x + y) % Full = x + y
    BY <1>1, <1>3, ModOfSmall
  <2> QED
    BY <1>1, <1>2, <1>3, <2>1, WordTyped
<1>4. CASE ~(x + y < Full)
  <2>1. PICK r \in Nat : r = x + y - Full
    BY <1>1, <1>4
  <2>2. x + y = Full * 1 + r /\ r < Full /\ 1 \in Nat /\ x + y \in Nat
    BY <1>1, <2>1
  <2>3. (x + y) % Full = r
    BY <1>1, <2>2, DivUnique
  <2> QED
    BY <1>1, <1>2, <1>4, <2>1, <2>2, <2>3, WordTyped
<1> QED
  BY <1>3, <1>4

LEMMA MinusIs ==
    ASSUME NEW x \in Word, NEW y \in Word
    PROVE  /\ minus(x, y) \in Word
           /\ minus(x, y) = IF x < y THEN x - y + Full ELSE x - y
<1>1. x \in Nat /\ y \in Nat /\ x < Full /\ y < Full /\ Full \in Nat \ {0}
  BY WordTyped, WordSizes128
<1>2. minus(x, y) = (x - y) % Full
  BY DEF minus, Full
<1>3. CASE ~(x < y)
  <2>1. x - y \in Nat /\ x - y < Full
    BY <1>1, <1>3
  <2>2. (x - y) % Full = x - y
    BY <1>1, <2>1, ModOfSmall
  <2> QED
    BY <1>1, <1>2, <1>3, <2>1, <2>2, WordTyped
<1>4. CASE x < y
  <2>1. PICK z \in Nat : z = y - x
    BY <1>1, <1>4
  <2>2. x - y = -z /\ z # 0 /\ z <= Full
    BY <1>1, <1>4, <2>1
  <2>3. (-z) % Full = Full - z
    BY <1>1, <2>2, ModOfNegative
  <2> QED
    BY <1>1, <1>2, <1>4, <2>1, <2>2, <2>3, WordTyped
<1> QED
  BY <1>3, <1>4

LEMMA SmallWords ==
    /\ 0 \in Word /\ 1 \in Word /\ Ones \in Word /\ Ones = Full - 1
    /\ \A x \in Word : lnot(x) \in Word /\ lnot(x) = Full - 1 - x
<1>1. Full \in Nat \ {0} /\ Top \in Nat \ {0} /\ Full = 2 * Top
  BY WordSizes128
<1>2. Ones = Full - 1
  BY DEF Ones, Full
<1>3. \A x \in Word : x \in Nat /\ x < Full
  BY WordTyped
<1>4. \A x : lnot(x) = Full - 1 - x
  BY <1>2 DEF lnot
<1>5. 0 < Full /\ 1 < Full /\ Full - 1 \in Nat /\ Full - 1 < Full
  BY <1>1
<1>6. ASSUME NEW x \in Word PROVE lnot(x) \in Word
  <2>1. Full - 1 - x \in Nat /\ Full - 1 - x < Full
    BY <1>1, <1>3
  <2> QED
    BY <1>4, <2>1, WordTyped
<1> QED
  BY <1>2, <1>4, <1>5, <1>6, WordTyped

(* The top bit. *)
LEMMA TopBitIs ==
    ASSUME NEW x \in Word
    PROVE  /\ TopBit(x) = IF x < Top THEN 0 ELSE 1
           /\ TopBit(x) = Digit(2, x, W - 1)
<1>1. x \in Nat /\ x < Full /\ Top \in Nat \ {0} /\ Full = 2 * Top /\ W \in Nat \ {0} /\ W - 1 \in Nat
  BY WordTyped, WordSizes128
<1>2. (W - 1) % W = W - 1
  BY <1>1, ModOfSmall
<1>3. TopBit(x) = x \div Top
  BY <1>2 DEF TopBit, shr, Top
<1>4. Digit(2, x, W - 1) = (x \div Top) % 2
  BY DEF Digit, Top
<1>5. CASE x < Top
  <2>1. x \div Top = 0
    BY <1>1, <1>5, ModOfSmall
  <2>2. 0 % 2 = 0
    OBVIOUS
  <2> QED
    BY <1>3, <1>4, <1>5, <2>1, <2>2
<1>6. CASE ~(x < Top)
  <2>1. PICK r \in Nat : r = x - Top
    BY <1>1, <1>6
  <2>2. x = Top * 1 + r /\ r < Top /\ 1 \in Nat
    BY <1>1, <2>1
  <2>3. x \div Top = 1
    BY <1>1, <2>2, DivUnique
  <2>4. 1 % 2 = 1
    OBVIOUS
  <2> QED
    BY <1>3, <1>4, <1>6, <2>3, <2>4
<1> QED
  BY <1>5, <1>6

LEMMA BitwiseWords ==
    ASSUME NEW x \in Word, NEW y \in Word
    PROVE  x & y \in Word /\ x | y \in Word /\ x ^^ y \in Word
<1>1. x \in Nat /\ y \in Nat /\ W \in Nat \ {0}
  BY WordTyped, WordSizes128
<1>2. ASSUME NEW k \in W..2 * W - 1 PROVE Digit(2, x, k) = 0 /\ Digit(2, y, k) = 0
  <2>1. k \in Nat /\ k >= W
    BY <1>1
  <2> QED
    BY <2>1, HighBitsOfWord
<1>3. ASSUME NEW k \in W..2 * W - 1
      PROVE  Digit(2, x & y, k) = 0 /\ Digit(2, x | y, k) = 0 /\ Digit(2, x ^^ y, k) = 0
  <2>1. PICK j \in 1..2 * W : j - 1 = k
    <3>1. k + 1 \in 1..2 * W /\ (k + 1) - 1 = k
      BY <1>1
    <3> QED
      BY <3>1
  <2>2. Digit(2, x, j - 1) = 0 /\ Digit(2, y, j - 1) = 0
    BY <1>2, <2>1
  <2>3. Digit(2, x & y, j - 1) = Digit(2, x, j - 1) * Digit(2, y, j - 1)
    BY <1>1, AndBits
  <2>5. Digit(2, x | y, j - 1) = Digit(2, x, j - 1) + Digit(2, y, j - 1)
                                   - Digit(2, x, j - 1) * Digit(2, y, j - 1)
    BY <1>1, OrBits
  <2>6. Digit(2, x ^^ y, j - 1) = (Digit(2, x, j - 1) + Digit(2, y, j - 1)) % 2
    BY <1>1, XorBits
  <2>4. 0 * 0 = 0 /\ 0 + 0 - 0 = 0 /\ (0 + 0) % 2 = 0
    OBVIOUS
  <2> QED
    BY <2>1, <2>2, <2>3, <2>4, <2>5, <2>6
<1> QED
  BY <1>1, <1>3, AndBits, OrBits, XorBits, WordByBits

LEMMA TopBits ==
    ASSUME NEW x \in Word, NEW y \in Word
    PROVE  /\ TopBit(x ^^ y) = IF TopBit(x) = TopBit(y) THEN 0 ELSE 1
           /\ TopBit(x | y) = IF TopBit(x) = 1 \/ TopBit(y) = 1 THEN 1 ELSE 0
           /\ TopBit(x) \in {0, 1}
<1>1. x \in Nat /\ y \in Nat /\ W \in Nat \ {0} /\ W \in 1..2 * W
  BY WordTyped, WordSizes128
<1>2. x | y \in Word /\ x ^^ y \in Word
  BY BitwiseWords
<1>3. Digit(2, x ^^ y, W - 1) = (Digit(2, x, W - 1) + Digit(2, y, W - 1)) % 2
  BY <1>1, XorBits
<1>4. Digit(2, x | y, W - 1) = Digit(2, x, W - 1) + Digit(2, y, W - 1)
                                 - Digit(2, x, W - 1) * Digit(2, y, W - 1)
  BY <1>1, OrBits
<1>5. TopBit(x ^^ y) = (TopBit(x) + TopBit(y)) % 2
  BY <1>2, <1>3, TopBitIs
<1>6. TopBit(x | y) = TopBit(x) + TopBit(y) - TopBit(x) * TopBit(y)
  BY <1>2, <1>4, TopBitIs
<1>7. TopBit(x) \in {0, 1} /\ TopBit(y) \in {0, 1}
  BY TopBitIs
<1>8. (0 + 0) % 2 = 0 /\ (0 + 1) % 2 = 1 /\ (1 + 0) % 2 = 1 /\ (1 + 1) % 2 = 0
  OBVIOUS
<1> QED
  BY <1>5, <1>6, <1>7, <1>8

(* The sign trick: a word is below another one exactly when this bit is    *)
(* set.  With equal top bits it is the sign of the difference, with        *)
(* different ones the negation of the first.                               *)
SignBit(x, y) == TopBit(x ^^ ((x ^^ y) | (minus(x, y) ^^ y)))

LEMMA SignBitIs ==
    ASSUME NEW x \in Word, NEW y \in Word
    PROVE  SignBit(x, y) = IF x < y THEN 1 ELSE 0
<1>1. /\ x \in Nat /\ y \in Nat /\ x < Full /\ y < Full
      /\ Top \in Nat \ {0} /\ Full = 2 * Top
  BY WordTyped, WordSizes128
<1>2. PICK d \in Word : d = minus(x, y)
  BY MinusIs
<1>3. /\ x ^^ y \in Word /\ d ^^ y \in Word /\ ((x ^^ y) | (d ^^ y)) \in Word
      /\ x ^^ ((x ^^ y) | (d ^^ y)) \in Word
  BY BitwiseWords
<1>4. /\ TopBit(x) \in {0, 1} /\ TopBit(y) \in {0, 1} /\ TopBit(d) \in {0, 1}
      /\ TopBit(x ^^ y) = IF TopBit(x) = TopBit(y) THEN 0 ELSE 1
      /\ TopBit(d ^^ y) = IF TopBit(d) = TopBit(y) THEN 0 ELSE 1
  BY TopBits
<1>5. TopBit((x ^^ y) | (d ^^ y)) =
          IF TopBit(x ^^ y) = 1 \/ TopBit(d ^^ y) = 1 THEN 1 ELSE 0
  BY <1>3, TopBits
<1>6. TopBit(x ^^ ((x ^^ y) | (d ^^ y))) =
          IF TopBit(x) = TopBit((x ^^ y) | (d ^^ y)) THEN 0 ELSE 1
  BY <1>3, TopBits
<1>7. SignBit(x, y) = TopBit(x ^^ ((x ^^ y) | (d ^^ y)))
  BY <1>2 DEF SignBit
<1>8. CASE TopBit(x) = TopBit(y)
  <2>1. SignBit(x, y) = TopBit(d)
    BY <1>4, <1>5, <1>6, <1>7, <1>8
  <2>2. d \in Nat /\ d = IF x < y THEN x - y + Full ELSE x - y
    BY <1>2, MinusIs, WordTyped
  <2>3. (x < Top) <=> (y < Top)
    BY <1>8, TopBitIs
  <2>4. d < Top <=> ~(x < y)
    BY <1>1, <2>2, <2>3
  <2> QED
    BY <2>1, <2>4, TopBitIs
<1>9. CASE TopBit(x) # TopBit(y)
  <2>1. SignBit(x, y) = IF TopBit(x) = 0 THEN 1 ELSE 0
    BY <1>4, <1>5, <1>6, <1>7, <1>9
  <2>2. TopBit(x) = 0 <=> x < y
    <3>1. (x < Top /\ ~(y < Top)) \/ (~(x < Top) /\ y < Top)
      BY <1>9, TopBitIs
    <3>2. TopBit(x) = 0 <=> x < Top
      BY TopBitIs
    <3> QED
      BY <1>1, <3>1, <3>2
  <2> QED
    BY <2>1, <2>2
<1> QED
  BY <1>8, <1>9

(* The two masks on words. *)
LEMMA GteMaskIs ==
    ASSUME NEW x \in Word, NEW y \in Word
    PROVE  FStar_UInt64_gte_mask(x, y) = IF x >= y THEN Ones ELSE 0
<1>1. FStar_UInt64_gte_mask(x, y) = minus(SignBit(x, y), 1)
  BY DEF FStar_UInt64_gte_mask, SignBit
<1>2. minus(0, 1) = Ones /\ minus(1, 1) = 0
  <2>1. minus(0, 1) = 0 - 1 + Full /\ minus(1, 1) = 1 - 1
    BY SmallWords, MinusIs
  <2> QED
    BY <2>1, SmallWords, WordSizes128
<1>3. x \in Nat /\ y \in Nat
  BY WordTyped
<1> QED
  BY <1>1, <1>2, <1>3, SignBitIs

LEMMA ExclusiveOrZero ==
    ASSUME NEW x \in Word, NEW y \in Word
    PROVE  x ^^ y = 0 <=> x = y
<1>1. x \in Nat /\ y \in Nat /\ x < Full /\ y < Full /\ W \in Nat \ {0} /\ 2 \in Nat \ {0}
  BY WordTyped, WordSizes128
<1>2. ASSUME NEW k \in 1..W
      PROVE  /\ Digit(2, x ^^ y, k - 1) = (Digit(2, x, k - 1) + Digit(2, y, k - 1)) % 2
             /\ Digit(2, x, k - 1) \in {0, 1} /\ Digit(2, y, k - 1) \in {0, 1}
             /\ Digit(2, 0, k - 1) = 0
  <2>1. k \in 1..2 * W /\ k - 1 \in Nat
    BY <1>1
  <2>2. PICK p \in Nat \ {0} : p = Power(2, k - 1)
    BY <2>1, PowerPositive
  <2>3. 0 \div p = 0 /\ 0 % 2 = 0
    BY <2>2, ModOfSmall
  <2>4. Digit(2, 0, k - 1) = 0
    BY <2>2, <2>3 DEF Digit
  <2>5. Digit(2, x ^^ y, k - 1) = (Digit(2, x, k - 1) + Digit(2, y, k - 1)) % 2
    BY <1>1, <2>1, XorBits
  <2>6. Digit(2, x, k - 1) \in {0, 1}
    BY <1>1, <2>1, BitTyped
  <2>7. Digit(2, y, k - 1) \in {0, 1}
    BY <1>1, <2>1, BitTyped
  <2> QED
    BY <2>4, <2>5, <2>6, <2>7
<1>3. (0 + 0) % 2 = 0 /\ (0 + 1) % 2 = 1 /\ (1 + 0) % 2 = 1 /\ (1 + 1) % 2 = 0
  OBVIOUS
<1>4. x ^^ y = 0 => x = y
  <2> SUFFICES ASSUME x ^^ y = 0 PROVE x = y
    OBVIOUS
  <2>1. \A k \in 1..W : Digit(2, x, k - 1) = Digit(2, y, k - 1)
    BY <1>2, <1>3
  <2> QED
    BY <1>1, <2>1, SameDigits DEF Full
<1>5. x = y => x ^^ y = 0
  <2> SUFFICES ASSUME x = y PROVE x ^^ y = 0
    OBVIOUS
  <2>1. \A k \in 1..W : Digit(2, x ^^ y, k - 1) = Digit(2, 0, k - 1)
    BY <1>2, <1>3
  <2>2. x ^^ y \in Nat /\ x ^^ y < Full /\ 0 \in Nat /\ 0 < Full
    BY BitwiseWords, WordTyped, SmallWords
  <2> QED
    BY <1>1, <2>1, <2>2, SameDigits DEF Full
<1> QED
  BY <1>4, <1>5

LEMMA EqMaskIs ==
    ASSUME NEW x \in Word, NEW y \in Word
    PROVE  FStar_UInt64_eq_mask(x, y) = IF x = y THEN Ones ELSE 0
<1>1. PICK z \in Word : z = x ^^ y
  BY BitwiseWords
<1>2. PICK n \in Word : n = plus(lnot(z), 1)
  BY SmallWords, PlusIs
<1>3. FStar_UInt64_eq_mask(x, y) = minus(TopBit(z | n), 1)
  BY <1>1, <1>2 DEF FStar_UInt64_eq_mask
<1>4. TopBit(z | n) = IF TopBit(z) = 1 \/ TopBit(n) = 1 THEN 1 ELSE 0
  BY TopBits
<1>5. z \in Nat /\ z < Full /\ Top \in Nat \ {0} /\ Full = 2 * Top
  BY WordTyped, WordSizes128
<1>6. n = IF z = 0 THEN 0 ELSE Full - z
  <2>1. n = IF (Full - 1 - z) + 1 < Full THEN (Full - 1 - z) + 1 ELSE (Full - 1 - z) + 1 - Full
    BY <1>2, SmallWords, PlusIs
  <2> QED
    BY <1>5, <2>1
<1>7. (z < Top /\ n < Top) <=> z = 0
  BY <1>5, <1>6
<1>8. TopBit(z | n) = IF z = 0 THEN 0 ELSE 1
  BY <1>4, <1>7, TopBitIs
<1>9. minus(0, 1) = Ones /\ minus(1, 1) = 0
  <2>1. minus(0, 1) = 0 - 1 + Full /\ minus(1, 1) = 1 - 1
    BY SmallWords, MinusIs
  <2> QED
    BY <2>1, SmallWords, WordSizes128
<1> QED
  BY <1>1, <1>3, <1>8, <1>9, ExclusiveOrZero

Square == Full * Full     \* the number of 128-bit integers

LEMMA SquareIs ==
    /\ Square = Power(2, 2 * W) /\ Square \in Nat \ {0} /\ Full <= Square
    /\ \A u \in Word, w \in Word : u * Full + w \in Nat /\ u * Full + w < Square
    /\ \A u \in Word : u * Full \in Nat
<1>1. W \in Nat \ {0} /\ 2 * W = W + W /\ 2 \in Nat /\ 2 \in Nat \ {0} /\ W \in Nat /\ Full \in Nat \ {0}
  BY WordSizes128
<1>2. Power(2, W + W) = Full * Full
  BY <1>1, PowerSum DEF Full
<1>3. Square = Power(2, 2 * W)
  BY <1>1, <1>2 DEF Square
<1>4. Square \in Nat \ {0}
  BY <1>1 DEF Square
<1>5. Full <= Square
  <2>1. PICK e \in Nat : Full = e + 1
    <3>1. Full - 1 \in Nat /\ Full = (Full - 1) + 1
      BY <1>1
    <3> QED
      BY <3>1
  <2>2. Square = e * Full + Full /\ e * Full \in Nat
    BY <1>1, <2>1 DEF Square
  <2> QED
    BY <1>1, <2>2
<1>6. ASSUME NEW u \in Word, NEW w \in Word PROVE u * Full + w \in Nat /\ u * Full + w < Square
  <2>1. u \in Nat /\ u < Full /\ w \in Nat /\ w < Full
    BY WordTyped
  <2>2. Full * u + Full <= Full * Full
    BY <1>1, <2>1, MulLess
  <2>3. PICK z \in Nat : z = Full * u
    BY <1>1, <2>1
  <2>4. u * Full = z
    BY <1>1, <2>1, <2>3
  <2> QED
    BY <1>1, <2>1, <2>2, <2>3, <2>4 DEF Square
<1>7. ASSUME NEW u \in Word PROVE u * Full \in Nat
  BY <1>1, WordTyped
<1> QED
  BY <1>3, <1>4, <1>5, <1>6, <1>7

(* Two numbers with the same 2 * W bits. *)
LEMMA SameBits ==
    ASSUME NEW x \in Nat, x < Square, NEW y \in Nat, y < Square,
           \A k \in 1..2 * W : Digit(2, x, k - 1) = Digit(2, y, k - 1)
    PROVE  x = y
<1>1. PICK n \in Nat : n = 2 * W
  BY WordSizes128
<1>2. 2 \in Nat \ {0} /\ x < Power(2, n) /\ y < Power(2, n)
  BY <1>1, SquareIs
<1>3. \A k \in 1..n : Digit(2, x, k - 1) = Digit(2, y, k - 1)
  BY <1>1
<1> QED
  BY <1>2, <1>3, SameDigits

LEMMA BitBeyond ==
    ASSUME NEW n \in Nat, NEW x \in Nat, x < Power(2, n), NEW k \in Nat, k >= n
    PROVE  Digit(2, x, k) = 0
<1>1. PICK j \in Nat : k = n + j
  <2>1. k - n \in Nat /\ k = n + (k - n)
    OBVIOUS
  <2> QED
    BY <2>1
<1>2. PICK p \in Nat \ {0}, r \in Nat \ {0} : p = Power(2, n) /\ r = Power(2, j)
  <2>1. 2 \in Nat \ {0}
    OBVIOUS
  <2> QED
    BY <2>1, PowerPositive
<1>3. Power(2, k) = p * r
  BY <1>1, <1>2, PowerSum
<1>4. x \div (p * r) = (x \div p) \div r
  BY <1>2, ModDiv
<1>5. x \div p = 0 /\ 0 \div r = 0 /\ 0 % 2 = 0
  BY <1>2, ModOfSmall
<1> QED
  BY <1>3, <1>4, <1>5 DEF Digit

LEMMA BitOfZero == ASSUME NEW k \in Nat PROVE Digit(2, 0, k) = 0
<1>1. Power(2, 0) = 1 /\ 0 \in Nat /\ 0 < 1 /\ k >= 0
  BY PowerZero
<1> QED
  BY <1>1, BitBeyond

(* The complement of a number of n bits has the other bits. *)
LEMMA ComplementBit ==
    ASSUME NEW n \in Nat, NEW x \in Nat, x < Power(2, n), NEW k \in Nat, k < n
    PROVE  Digit(2, Power(2, n) - 1 - x, k) = 1 - Digit(2, x, k)
<1>1. PICK j \in Nat : n = (k + 1) + j
  <2>1. n - (k + 1) \in Nat /\ n = (k + 1) + (n - (k + 1))
    OBVIOUS
  <2> QED
    BY <2>1
<1>2. PICK p \in Nat \ {0}, r \in Nat \ {0} : p = Power(2, k) /\ r = Power(2, j)
  <2>1. 2 \in Nat \ {0}
    OBVIOUS
  <2> QED
    BY <2>1, PowerPositive
<1>3. PICK s \in Nat : s = 2 * r
  BY <1>2
<1>4. Power(2, n) = p * s
  <2>1. Power(2, k + 1) = 2 * p /\ k + 1 \in Nat
    BY <1>2, PowerNext
  <2>2. Power(2, n) = Power(2, k + 1) * r
    BY <1>1, <1>2, <2>1, PowerSum
  <2> QED
    BY <1>2, <1>3, <2>1, <2>2
<1>5. PICK q \in Nat, t \in Nat : x = p * q + t /\ t < p /\ x \div p = q /\ x % p = t
  BY <1>2, DivMod
<1>6. PICK y \in Nat, z \in Nat : y = p * s /\ z = p * q
  BY <1>2, <1>3, <1>5
<1>7. q < s
  <2>1. q = s => z = y
    BY <1>6
  <2>2. s < q => p * s + p <= p * q
    BY <1>2, <1>3, <1>5, MulLess
  <2>3. s < q => y <= z
    BY <1>2, <1>6, <2>2
  <2>4. z < y
    BY <1>4, <1>5, <1>6
  <2> QED
    BY <1>3, <1>5, <1>6, <2>1, <2>3, <2>4
<1>12. q \in Nat /\ t \in Nat /\ t < p /\ p \in Nat
  BY <1>2, <1>5
<1>8. PICK c \in Nat, v \in Nat : c = s - 1 - q /\ v = p - 1 - t
  <2>1. s - 1 - q \in Nat
    BY <1>3, <1>7, <1>12
  <2>2. p - 1 - t \in Nat
    BY <1>12
  <2> QED
    BY <2>1, <2>2
<1>9. PICK m \in Nat : m = Power(2, n) - 1 - x /\ m = p * c + v
  <2>1. p * c = p * s - p - p * q
    BY <1>2, <1>3, <1>5, <1>8
  <2>2. PICK d \in Nat : d = p * c
    BY <1>2, <1>8
  <2>3. Power(2, n) - 1 - x = d + v
    BY <1>2, <1>4, <1>5, <1>6, <1>8, <2>1, <2>2
  <2> QED
    BY <1>8, <2>2, <2>3
<1>10. m \div p = c
  <2>1. v < p
    BY <1>2, <1>5, <1>8
  <2> QED
    BY <1>2, <1>8, <1>9, <2>1, DivUnique
<1>11. c % 2 = 1 - (q % 2)
  BY <1>2, <1>3, <1>8, <1>12
<1> QED
  BY <1>2, <1>5, <1>9, <1>10, <1>11 DEF Digit

LEMMA BitOfOnes ==
    ASSUME NEW n \in Nat, NEW k \in Nat
    PROVE  Digit(2, Power(2, n) - 1, k) = IF k < n THEN 1 ELSE 0
<1>1. PICK p \in Nat \ {0} : p = Power(2, n)
  <2>1. 2 \in Nat \ {0}
    OBVIOUS
  <2> QED
    BY <2>1, PowerPositive
<1>2. CASE k < n
  <2>1. 0 \in Nat /\ 0 < Power(2, n)
    BY <1>1
  <2>2. Digit(2, Power(2, n) - 1 - 0, k) = 1 - Digit(2, 0, k)
    BY <1>2, <2>1, ComplementBit
  <2>3. Power(2, n) - 1 - 0 = Power(2, n) - 1
    BY <1>1
  <2> QED
    BY <1>2, <2>2, <2>3, BitOfZero
<1>3. CASE ~(k < n)
  <2>1. Power(2, n) - 1 \in Nat /\ Power(2, n) - 1 < Power(2, n)
    BY <1>1
  <2> QED
    BY <1>3, <2>1, BitBeyond
<1> QED
  BY <1>2, <1>3

(* The bits of two words side by side. *)
LEMMA JoinedBit ==
    ASSUME NEW u \in Word, NEW w \in Word, NEW k \in Nat
    PROVE  Digit(2, u * Full + w, k) = IF k < W THEN Digit(2, w, k) ELSE Digit(2, u, k - W)
<1>1. /\ W \in Nat \ {0} /\ 2 \in Nat \ {0} /\ Full \in Nat \ {0} /\ W \in Nat
      /\ u \in Nat /\ u < Full /\ w \in Nat /\ w < Full
  BY WordSizes128, WordTyped
<1>2. PICK x \in Nat : x = u * Full + w
  BY SquareIs
<1>3. x \div Full = u /\ x % Full = w
  BY <1>1, <1>2, HalvesJoined DEF Full
<1>4. CASE k < W
  BY <1>1, <1>2, <1>3, <1>4, DigitBelow DEF Full
<1>5. CASE ~(k < W)
  <2>1. PICK j \in Nat : k = W + j
    <3>1. k - W \in Nat /\ k = W + (k - W)
      BY <1>1, <1>5
    <3> QED
      BY <3>1
  <2>2. Digit(2, u, j) = Digit(2, x, k)
    BY <1>1, <1>3, <2>1, DigitAbove DEF Full
  <2>3. k - W = j
    BY <1>1, <2>1
  <2> QED
    BY <1>2, <1>5, <2>2, <2>3
<1> QED
  BY <1>4, <1>5

(* Bit k of a result of an operator, k counted from 0. *)
LEMMA BitwiseBit ==
    ASSUME NEW x \in Nat, NEW y \in Nat, NEW k \in Nat, k < 2 * W
    PROVE  /\ Digit(2, x & y, k) = Digit(2, x, k) * Digit(2, y, k)
           /\ Digit(2, x | y, k) = Digit(2, x, k) + Digit(2, y, k) - Digit(2, x, k) * Digit(2, y, k)
           /\ Digit(2, x ^^ y, k) = (Digit(2, x, k) + Digit(2, y, k)) % 2
<1>1. PICK j \in 1..2 * W : j - 1 = k
  <2>1. k + 1 \in 1..2 * W /\ (k + 1) - 1 = k
    BY WordSizes128
  <2> QED
    BY <2>1
<1>2. Digit(2, x & y, j - 1) = Digit(2, x, j - 1) * Digit(2, y, j - 1)
  BY AndBits
<1>3. Digit(2, x | y, j - 1) = Digit(2, x, j - 1) + Digit(2, y, j - 1)
                                 - Digit(2, x, j - 1) * Digit(2, y, j - 1)
  BY OrBits
<1>4. Digit(2, x ^^ y, j - 1) = (Digit(2, x, j - 1) + Digit(2, y, j - 1)) % 2
  BY XorBits
<1> QED
  BY <1>1, <1>2, <1>3, <1>4

LEMMA BitwiseTyped ==
    ASSUME NEW x \in Nat, NEW y \in Nat
    PROVE  /\ x & y \in Nat /\ x & y < Square
           /\ x | y \in Nat /\ x | y < Square
           /\ x ^^ y \in Nat /\ x ^^ y < Square
BY AndBits, OrBits, XorBits, SquareIs

(* Numbers are equal when all their bits are. *)
LEMMA EqualBits ==
    ASSUME NEW x \in Nat, x < Square, NEW y \in Nat, y < Square,
           \A k \in Nat : k < 2 * W => Digit(2, x, k) = Digit(2, y, k)
    PROVE  x = y
<1>1. \A k \in 1..2 * W : k - 1 \in Nat /\ k - 1 < 2 * W
  BY WordSizes128
<1> QED
  BY <1>1, SameBits

LEMMA WordBelowSquare == ASSUME NEW x \in Word PROVE x \in Nat /\ x < Square
<1>1. x \in Nat /\ x < Full /\ Full \in Nat /\ Full <= Square /\ Square \in Nat
  BY WordTyped, WordSizes128, SquareIs
<1> QED
  BY <1>1

LEMMA BitwiseLaws ==
    ASSUME NEW x \in Word
    PROVE  /\ x & x = x /\ x | x = x
           /\ x & 0 = 0 /\ 0 & x = 0 /\ x | 0 = x /\ 0 | x = x
<1>1. x \in Nat /\ x < Square /\ 0 \in Nat /\ 0 < Square
  BY WordBelowSquare, SmallWords
<1>2. /\ x & x \in Nat /\ x & x < Square /\ x | x \in Nat /\ x | x < Square
      /\ x & 0 \in Nat /\ x & 0 < Square /\ 0 & x \in Nat /\ 0 & x < Square
      /\ x | 0 \in Nat /\ x | 0 < Square /\ 0 | x \in Nat /\ 0 | x < Square
  BY <1>1, BitwiseTyped
<1>3. ASSUME NEW k \in Nat, k < 2 * W
      PROVE  /\ Digit(2, x & x, k) = Digit(2, x, k) /\ Digit(2, x | x, k) = Digit(2, x, k)
             /\ Digit(2, x & 0, k) = Digit(2, 0, k) /\ Digit(2, 0 & x, k) = Digit(2, 0, k)
             /\ Digit(2, x | 0, k) = Digit(2, x, k) /\ Digit(2, 0 | x, k) = Digit(2, x, k)
  <2>1. PICK d \in {0, 1} : d = Digit(2, x, k)
    BY <1>1, BitTyped
  <2>2. Digit(2, 0, k) = 0
    BY BitOfZero
  <2>3. Digit(2, x & x, k) = d * d /\ Digit(2, x | x, k) = d + d - d * d
    BY <1>1, <1>3, <2>1, BitwiseBit
  <2>4. Digit(2, x & 0, k) = d * 0 /\ Digit(2, x | 0, k) = d + 0 - d * 0
    BY <1>1, <1>3, <2>1, <2>2, BitwiseBit
  <2>5. Digit(2, 0 & x, k) = 0 * d /\ Digit(2, 0 | x, k) = 0 + d - 0 * d
    BY <1>1, <1>3, <2>1, <2>2, BitwiseBit
  <2>6. d * d = d /\ d + d - d * d = d /\ d * 0 = 0 /\ d + 0 - d * 0 = d
        /\ 0 * d = 0 /\ 0 + d - 0 * d = d
    BY <2>1
  <2> QED
    BY <2>1, <2>2, <2>3, <2>4, <2>5, <2>6
<1>4. x & x = x
  BY <1>1, <1>2, <1>3, EqualBits
<1>5. x | x = x
  BY <1>1, <1>2, <1>3, EqualBits
<1>6. x & 0 = 0
  BY <1>1, <1>2, <1>3, EqualBits
<1>7. 0 & x = 0
  BY <1>1, <1>2, <1>3, EqualBits
<1>8. x | 0 = x
  BY <1>1, <1>2, <1>3, EqualBits
<1>9. 0 | x = x
  BY <1>1, <1>2, <1>3, EqualBits
<1> QED
  BY <1>4, <1>5, <1>6, <1>7, <1>8, <1>9

(* Bit by bit, two words at a time. *)
LEMMA BitwiseJoined ==
    ASSUME NEW u \in Word, NEW w \in Word, NEW u2 \in Word, NEW w2 \in Word
    PROVE  /\ (u * Full + w) & (u2 * Full + w2) = (u & u2) * Full + (w & w2)
           /\ (u * Full + w) | (u2 * Full + w2) = (u | u2) * Full + (w | w2)
           /\ (u * Full + w) ^^ (u2 * Full + w2) = (u ^^ u2) * Full + (w ^^ w2)
<1>1. PICK x \in Nat, y \in Nat :
          x = u * Full + w /\ x < Square /\ y = u2 * Full + w2 /\ y < Square
  BY SquareIs
<1>2. PICK a \in Word, b \in Word, n \in Nat :
          a = u & u2 /\ b = w & w2 /\ n = a * Full + b /\ n < Square
  <2>1. u & u2 \in Word /\ w & w2 \in Word
    BY BitwiseWords
  <2> QED
    BY <2>1, SquareIs
<1>3. PICK c \in Word, d \in Word, o \in Nat :
          c = u | u2 /\ d = w | w2 /\ o = c * Full + d /\ o < Square
  <2>1. u | u2 \in Word /\ w | w2 \in Word
    BY BitwiseWords
  <2> QED
    BY <2>1, SquareIs
<1>4. PICK e \in Word, f \in Word, p \in Nat :
          e = u ^^ u2 /\ f = w ^^ w2 /\ p = e * Full + f /\ p < Square
  <2>1. u ^^ u2 \in Word /\ w ^^ w2 \in Word
    BY BitwiseWords
  <2> QED
    BY <2>1, SquareIs
<1>5. ASSUME NEW k \in Nat, k < 2 * W
      PROVE  /\ Digit(2, x & y, k) = Digit(2, n, k)
             /\ Digit(2, x | y, k) = Digit(2, o, k)
             /\ Digit(2, x ^^ y, k) = Digit(2, p, k)
  <2>0. u \in Nat /\ w \in Nat /\ u2 \in Nat /\ w2 \in Nat
    BY WordTyped
  <2>1. CASE k < W
    <3>1. Digit(2, x, k) = Digit(2, w, k) /\ Digit(2, y, k) = Digit(2, w2, k)
      BY <1>1, <2>1, JoinedBit
    <3>2. /\ Digit(2, n, k) = Digit(2, w & w2, k) /\ Digit(2, o, k) = Digit(2, w | w2, k)
          /\ Digit(2, p, k) = Digit(2, w ^^ w2, k)
      BY <1>2, <1>3, <1>4, <2>1, JoinedBit
    <3> QED
      BY <1>5, <2>0, <3>1, <3>2, BitwiseBit
  <2>2. CASE ~(k < W)
    <3>0. PICK j \in Nat : j = k - W /\ j < 2 * W
      <4>1. k - W \in Nat /\ k - W < 2 * W
        BY <1>5, <2>2, WordSizes128
      <4> QED
        BY <4>1
    <3>1. Digit(2, x, k) = Digit(2, u, j) /\ Digit(2, y, k) = Digit(2, u2, j)
      BY <1>1, <2>2, <3>0, JoinedBit
    <3>2. /\ Digit(2, n, k) = Digit(2, u & u2, j) /\ Digit(2, o, k) = Digit(2, u | u2, j)
          /\ Digit(2, p, k) = Digit(2, u ^^ u2, j)
      BY <1>2, <1>3, <1>4, <2>2, <3>0, JoinedBit
    <3>3. /\ Digit(2, x & y, k) = Digit(2, u, j) * Digit(2, u2, j)
          /\ Digit(2, x | y, k) = Digit(2, u, j) + Digit(2, u2, j) - Digit(2, u, j) * Digit(2, u2, j)
          /\ Digit(2, x ^^ y, k) = (Digit(2, u, j) + Digit(2, u2, j)) % 2
      BY <1>5, <3>1, BitwiseBit
    <3>4. /\ Digit(2, u & u2, j) = Digit(2, u, j) * Digit(2, u2, j)
          /\ Digit(2, u | u2, j) = Digit(2, u, j) + Digit(2, u2, j) - Digit(2, u, j) * Digit(2, u2, j)
          /\ Digit(2, u ^^ u2, j) = (Digit(2, u, j) + Digit(2, u2, j)) % 2
      BY <2>0, <3>0, BitwiseBit
    <3> QED
      BY <3>2, <3>3, <3>4
  <2> QED
    BY <2>1, <2>2
<1>6. /\ x & y \in Nat /\ x & y < Square /\ x | y \in Nat /\ x | y < Square
      /\ x ^^ y \in Nat /\ x ^^ y < Square
  BY BitwiseTyped
<1>7. x & y = n
  BY <1>2, <1>5, <1>6, EqualBits
<1>8. x | y = o
  BY <1>3, <1>5, <1>6, EqualBits
<1>9. x ^^ y = p
  BY <1>4, <1>5, <1>6, EqualBits
<1> QED
  BY <1>1, <1>2, <1>3, <1>4, <1>7, <1>8, <1>9

(* The complement by an exclusive or, and the lower half by a mask. *)
LEMMA XorOnes == ASSUME NEW x \in Word PROVE x ^^ Ones = lnot(x)
<1>1. /\ Ones \in Word /\ lnot(x) \in Word /\ x ^^ Ones \in Word
      /\ Ones = Power(2, W) - 1 /\ lnot(x) = Power(2, W) - 1 - x
  BY SmallWords, BitwiseWords DEF Ones, Full
<1>2. /\ x \in Nat /\ x < Power(2, W) /\ W \in Nat /\ Ones \in Nat
      /\ x ^^ Ones \in Nat /\ x ^^ Ones < Square /\ lnot(x) \in Nat /\ lnot(x) < Square
  BY <1>1, WordTyped, WordBelowSquare, WordSizes128 DEF Full
<1>3. ASSUME NEW k \in Nat, k < 2 * W PROVE Digit(2, x ^^ Ones, k) = Digit(2, lnot(x), k)
  <2>0. Digit(2, x ^^ Ones, k) = (Digit(2, x, k) + Digit(2, Ones, k)) % 2
    BY <1>2, <1>3, BitwiseBit
  <2>1. CASE k < W
    <3>1. Digit(2, Ones, k) = 1
      BY <1>1, <1>2, <2>1, BitOfOnes
    <3>2. Digit(2, lnot(x), k) = 1 - Digit(2, x, k)
      BY <1>1, <1>2, <2>1, ComplementBit
    <3>3. Digit(2, x, k) \in {0, 1}
      BY <1>2, BitTyped
    <3>4. (0 + 1) % 2 = 1 - 0 /\ (1 + 1) % 2 = 1 - 1
      OBVIOUS
    <3> QED
      BY <2>0, <3>1, <3>2, <3>3, <3>4
  <2>2. CASE ~(k < W)
    <3>1. k >= W
      BY <1>2, <2>2
    <3>2. Digit(2, x, k) = 0 /\ Digit(2, Ones, k) = 0 /\ Digit(2, lnot(x), k) = 0
      BY <1>1, <3>1, HighBitsOfWord
    <3>3. (0 + 0) % 2 = 0
      OBVIOUS
    <3> QED
      BY <2>0, <3>2, <3>3
  <2> QED
    BY <2>1, <2>2
<1> QED
  BY <1>2, <1>3, EqualBits

LEMMA LowHalf == ASSUME NEW x \in Word PROVE x & (Power(2, H) - 1) = x % Root
<1>1. /\ x \in Nat /\ H \in Nat /\ H < W /\ W \in Nat /\ Root \in Nat \ {0} /\ 2 \in Nat \ {0}
      /\ Full = Root * Root /\ Full \in Nat \ {0}
  BY WordTyped, WordSizes128
<1>2. PICK m \in Nat, y \in Nat : m = Root - 1 /\ y = x % Root /\ y < Root
  <2>1. Root - 1 \in Nat
    BY <1>1
  <2>2. \E q \in Nat, r \in Nat : x = Root * q + r /\ r < Root /\ x \div Root = q /\ x % Root = r
    BY <1>1, DivMod
  <2> QED
    BY <2>1, <2>2
<1>3. y < Square
  <2>1. y <= x
    BY <1>1, <1>2
  <2>2. x < Square /\ Square \in Nat
    BY WordBelowSquare, SquareIs
  <2> QED
    BY <1>1, <1>2, <2>1, <2>2
<1>4. ASSUME NEW k \in Nat, k < 2 * W PROVE Digit(2, x & m, k) = Digit(2, y, k)
  <2>0. Digit(2, x & m, k) = Digit(2, x, k) * Digit(2, m, k)
    BY <1>1, <1>2, <1>4, BitwiseBit
  <2>1. Digit(2, m, k) = IF k < H THEN 1 ELSE 0
    BY <1>1, <1>2, BitOfOnes DEF Root
  <2>2. Digit(2, y, k) = IF k < H THEN Digit(2, x, k) ELSE 0
    <3>1. CASE k < H
      BY <1>1, <1>2, <3>1, DigitBelow DEF Root
    <3>2. CASE ~(k < H)
      <4>1. k >= H
        BY <1>1, <3>2
      <4> QED
        BY <1>1, <1>2, <3>2, <4>1, BitBeyond DEF Root
    <3> QED
      BY <3>1, <3>2
  <2>3. PICK d \in {0, 1} : d = Digit(2, x, k)
    BY <1>1, BitTyped
  <2>4. d * 1 = d /\ d * 0 = 0
    BY <2>3
  <2> QED
    BY <2>0, <2>1, <2>2, <2>3, <2>4
<1>5. x & m \in Nat /\ x & m < Square
  BY <1>1, <1>2, BitwiseTyped
<1>6. x & m = y
  BY <1>2, <1>3, <1>4, <1>5, EqualBits
<1> QED
  BY <1>2, <1>6 DEF Root

(* Quotients and remainders of a sum with a multiple of the divisor. *)
LEMMA AddMultiple ==
    ASSUME NEW d \in Nat \ {0}, NEW a \in Nat, NEW b \in Nat
    PROVE  (d * a + b) \div d = a + (b \div d) /\ (d * a + b) % d = b % d
<1>1. PICK q \in Nat, r \in Nat : b = d * q + r /\ r < d /\ b \div d = q /\ b % d = r
  BY DivMod
<1>2. PICK c \in Nat, x \in Nat : c = a + q /\ x = d * a + b
  OBVIOUS
<1>3. x = d * c + r
  <2>1. d * c = d * a + d * q
    BY <1>1, <1>2
  <2>2. PICK y \in Nat, z \in Nat : y = d * a /\ z = d * q
    BY <1>1
  <2> QED
    BY <1>1, <1>2, <2>1, <2>2
<1>4. x \div d = c /\ x % d = r
  BY <1>1, <1>2, <1>3, DivUnique
<1> QED
  BY <1>1, <1>2, <1>4

LEMMA ModOfSum ==
    ASSUME NEW d \in Nat \ {0}, NEW a \in Nat, NEW b \in Nat
    PROVE  (a + b) % d = ((a % d) + b) % d
<1>1. PICK q \in Nat, r \in Nat : a = d * q + r /\ r < d /\ a \div d = q /\ a % d = r
  BY DivMod
<1>2. PICK c \in Nat : c = r + b
  BY <1>1
<1>3. a + b = d * q + c
  <2>1. PICK z \in Nat : z = d * q
    BY <1>1
  <2> QED
    BY <1>1, <1>2, <2>1
<1>4. (d * q + c) % d = c % d
  BY <1>1, <1>2, AddMultiple
<1> QED
  BY <1>1, <1>2, <1>3, <1>4

LEMMA QuotientTyped ==
    ASSUME NEW x \in Nat, NEW d \in Nat \ {0}
    PROVE  /\ x \div d \in Nat /\ x \div d <= x /\ x % d \in Nat /\ x % d < d
           /\ x = d * (x \div d) + (x % d)
<1>1. PICK q \in Nat, r \in Nat : x = d * q + r /\ r < d /\ x \div d = q /\ x % d = r
  BY DivMod
<1>2. q <= d * q
  <2>1. PICK e \in Nat : d = e + 1
    <3>1. d - 1 \in Nat /\ d = (d - 1) + 1
      OBVIOUS
    <3> QED
      BY <3>1
  <2>2. d * q = e * q + q /\ e * q \in Nat
    BY <1>1, <2>1
  <2> QED
    BY <1>1, <2>2
<1>3. PICK z \in Nat : z = d * q
  BY <1>1
<1> QED
  BY <1>1, <1>2, <1>3

(* A 128-bit integer and its words. *)
Join(h, l) == h * Full + l

LEMMA JoinTyped ==
    ASSUME NEW h \in Word, NEW l \in Word
    PROVE  /\ Join(h, l) \in Nat /\ Join(h, l) < Square
           /\ Join(h, l) \div Full = h /\ Join(h, l) % Full = l
           /\ Join(h, l) = Full * h + l
<1>1. /\ W \in Nat /\ 2 \in Nat \ {0} /\ Full \in Nat \ {0}
      /\ h \in Nat /\ h < Full /\ l \in Nat /\ l < Full
  BY WordSizes128, WordTyped
<1>2. (h * Full + l) \div Full = h /\ (h * Full + l) % Full = l
  BY <1>1, HalvesJoined DEF Full
<1>3. h * Full = Full * h
  BY <1>1
<1> QED
  BY <1>2, <1>3, SquareIs DEF Join

LEMMA Words128 ==
    ASSUME NEW n \in Nat, n < Square
    PROVE  /\ n \div Full \in Word /\ n % Full \in Word
           /\ n = Join(n \div Full, n % Full)
<1>1. W \in Nat /\ 2 \in Nat \ {0} /\ n < Power(2, W + W)
  BY WordSizes128, SquareIs
<1>2. /\ n % Full \in Nat /\ n % Full < Full /\ n \div Full \in Nat /\ n \div Full < Full
      /\ n = (n \div Full) * Full + (n % Full)
  BY <1>1, TwoHalves DEF Full
<1> QED
  BY <1>2, WordTyped DEF Join

(* A number modulo Square has the words of these remainders. *)
LEMMA ModSquare ==
    ASSUME NEW z \in Nat
    PROVE  z % Square = Join((z \div Full) % Full, z % Full)
<1>1. Full \in Nat \ {0}
  BY WordSizes128
<1>2. z % (Full * Full) = (z % Full) + Full * ((z \div Full) % Full)
  BY <1>1, ModDiv
<1>3. PICK q \in Nat, r \in Nat : q = (z \div Full) % Full /\ r = z % Full
  BY <1>1, QuotientTyped
<1>4. r + Full * q = q * Full + r
  BY <1>1, <1>3
<1> QED
  BY <1>2, <1>3, <1>4 DEF Square, Join

--------------------------------------------------------------------------
(* Sums, differences and complements. *)

LEMMA SumOfPairs ==
    ASSUME NEW h \in Word, NEW l \in Word, NEW h2 \in Word, NEW l2 \in Word,
           NEW c \in Word, c = IF l + l2 < Full THEN 0 ELSE 1
    PROVE  Join(plus(plus(h, h2), c), plus(l, l2)) = (Join(h, l) + Join(h2, l2)) % Square
<1>1. /\ Full \in Nat \ {0} /\ h \in Nat /\ h < Full /\ l \in Nat /\ l < Full
      /\ h2 \in Nat /\ h2 < Full /\ l2 \in Nat /\ l2 < Full /\ c \in Nat
  BY WordSizes128, WordTyped
<1>2. PICK w \in Nat : w = plus(l, l2) /\ w < Full /\ l + l2 = Full * c + w
  <2>1. plus(l, l2) \in Nat /\ plus(l, l2) < Full
    BY PlusIs, WordTyped
  <2>2. plus(l, l2) = IF l + l2 < Full THEN l + l2 ELSE l + l2 - Full
    BY PlusIs
  <2>3. Full * 0 = 0 /\ Full * 1 = Full
    BY <1>1
  <2> QED
    BY <1>1, <2>1, <2>2, <2>3
<1>3. PICK g \in Nat, z \in Nat : g = h + h2 + c /\ z = Full * g + w
  BY <1>1, <1>2
<1>4. Join(h, l) + Join(h2, l2) = z
  <2>1. Full * g = Full * h + Full * h2 + Full * c
    BY <1>1, <1>3
  <2>2. PICK p \in Nat, q \in Nat, r \in Nat : p = Full * h /\ q = Full * h2 /\ r = Full * c
    BY <1>1
  <2>3. Join(h, l) = p + l /\ Join(h2, l2) = q + l2
    BY <2>2, JoinTyped
  <2> QED
    BY <1>1, <1>2, <1>3, <2>1, <2>2, <2>3
<1>5. z \div Full = g /\ z % Full = w
  <2>1. Full \in Nat \ {0} /\ w < Full /\ z = Full * g + w
    BY <1>1, <1>2, <1>3
  <2> QED
    BY <2>1, DivUnique
<1>6. g % Full = plus(plus(h, h2), c)
  <2>1. plus(plus(h, h2), c) = (((h + h2) % Full) + c) % Full
    BY DEF plus, Full
  <2>2. h + h2 \in Nat
    BY <1>1
  <2>3. ((h + h2) + c) % Full = (((h + h2) % Full) + c) % Full
    BY <1>1, <2>2, ModOfSum
  <2> QED
    BY <1>3, <2>1, <2>3
<1>7. z % Square = Join(g % Full, w)
  BY <1>3, <1>5, ModSquare
<1> QED
  BY <1>2, <1>4, <1>6, <1>7

LEMMA JoinOrder ==
    ASSUME NEW h \in Word, NEW l \in Word, NEW h2 \in Word, NEW l2 \in Word
    PROVE  /\ Join(h, l) < Join(h2, l2) <=> h < h2 \/ (h = h2 /\ l < l2)
           /\ Join(h, l) = Join(h2, l2) <=> h = h2 /\ l = l2
<1>1. /\ Full \in Nat \ {0} /\ h \in Nat /\ l \in Nat /\ l < Full
      /\ h2 \in Nat /\ l2 \in Nat /\ l2 < Full
  BY WordSizes128, WordTyped
<1>2. PICK p \in Nat, q \in Nat : p = Full * h /\ q = Full * h2
  BY <1>1
<1>3. Join(h, l) = p + l /\ Join(h2, l2) = q + l2
  BY <1>2, JoinTyped
<1>4. h < h2 => p + Full <= q
  BY <1>1, <1>2, MulLess
<1>5. h2 < h => q + Full <= p
  BY <1>1, <1>2, MulLess
<1>6. h = h2 => p = q
  BY <1>2
<1>7. h < h2 \/ h2 < h \/ h = h2
  BY <1>1
<1> QED
  BY <1>1, <1>2, <1>3, <1>4, <1>5, <1>6, <1>7

(* A difference of numbers, wrapped once. *)
LEMMA DifferenceIs ==
    ASSUME NEW n \in Nat, n < Square, NEW m \in Nat, m < Square
    PROVE  (n - m) % Square = IF n < m THEN n - m + Square ELSE n - m
<1>1. Square \in Nat \ {0}
  BY SquareIs
<1>2. CASE n < m
  <2>1. PICK z \in Nat : z = m - n
    BY <1>2
  <2>2. n - m = -z /\ z # 0 /\ z <= Square
    BY <1>1, <1>2, <2>1
  <2>3. (-z) % Square = Square - z
    BY <1>1, <2>2, ModOfNegative
  <2> QED
    BY <1>1, <1>2, <2>1, <2>2, <2>3
<1>3. CASE ~(n < m)
  <2>1. PICK z \in Nat : z = n - m /\ z < Square
    BY <1>1, <1>3
  <2>2. z % Square = z
    BY <1>1, <2>1, ModOfSmall
  <2> QED
    BY <1>3, <2>1, <2>2
<1> QED
  BY <1>2, <1>3

LEMMA DifferenceOfPairs ==
    ASSUME NEW h \in Word, NEW l \in Word, NEW h2 \in Word, NEW l2 \in Word,
           NEW c \in Word, c = IF l < l2 THEN 1 ELSE 0
    PROVE  Join(minus(minus(h, h2), c), minus(l, l2)) = (Join(h, l) - Join(h2, l2)) % Square
<1>1. /\ Full \in Nat \ {0} /\ h \in Nat /\ h < Full /\ l \in Nat /\ l < Full
      /\ h2 \in Nat /\ h2 < Full /\ l2 \in Nat /\ l2 < Full /\ c \in Nat
  BY WordSizes128, WordTyped
<1>2. PICK w \in Word : w = minus(l, l2) /\ w = IF l < l2 THEN l - l2 + Full ELSE l - l2
  BY MinusIs
<1>3. PICK e \in Word : e = minus(h, h2) /\ e = IF h < h2 THEN h - h2 + Full ELSE h - h2
  BY MinusIs
<1>4. PICK g \in Word : g = minus(e, c) /\ g = IF e < c THEN e - c + Full ELSE e - c
  BY MinusIs
<1>5. w \in Nat /\ e \in Nat /\ g \in Nat /\ w < Full
  BY WordTyped
<1>6. PICK n \in Nat, m \in Nat :
          n = Join(h, l) /\ n < Square /\ m = Join(h2, l2) /\ m < Square
  BY JoinTyped
<1>7. n < m <=> h < h2 \/ (h = h2 /\ l < l2)
  BY <1>6, JoinOrder
<1>8. PICK p \in Nat, q \in Nat : p = Full * h /\ q = Full * h2 /\ n = p + l /\ m = q + l2
  <2>1. Full * h \in Nat /\ Full * h2 \in Nat
    BY <1>1
  <2> QED
    BY <1>6, <2>1, JoinTyped
<1>9. Join(g, w) = Full * g + w
  BY JoinTyped
<1>10. PICK b \in Nat, s \in Nat :
           b = (IF l < l2 THEN Full ELSE 0) /\ s = (IF n < m THEN Square ELSE 0)
  BY <1>1, SquareIs
<1>11. w = l - l2 + b
  BY <1>1, <1>2, <1>10
<1>12. Full * g = p - q - b + s
  <2>0. Square \in Nat /\ Square = Full * Full
    BY SquareIs DEF Square
  <2>1. Full * (h - h2) = p - q
    BY <1>1, <1>8
  <2>2. Full * (h - h2 - 1) = p - q - Full
    BY <1>1, <2>1
  <2>3. Full * (h - h2 + Full) = p - q + Square
    BY <1>1, <2>0, <2>1
  <2>4. Full * (h - h2 - 1 + Full) = p - q - Full + Square
    BY <1>1, <2>0, <2>2
  <2>5. g = IF n < m THEN (IF l < l2 THEN h - h2 - 1 + Full ELSE h - h2 + Full)
            ELSE (IF l < l2 THEN h - h2 - 1 ELSE h - h2)
    BY <1>1, <1>3, <1>4, <1>5, <1>7
  <2>6. CASE n < m /\ l < l2
    <3>1. g = h - h2 - 1 + Full /\ b = Full /\ s = Square
      BY <1>10, <2>5, <2>6
    <3> QED
      BY <2>4, <3>1
  <2>7. CASE n < m /\ ~(l < l2)
    <3>1. g = h - h2 + Full /\ b = 0 /\ s = Square /\ p - q + Square = p - q - 0 + Square
      BY <1>8, <1>10, <2>0, <2>5, <2>7
    <3> QED
      BY <2>3, <3>1
  <2>8. CASE ~(n < m) /\ l < l2
    <3>1. g = h - h2 - 1 /\ b = Full /\ s = 0 /\ p - q - Full = p - q - Full + 0
      BY <1>1, <1>8, <1>10, <2>5, <2>8
    <3> QED
      BY <2>2, <3>1
  <2>9. CASE ~(n < m) /\ ~(l < l2)
    <3>1. g = h - h2 /\ b = 0 /\ s = 0 /\ p - q = p - q - 0 + 0
      BY <1>8, <1>10, <2>5, <2>9
    <3> QED
      BY <2>1, <3>1
  <2> QED
    BY <2>6, <2>7, <2>8, <2>9
<1>13. Join(g, w) = n - m + s
  <2>1. PICK z \in Nat : z = Full * g
    BY <1>1, <1>5
  <2>2. z = p - q - b + s
    BY <1>12, <2>1
  <2>3. Join(g, w) = z + w
    BY <1>9, <2>1
  <2>4. n = p + l /\ m = q + l2
    BY <1>8
  <2> QED
    BY <1>1, <1>11, <2>2, <2>3, <2>4
<1>14. (n - m) % Square = IF n < m THEN n - m + Square ELSE n - m
  BY <1>6, DifferenceIs
<1> QED
  BY <1>2, <1>3, <1>4, <1>6, <1>10, <1>13, <1>14

LEMMA ComplementOfPair ==
    ASSUME NEW h \in Word, NEW l \in Word
    PROVE  Join(lnot(h), lnot(l)) = Square - 1 - Join(h, l)
<1>1. /\ Full \in Nat \ {0} /\ h \in Nat /\ h < Full /\ l \in Nat /\ l < Full
  BY WordSizes128, WordTyped
<1>2. PICK g \in Word, w \in Word : g = lnot(h) /\ w = lnot(l) /\ g = Full - 1 - h /\ w = Full - 1 - l
  BY SmallWords
<1>3. Join(g, w) = Full * g + w /\ Join(h, l) = Full * h + l
  BY JoinTyped
<1>4. Full * g = Square - Full - Full * h
  BY <1>1, <1>2 DEF Square
<1>5. PICK p \in Nat, q \in Nat : p = Full * h /\ q = Full * g
  BY <1>1, <1>2, WordTyped
<1> QED
  BY <1>1, <1>2, <1>3, <1>4, <1>5, SquareIs

LEMMA QuotientTwice ==
    ASSUME NEW x \in Nat, NEW p \in Nat \ {0}, NEW q \in Nat \ {0}
    PROVE  x \div (p * q) = (x \div p) \div q
BY ModDiv

LEMMA QuotientsCommute ==
    ASSUME NEW x \in Nat, NEW p \in Nat \ {0}, NEW q \in Nat \ {0}
    PROVE  (x \div p) \div q = (x \div q) \div p
<1>1. x \div (p * q) = (x \div p) \div q
  BY ModDiv
<1>2. x \div (q * p) = (x \div q) \div p
  BY ModDiv
<1>3. p * q = q * p
  OBVIOUS
<1> QED
  BY <1>1, <1>2, <1>3

LEMMA QuotientOfProduct ==
    ASSUME NEW x \in Nat, NEW p \in Nat \ {0}, NEW q \in Nat \ {0}
    PROVE  (x * p) \div (p * q) = x \div q
<1>1. x * p = p * x + 0 /\ 0 \in Nat /\ 0 < p
  OBVIOUS
<1>2. PICK y \in Nat : y = x * p
  OBVIOUS
<1>3. y \div p = x
  BY <1>1, <1>2, DivUnique
<1>4. y \div (p * q) = (y \div p) \div q
  BY ModDiv
<1> QED
  BY <1>2, <1>3, <1>4

--------------------------------------------------------------------------
(* Shifts: one by less than a word splits the bits of both words. *)

LEMMA SplitPowers ==
    ASSUME NEW s \in 1..W - 1
    PROVE  /\ Power(2, s) \in Nat \ {0} /\ Power(2, W - s) \in Nat \ {0}
           /\ Full = Power(2, s) * Power(2, W - s)
           /\ s % W = s /\ (W - s) % W = W - s
<1>1. W \in Nat \ {0} /\ 2 \in Nat \ {0} /\ 2 \in Nat
  BY WordSizes128
<1>2. PICK t \in Nat : t = W - s /\ s + t = W /\ t < W /\ s < W
  <2>1. W - s \in Nat /\ s + (W - s) = W /\ W - s < W /\ s < W
    BY <1>1
  <2> QED
    BY <2>1
<1>3. Power(2, s + t) = Power(2, s) * Power(2, t)
  BY <1>1, <1>2, PowerSum
<1>4. Power(2, s) \in Nat \ {0} /\ Power(2, t) \in Nat \ {0}
  BY <1>1, PowerPositive
<1>5. s % W = s /\ t % W = t
  BY <1>1, <1>2, ModOfSmall
<1> QED
  BY <1>2, <1>3, <1>4, <1>5 DEF Full

LEMMA SmallLeft ==
    ASSUME NEW h \in Word, NEW l \in Word, NEW s \in 1..W - 1
    PROVE  /\ (Join(h, l) * Power(2, s)) % Square =
                  Join(plus(shl(h, s), shr(l, W - s)), shl(l, s))
           /\ plus(shl(h, s), shr(l, W - s)) =
                  ((Join(h, l) * Power(2, s)) \div Full) % Full
<1>1. Full \in Nat \ {0} /\ h \in Nat /\ l \in Nat
  BY WordSizes128, WordTyped
<1>2. PICK p \in Nat \ {0}, q \in Nat \ {0} : p = Power(2, s) /\ q = Power(2, W - s)
  BY SplitPowers
<1>3. /\ shl(h, s) = (h * p) % Full /\ shl(l, s) = (l * p) % Full
      /\ shr(l, W - s) = l \div q /\ Full = p * q
  BY <1>2, SplitPowers DEF shl, shr, Full
<1>4. PICK n \in Nat : n = Join(h, l) /\ n = Full * h + l
  BY JoinTyped
<1>5. PICK a \in Nat, b \in Nat, z \in Nat : a = h * p /\ b = l * p /\ z = n * p
  BY <1>1, <1>2
<1>6. z = Full * a + b
  <2>1. n * p = (Full * h) * p + l * p
    BY <1>1, <1>2, <1>4
  <2>2. (Full * h) * p = Full * (h * p)
    BY <1>1, <1>2
  <2> QED
    BY <1>5, <2>1, <2>2
<1>7. z \div Full = a + (b \div Full) /\ z % Full = b % Full
  <2>1. a \in Nat /\ b \in Nat /\ Full \in Nat \ {0}
    BY <1>1, <1>5
  <2>2. (Full * a + b) \div Full = a + (b \div Full) /\ (Full * a + b) % Full = b % Full
    BY <2>1, AddMultiple, Zenon
  <2> QED
    BY <1>6, <2>2
<1>8. b \div Full = l \div q /\ l \div q \in Nat
  <2>1. (l * p) \div (p * q) = l \div q
    <3>1. p \in Nat \ {0} /\ q \in Nat \ {0} /\ l \in Nat
      BY <1>1, <1>2
    <3> QED
      BY <3>1, QuotientOfProduct, Zenon
  <2>2. l \div q \in Nat
    BY <1>1, <1>2, QuotientTyped
  <2> QED
    BY <1>3, <1>5, <2>1, <2>2
<1>9. (a + (l \div q)) % Full = ((a % Full) + (l \div q)) % Full
  BY <1>1, <1>5, <1>8, ModOfSum
<1>10. plus(shl(h, s), shr(l, W - s)) = (z \div Full) % Full
  BY <1>3, <1>5, <1>7, <1>8, <1>9 DEF plus, Full
<1>11. z % Square = Join((z \div Full) % Full, z % Full)
  BY <1>5, ModSquare
<1> QED
  BY <1>2, <1>3, <1>4, <1>5, <1>7, <1>10, <1>11

LEMMA SmallRight ==
    ASSUME NEW h \in Word, NEW l \in Word, NEW s \in 1..W - 1
    PROVE  /\ Join(h, l) \div Power(2, s) =
                  Join(shr(h, s), plus(shr(l, s), shl(h, W - s)))
           /\ plus(shr(l, s), shl(h, W - s)) = (Join(h, l) \div Power(2, s)) % Full
<1>1. Full \in Nat \ {0} /\ h \in Nat /\ l \in Nat
  BY WordSizes128, WordTyped
<1>2. PICK p \in Nat \ {0}, q \in Nat \ {0} : p = Power(2, s) /\ q = Power(2, W - s)
  BY SplitPowers
<1>3. /\ shr(h, s) = h \div p /\ shr(l, s) = l \div p
      /\ shl(h, W - s) = (h * q) % Full /\ Full = p * q
  BY <1>2, SplitPowers DEF shl, shr, Full
<1>4. PICK n \in Nat : n = Join(h, l) /\ n = Full * h + l /\ n \div Full = h
  BY JoinTyped
<1>5. PICK a \in Nat, z \in Nat : a = h * q /\ z = n \div p
  BY <1>1, <1>2, <1>4, QuotientTyped
<1>6. n = p * a + l
  <2>1. Full * h = p * (h * q)
    BY <1>1, <1>2, <1>3
  <2> QED
    BY <1>4, <1>5, <2>1
<1>7. z = a + (l \div p) /\ l \div p \in Nat
  <2>1. (p * a + l) \div p = a + (l \div p)
    <3>1. p \in Nat \ {0} /\ a \in Nat /\ l \in Nat
      BY <1>1, <1>2, <1>5
    <3> QED
      BY <3>1, AddMultiple, Zenon
  <2>2. l \div p \in Nat
    BY <1>1, <1>2, QuotientTyped
  <2> QED
    BY <1>5, <1>6, <2>1, <2>2
<1>8. (a + (l \div p)) % Full = ((a % Full) + (l \div p)) % Full
  BY <1>1, <1>5, <1>7, ModOfSum
<1>9. plus(shr(l, s), shl(h, W - s)) = z % Full
  <2>1. PICK x \in Nat, y \in Nat : x = l \div p /\ y = a % Full
    BY <1>1, <1>5, <1>7, QuotientTyped
  <2>2. x + y = y + x
    BY <2>1
  <2> QED
    BY <1>3, <1>5, <1>7, <1>8, <2>1, <2>2 DEF plus, Full
<1>10. z \div Full = h \div p
  <2>1. (n \div p) \div Full = (n \div Full) \div p
    <3>1. p \in Nat \ {0} /\ n \in Nat /\ Full \in Nat \ {0}
      BY <1>1, <1>2, <1>4
    <3> QED
      BY <3>1, QuotientsCommute, Zenon
  <2> QED
    BY <1>4, <1>5, <2>1
<1>11. z = Full * (z \div Full) + (z % Full) /\ z \div Full \in Nat
  BY <1>1, <1>5, QuotientTyped
<1>12. z = Join(h \div p, z % Full)
  <2>1. PICK y \in Nat : y = z \div Full
    BY <1>11
  <2>2. Full * y = y * Full
    BY <1>1, <2>1
  <2> QED
    BY <1>10, <1>11, <2>1, <2>2 DEF Join
<1> QED
  BY <1>2, <1>3, <1>4, <1>5, <1>9, <1>12

LEMMA LargeLeft ==
    ASSUME NEW h \in Word, NEW l \in Word, NEW s \in W..2 * W - 1
    PROVE  (Join(h, l) * Power(2, s)) % Square = Join(shl(l, s - W), 0)
<1>1. /\ Full \in Nat \ {0} /\ h \in Nat /\ l \in Nat /\ W \in Nat \ {0} /\ 2 \in Nat \ {0} /\ 2 \in Nat
      /\ W \in Nat
  BY WordSizes128, WordTyped
<1>2. PICK t \in Nat : t = s - W /\ s = W + t /\ t < W
  <2>1. s - W \in Nat /\ s = W + (s - W) /\ s - W < W
    BY <1>1
  <2> QED
    BY <2>1
<1>3. PICK p \in Nat \ {0} : p = Power(2, t)
  BY <1>1, PowerPositive
<1>4. Power(2, s) = Full * p /\ t % W = t
  <2>1. Power(2, W + t) = Power(2, W) * Power(2, t)
    BY <1>1, <1>2, PowerSum
  <2>2. t % W = t
    BY <1>1, <1>2, ModOfSmall
  <2> QED
    BY <1>2, <1>3, <2>1, <2>2 DEF Full
<1>5. PICK n \in Nat : n = Join(h, l) /\ n = Full * h + l
  BY JoinTyped
<1>6. PICK a \in Nat, b \in Nat, y \in Nat, z \in Nat :
          a = h * p /\ b = l * p /\ y = n * p /\ z = Full * y + 0
  BY <1>1, <1>3, <1>5
<1>7. y = Full * a + b
  <2>1. n * p = (Full * h) * p + l * p
    BY <1>1, <1>3, <1>5
  <2>2. (Full * h) * p = Full * (h * p)
    BY <1>1, <1>3
  <2> QED
    BY <1>6, <2>1, <2>2
<1>8. n * Power(2, s) = z
  <2>1. n * (Full * p) = Full * (n * p)
    BY <1>1, <1>3, <1>5
  <2>2. Full * y + 0 = Full * y
    BY <1>1, <1>6
  <2> QED
    BY <1>4, <1>6, <2>1, <2>2
<1>9. z \div Full = y /\ z % Full = 0
  <2>1. 0 < Full /\ 0 \in Nat
    BY <1>1
  <2> QED
    BY <1>1, <1>6, <2>1, DivUnique
<1>10. y % Full = b % Full
  <2>1. a \in Nat /\ b \in Nat /\ Full \in Nat \ {0}
    BY <1>1, <1>6
  <2>2. (Full * a + b) % Full = b % Full
    BY <2>1, AddMultiple, Zenon
  <2> QED
    BY <1>7, <2>2
<1>11. shl(l, t) = b % Full
  BY <1>3, <1>4, <1>6 DEF shl, Full
<1>12. z % Square = Join(y % Full, 0)
  BY <1>6, <1>9, ModSquare
<1> QED
  BY <1>2, <1>5, <1>8, <1>10, <1>11, <1>12

LEMMA LargeRight ==
    ASSUME NEW h \in Word, NEW l \in Word, NEW s \in W..2 * W - 1
    PROVE  Join(h, l) \div Power(2, s) = Join(0, shr(h, s - W))
<1>1. /\ Full \in Nat \ {0} /\ h \in Nat /\ W \in Nat \ {0} /\ 2 \in Nat \ {0} /\ 2 \in Nat
      /\ W \in Nat
  BY WordSizes128, WordTyped
<1>2. PICK t \in Nat : t = s - W /\ s = W + t /\ t < W
  <2>1. s - W \in Nat /\ s = W + (s - W) /\ s - W < W
    BY <1>1
  <2> QED
    BY <2>1
<1>3. PICK p \in Nat \ {0} : p = Power(2, t)
  BY <1>1, PowerPositive
<1>4. Power(2, s) = Full * p /\ t % W = t
  <2>1. Power(2, W + t) = Power(2, W) * Power(2, t)
    BY <1>1, <1>2, PowerSum
  <2>2. t % W = t
    BY <1>1, <1>2, ModOfSmall
  <2> QED
    BY <1>2, <1>3, <2>1, <2>2 DEF Full
<1>5. PICK n \in Nat : n = Join(h, l) /\ n \div Full = h
  BY JoinTyped
<1>6. n \div (Full * p) = h \div p
  <2>1. n \div (Full * p) = (n \div Full) \div p
    BY <1>1, <1>3, <1>5, QuotientTwice, Zenon
  <2> QED
    BY <1>5, <2>1
<1>7. shr(h, t) = h \div p /\ h \div p \in Nat
  BY <1>1, <1>3, <1>4, QuotientTyped DEF shr
<1>8. Join(0, h \div p) = h \div p
  BY <1>1, <1>7 DEF Join
<1> QED
  BY <1>2, <1>4, <1>5, <1>6, <1>7, <1>8

--------------------------------------------------------------------------
(* Products, from the halves of a word. *)

LEMMA HalvesOfWord ==
    ASSUME NEW x \in Word
    PROVE  /\ x % Root \in Nat /\ x % Root < Root /\ x \div Root \in Nat /\ x \div Root < Root
           /\ x = Root * (x \div Root) + (x % Root)
           /\ x % Root \in Word /\ x \div Root \in Word
           /\ x & (Power(2, H) - 1) = x % Root /\ shr(x, H) = x \div Root
<1>1. /\ x \in Nat /\ x < Full /\ Root \in Nat \ {0} /\ Full \in Nat \ {0} /\ Full = Root * Root
      /\ H \in Nat /\ H < W /\ W \in Nat \ {0} /\ H + H = W /\ 2 \in Nat \ {0}
  BY WordTyped, WordSizes128
<1>2. x < Power(2, H + H)
  BY <1>1 DEF Full
<1>3. /\ x % Root \in Nat /\ x % Root < Root /\ x \div Root \in Nat /\ x \div Root < Root
  BY <1>1, <1>2, TwoHalves DEF Root
<1>4. x = Root * (x \div Root) + (x % Root) /\ x \div Root <= x
  BY <1>1, QuotientTyped
<1>5. x % Root <= x
  <2>1. PICK q \in Nat, r \in Nat, z \in Nat : q = x \div Root /\ r = x % Root /\ z = Root * q
    BY <1>1, <1>3
  <2>2. x = z + r
    BY <1>4, <2>1
  <2> QED
    BY <2>1, <2>2
<1>6. x % Root \in Word /\ x \div Root \in Word
  <2>1. PICK q \in Nat, r \in Nat : q = x \div Root /\ r = x % Root
    BY <1>3
  <2>2. q < Full /\ r < Full
    BY <1>1, <1>4, <1>5, <2>1
  <2> QED
    BY <2>1, <2>2, WordTyped
<1>7. H % W = H
  BY <1>1, ModOfSmall
<1>8. shr(x, H) = x \div Root
  BY <1>7 DEF shr, Root
<1> QED
  BY <1>3, <1>4, <1>6, <1>8, LowHalf

(* The product of two half words leaves room for one more half word. *)
LEMMA ProductFits ==
    ASSUME NEW a \in Nat, a < Root, NEW b \in Nat, b < Root, NEW c \in Nat, c < Root
    PROVE  a * b + c \in Word
<1>1. Root \in Nat \ {0} /\ Full = Root * Root
  BY WordSizes128
<1>2. a * b + a <= a * Root
  <2>1. CASE a = 0
    <3>1. 0 * b + 0 = 0 /\ 0 * Root = 0
      BY <1>1
    <3> QED
      BY <2>1, <3>1
  <2>2. CASE a # 0
    <3>1. a \in Nat \ {0} /\ Root \in Nat
      BY <1>1, <2>2
    <3> QED
      BY <3>1, MulLess
  <2> QED
    BY <2>1, <2>2
<1>3. Root * a + Root <= Root * Root
  BY <1>1, MulLess
<1>4. PICK y \in Nat, z \in Nat : y = a * b /\ z = a * Root /\ z = Root * a
  <2>1. a * b \in Nat /\ a * Root \in Nat /\ a * Root = Root * a
    BY <1>1
  <2> QED
    BY <2>1
<1>5. y + a <= z /\ z + Root <= Full
  BY <1>1, <1>2, <1>3, <1>4
<1>6. y + c \in Nat /\ y + c < Full
  <2>1. Full \in Nat /\ Root \in Nat
    BY WordSizes128
  <2> QED
    BY <1>4, <1>5, <2>1
<1> QED
  BY <1>4, <1>6, WordTyped

LEMMA ProductOfHalves ==
    ASSUME NEW a \in Nat, a < Root, NEW b \in Nat, b < Root
    PROVE  a * b \in Word /\ times(a, b) = a * b
<1>1. 0 \in Nat /\ 0 < Root /\ Full \in Nat \ {0}
  BY WordSizes128
<1>2. a * b + 0 \in Word
  BY <1>1, ProductFits
<1>3. PICK y \in Nat : y = a * b /\ y + 0 = y
  OBVIOUS
<1>4. y \in Word /\ y < Full
  BY <1>2, <1>3, WordTyped
<1>5. y % Full = y
  BY <1>1, <1>3, <1>4, ModOfSmall
<1> QED
  BY <1>3, <1>4, <1>5 DEF times, Full

(* A half word beside the lower half of a word. *)
LEMMA CombineIs ==
    ASSUME NEW q \in Word, NEW l \in Nat, l < Root
    PROVE  /\ plus(l, shl(q, H)) = (q % Root) * Root + l
           /\ (q % Root) * Root + l \in Word
<1>1. /\ q \in Nat /\ Root \in Nat \ {0} /\ Full \in Nat \ {0} /\ Full = Root * Root
      /\ H \in Nat /\ H < W /\ W \in Nat \ {0}
  BY WordTyped, WordSizes128
<1>2. PICK g \in Nat, r \in Nat : g = q \div Root /\ r = q % Root /\ r < Root /\ q = Root * g + r
  BY HalvesOfWord
<1>3. 0 \in Nat /\ 0 < Root
  BY <1>1
<1>4. r * Root \in Nat /\ r * Root + l \in Nat /\ Root * r = r * Root
  BY <1>1, <1>2
<1>5. Root * r + Root <= Root * Root
  BY <1>1, <1>2, MulLess
<1>6. PICK y \in Nat : y = r * Root
  BY <1>4
<1>7. y + Root <= Full
  BY <1>1, <1>4, <1>5, <1>6
<1>8. y + l \in Word /\ y < Full /\ y + l < Full
  BY <1>1, <1>6, <1>7, WordTyped
<1>9. shl(q, H) = y
  <2>1. H % W = H
    BY <1>1, ModOfSmall
  <2>2. shl(q, H) = (q * Root) % Full
    BY <2>1 DEF shl, Root, Full
  <2>3. q * Root = Full * g + y
    <3>0. Root \in Nat /\ g \in Nat /\ r \in Nat
      BY <1>1, <1>2
    <3>1. (Root * g + r) * Root = (Root * Root) * g + r * Root
      BY <3>0
    <3> QED
      BY <1>1, <1>2, <1>6, <3>1
  <2>4. PICK z \in Nat : z = q * Root
    BY <1>1
  <2>5. z % Full = y
    <3>1. z = Full * g + y /\ y < Full /\ Full \in Nat \ {0}
      BY <1>1, <1>8, <2>3, <2>4
    <3> QED
      BY <3>1, DivUnique
  <2> QED
    BY <2>2, <2>4, <2>5
<1>10. plus(l, y) = y + l
  <2>1. l + y = y + l /\ y + l \in Nat
    BY <1>6
  <2>2. (y + l) % Full = y + l
    BY <1>1, <1>8, <2>1, ModOfSmall
  <2> QED
    BY <2>1, <2>2 DEF plus, Full
<1> QED
  BY <1>2, <1>6, <1>8, <1>9, <1>10

LEMMA PlusFits ==
    ASSUME NEW a \in Nat, NEW b \in Nat, a + b \in Word
    PROVE  plus(a, b) = a + b
<1>1. a + b \in Nat /\ a + b < Full /\ Full \in Nat \ {0}
  BY WordTyped, WordSizes128
<1>2. (a + b) % Full = a + b
  BY <1>1, ModOfSmall
<1> QED
  BY <1>2 DEF plus, Full

(* Distributivity, for products whose factors are sums. *)
LEMMA Distributes ==
    ASSUME NEW a \in Nat, NEW b \in Nat, NEW c \in Nat, NEW d \in Nat
    PROVE  /\ (a * b + c) * d = a * (b * d) + c * d
           /\ (a + b) * d = a * d + b * d
           /\ a * b \in Nat /\ a * b = b * a
OBVIOUS

(* A word by a half word, from two products. *)
LEMMA ShortProduct ==
    ASSUME NEW x \in Word, NEW y \in Nat, y < Root,
           NEW p, p = times(x % Root, y),
           NEW q, q = plus(times(x \div Root, y), p \div Root)
    PROVE  /\ p \in Word /\ q \in Word
           /\ Join(q \div Root, (q % Root) * Root + (p % Root)) = x * y
<1>1. Root \in Nat \ {0} /\ Root \in Nat /\ Full = Root * Root
  BY WordSizes128
<1>2. PICK xl \in Nat, xh \in Nat :
          /\ xl = x % Root /\ xh = x \div Root /\ xl < Root /\ xh < Root /\ x = Root * xh + xl
  BY HalvesOfWord
<1>3. p \in Word /\ p = xl * y
  BY <1>2, ProductOfHalves
<1>4. PICK pl \in Nat, ph \in Nat :
          /\ pl = p % Root /\ ph = p \div Root /\ pl < Root /\ ph < Root /\ p = Root * ph + pl
  BY <1>3, HalvesOfWord
<1>5. q \in Word /\ q = xh * y + ph
  <2>1. xh * y + ph \in Word
    BY <1>2, <1>4, ProductFits
  <2>2. times(xh, y) = xh * y /\ xh * y \in Nat
    BY <1>2, ProductOfHalves
  <2>3. PICK z \in Nat : z = xh * y
    BY <2>2
  <2>4. plus(z, ph) = z + ph
    BY <2>1, <2>3, PlusFits
  <2> QED
    BY <1>2, <1>4, <2>1, <2>2, <2>3, <2>4
<1>6. PICK ql \in Nat, qh \in Nat :
          /\ ql = q % Root /\ qh = q \div Root /\ ql < Root /\ qh < Root /\ q = Root * qh + ql
  BY <1>5, HalvesOfWord
<1>7. Join(qh, ql * Root + pl) = qh * (Root * Root) + (ql * Root + pl)
  BY <1>1 DEF Join
<1>8. q * Root = qh * (Root * Root) + ql * Root
  <2>1. (Root * qh + ql) * Root = qh * (Root * Root) + ql * Root
    BY <1>1, <1>6
  <2> QED
    BY <1>6, <2>1
<1>9. q * Root = (xh * y) * Root + ph * Root
  <2>1. (xh * y + ph) * Root = (xh * y) * Root + ph * Root
    BY <1>1, <1>2, <1>4
  <2> QED
    BY <1>5, <2>1
<1>10. x * y = (xh * y) * Root + xl * y
  <2>1. (Root * xh + xl) * y = (xh * y) * Root + xl * y
    BY <1>1, <1>2
  <2> QED
    BY <1>2, <2>1
<1>11. xl * y = ph * Root + pl
  <2>1. Root * ph = ph * Root
    BY <1>1, <1>4
  <2> QED
    BY <1>3, <1>4, <2>1
<1>12. PICK a \in Nat, b \in Nat, c \in Nat, d \in Nat, f \in Nat :
           /\ a = qh * (Root * Root) /\ b = ql * Root /\ c = (xh * y) * Root
           /\ d = ph * Root /\ f = xl * y
  <2>1. Root * Root \in Nat /\ xh * y \in Nat /\ xl * y \in Nat
    BY <1>1, <1>2
  <2>2. qh * (Root * Root) \in Nat
    <3>1. PICK z \in Nat : z = Root * Root
      BY <2>1
    <3> QED
      BY <1>6, <3>1
  <2>3. (xh * y) * Root \in Nat
    <3>1. PICK z \in Nat : z = xh * y
      BY <2>1
    <3> QED
      BY <1>1, <3>1
  <2>4. ql * Root \in Nat /\ ph * Root \in Nat
    <3>1. ql \in Nat /\ ph \in Nat
      BY <1>4, <1>6
    <3> QED
      BY <1>1, <3>1
  <2> QED
    BY <2>1, <2>2, <2>3, <2>4
<1>13. a + b = c + d
  BY <1>8, <1>9, <1>12
<1>14. x * y = c + (d + pl)
  BY <1>10, <1>11, <1>12
<1>15. Join(qh, ql * Root + pl) = a + (b + pl)
  BY <1>7, <1>12
<1>16. a + (b + pl) = c + (d + pl)
  BY <1>4, <1>12, <1>13
<1> QED
  BY <1>3, <1>4, <1>5, <1>6, <1>14, <1>15, <1>16

(* Two words, from four products. *)
LEMMA LongProduct ==
    ASSUME NEW x \in Word, NEW y \in Word,
           NEW p, p = times(x % Root, y % Root),
           NEW t, t = plus(times(x \div Root, y % Root), p \div Root),
           NEW u, u = plus(times(x % Root, y \div Root), t % Root)
    PROVE  /\ p \in Word /\ t \in Word /\ u \in Word
           /\ Join(plus(plus(times(x \div Root, y \div Root), t \div Root), u \div Root),
                   (u % Root) * Root + (p % Root)) = x * y
           /\ plus(plus(times(x \div Root, y \div Root), t \div Root), u \div Root) \in Word
<1>1. /\ Root \in Nat \ {0} /\ Root \in Nat /\ Full = Root * Root /\ Full \in Nat \ {0}
      /\ Full \in Nat /\ x < Full /\ y < Full /\ x \in Nat /\ y \in Nat
  BY WordSizes128, WordTyped
<1>2. PICK xl \in Nat, xh \in Nat :
          /\ xl = x % Root /\ xh = x \div Root /\ xl < Root /\ xh < Root /\ x = Root * xh + xl
  BY HalvesOfWord
<1>3. PICK yl \in Nat, yh \in Nat :
          /\ yl = y % Root /\ yh = y \div Root /\ yl < Root /\ yh < Root /\ y = Root * yh + yl
  BY HalvesOfWord
<1>4. p \in Word /\ p = xl * yl
  BY <1>2, <1>3, ProductOfHalves
<1>5. PICK pl \in Nat, ph \in Nat :
          /\ pl = p % Root /\ ph = p \div Root /\ pl < Root /\ ph < Root /\ p = Root * ph + pl
  BY <1>4, HalvesOfWord
<1>6. t \in Word /\ t = xh * yl + ph
  <2>1. xh * yl + ph \in Word
    BY <1>2, <1>3, <1>5, ProductFits
  <2>2. times(xh, yl) = xh * yl /\ xh * yl \in Nat
    BY <1>2, <1>3, ProductOfHalves
  <2>3. PICK z \in Nat : z = xh * yl
    BY <2>2
  <2>4. plus(z, ph) = z + ph
    BY <2>1, <2>3, PlusFits
  <2> QED
    BY <1>2, <1>3, <1>5, <2>1, <2>2, <2>3, <2>4
<1>7. PICK tl \in Nat, th \in Nat :
          /\ tl = t % Root /\ th = t \div Root /\ tl < Root /\ th < Root /\ t = Root * th + tl
  BY <1>6, HalvesOfWord
<1>8. u \in Word /\ u = xl * yh + tl
  <2>1. xl * yh + tl \in Word
    BY <1>2, <1>3, <1>7, ProductFits
  <2>2. times(xl, yh) = xl * yh /\ xl * yh \in Nat
    BY <1>2, <1>3, ProductOfHalves
  <2>3. PICK z \in Nat : z = xl * yh
    BY <2>2
  <2>4. plus(z, tl) = z + tl
    BY <2>1, <2>3, PlusFits
  <2> QED
    BY <1>2, <1>3, <1>7, <2>1, <2>2, <2>3, <2>4
<1>9. PICK ul \in Nat, uh \in Nat :
          /\ ul = u % Root /\ uh = u \div Root /\ ul < Root /\ uh < Root /\ u = Root * uh + ul
  BY <1>8, HalvesOfWord
<1>10. /\ xl \in Nat /\ xh \in Nat /\ yl \in Nat /\ yh \in Nat /\ pl \in Nat /\ ph \in Nat
       /\ tl \in Nat /\ th \in Nat /\ ul \in Nat /\ uh \in Nat
  BY <1>2, <1>3, <1>5, <1>7, <1>9
(* The four products, as atoms. *)
<1>11. PICK hh \in Nat, hl \in Nat, lh \in Nat, ll \in Nat :
           hh = xh * yh /\ hl = xh * yl /\ lh = xl * yh /\ ll = xl * yl
  BY <1>10
<1>12. /\ ll = Root * ph + pl /\ hl + ph = Root * th + tl /\ lh + tl = Root * uh + ul
  BY <1>4, <1>5, <1>6, <1>7, <1>8, <1>9, <1>11
<1>13. x * y = Full * hh + Root * (hl + lh) + ll
  <2>1. (Root * xh + xl) * (Root * yh + yl)
            = (Root * Root) * (xh * yh) + Root * (xh * yl + xl * yh) + xl * yl
    BY <1>1, <1>10
  <2> QED
    BY <1>1, <1>2, <1>3, <1>11, <2>1
<1>14. PICK g \in Nat : g = hh + th + uh
  BY <1>10, <1>11
<1>15. x * y = Full * g + (ul * Root + pl)
  <2>1. ll = Root * ph + pl /\ hl = Root * th + tl - ph /\ lh = Root * uh + ul - tl
    <3>1. PICK a \in Nat, b \in Nat : a = Root * th /\ b = Root * uh
      BY <1>1, <1>10
    <3> QED
      BY <1>10, <1>11, <1>12, <3>1
  <2>2. Full * hh + Root * ((Root * th + tl - ph) + (Root * uh + ul - tl)) + (Root * ph + pl)
            = (Root * Root) * (hh + th + uh) + (ul * Root + pl)
    BY <1>1, <1>10, <1>11
  <2> QED
    BY <1>1, <1>13, <1>14, <2>1, <2>2
<1>16. ul * Root + pl \in Word
  BY <1>5, <1>8, <1>9, CombineIs
<1>17. g < Full
  <2>1. Full * g <= x * y
    <3>1. PICK a \in Nat, b \in Nat, c \in Nat : a = Full * g /\ b = ul * Root + pl /\ c = x * y
      <4>1. Full * g \in Nat /\ x * y \in Nat /\ ul * Root + pl \in Nat
        BY <1>1, <1>14, <1>16, WordTyped
      <4> QED
        BY <4>1
    <3> QED
      BY <1>15, <3>1
  <2>2. x * y < Full * Full
    <3>1. x * y + x <= x * Full
      <4>1. CASE x = 0
        <5>1. 0 * y + 0 = 0 /\ 0 * Full = 0
          BY <1>1
        <5> QED
          BY <4>1, <5>1
      <4>2. CASE x # 0
        <5>1. x \in Nat \ {0}
          BY <1>1, <4>2
        <5> QED
          BY <1>1, <5>1, MulLess
      <4> QED
        BY <4>1, <4>2
    <3>2. Full * x + Full <= Full * Full
      BY <1>1, MulLess
    <3>3. PICK a \in Nat, b \in Nat, c \in Nat : a = x * y /\ b = x * Full /\ c = Full * Full /\ b = Full * x
      <4>1. x * y \in Nat /\ x * Full \in Nat /\ Full * Full \in Nat /\ x * Full = Full * x
        BY <1>1
      <4> QED
        BY <4>1
    <3>4. a + x <= b /\ b + Full <= c /\ 0 < Full
      BY <1>1, <3>1, <3>2, <3>3
    <3>5. a < c
      BY <1>1, <3>3, <3>4
    <3> QED
      BY <3>3, <3>5
  <2>3. Full * g < Full * Full
    <3>1. PICK a \in Nat, b \in Nat, c \in Nat : a = Full * g /\ b = x * y /\ c = Full * Full
      <4>1. Full * g \in Nat /\ x * y \in Nat /\ Full * Full \in Nat
        BY <1>1, <1>14
      <4> QED
        BY <4>1
    <3> QED
      BY <2>1, <2>2, <3>1
  <2>4. Full < g => Full * Full + Full <= Full * g
    BY <1>1, <1>14, MulLess
  <2>5. PICK a \in Nat, c \in Nat : a = Full * g /\ c = Full * Full
    <3>1. Full * g \in Nat /\ Full * Full \in Nat
      BY <1>1, <1>14
    <3> QED
      BY <3>1
  <2>6. Full < g => c + Full <= a
    BY <2>4, <2>5
  <2>7. a < c
    BY <2>3, <2>5
  <2>8. Full = g => a = c
    BY <2>5
  <2> QED
    BY <1>1, <1>14, <2>5, <2>6, <2>7, <2>8
<1>18. g \in Word
  BY <1>17, WordTyped
<1>19. plus(plus(times(xh, yh), th), uh) = g
  <2>1. times(xh, yh) = hh
    BY <1>2, <1>3, <1>11, ProductOfHalves
  <2>2. hh + th \in Word /\ (hh + th) + uh \in Word /\ hh + th \in Nat
    <3>1. hh + th \in Nat /\ hh + th < Full /\ (hh + th) + uh = g
      BY <1>1, <1>10, <1>14, <1>17
    <3> QED
      BY <1>18, <3>1, WordTyped
  <2>3. plus(hh, th) = hh + th
    BY <1>10, <2>2, PlusFits
  <2>4. plus(hh + th, uh) = (hh + th) + uh
    BY <1>10, <2>2, PlusFits
  <2> QED
    BY <1>14, <2>1, <2>3, <2>4
<1>20. Join(g, ul * Root + pl) = x * y
  BY <1>15, <1>16, <1>18, JoinTyped
<1> QED
  BY <1>2, <1>3, <1>4, <1>5, <1>6, <1>7, <1>8, <1>9, <1>18, <1>19, <1>20

--------------------------------------------------------------------------
(* The words of the instances are the words here. *)

LEMMA VerifiedWords ==
    /\ Verified!H = H /\ Verified!Ones = Ones
    /\ \A x, y : /\ Verified!Power(x, y) = Power(x, y)
                 /\ Verified!plus(x, y) = plus(x, y) /\ Verified!minus(x, y) = minus(x, y)
                 /\ Verified!times(x, y) = times(x, y)
                 /\ Verified!shl(x, y) = shl(x, y) /\ Verified!shr(x, y) = shr(x, y)
                 /\ Verified!&(x, y) = x & y /\ Verified!|(x, y) = x | y
                 /\ Verified!^^(x, y) = x ^^ y
    /\ \A x : Verified!lnot(x) = lnot(x) /\ Verified!TopBit(x) = TopBit(x)
<1>1. \A x, y : Verified!Power(x, y) = Power(x, y)
  BY DEF Verified!Power, Power
<1>2. \A x, y : Verified!Number(x, y) = Number(x, y)
  BY <1>1 DEF Verified!Number, Number
<1>3. \A x : Verified!Bits(x) = Bits(x)
  BY <1>1 DEF Verified!Bits, Bits, Verified!Digits, Digits, Verified!Digit, Digit
<1>4. \A x, y : Verified!&(x, y) = x & y /\ Verified!|(x, y) = x | y
                /\ Verified!^^(x, y) = x ^^ y
  BY <1>2, <1>3 DEF Verified!&, Verified!|, Verified!^^, &, |, ^^
<1>5. Verified!H = H /\ Verified!Ones = Ones
  BY <1>1 DEF Verified!H, H, Verified!Ones, Ones
<1>6. \A x, y : /\ Verified!plus(x, y) = plus(x, y) /\ Verified!minus(x, y) = minus(x, y)
                /\ Verified!times(x, y) = times(x, y)
  BY <1>1 DEF Verified!plus, plus, Verified!minus, minus, Verified!times, times
<1>7. \A x, y : Verified!shl(x, y) = shl(x, y) /\ Verified!shr(x, y) = shr(x, y)
  BY <1>1 DEF Verified!shl, shl, Verified!shr, shr
<1>8. \A x : Verified!lnot(x) = lnot(x) /\ Verified!TopBit(x) = TopBit(x)
  BY <1>5, <1>7 DEF Verified!lnot, lnot, Verified!TopBit, TopBit
<1> QED
  BY <1>1, <1>4, <1>5, <1>6, <1>7, <1>8

LEMMA VerifiedMasks ==
    \A x, y : /\ Verified!FStar_UInt64_eq_mask(x, y) = FStar_UInt64_eq_mask(x, y)
              /\ Verified!FStar_UInt64_gte_mask(x, y) = FStar_UInt64_gte_mask(x, y)
              /\ Verified!constant_time_carry(x, y) = SignBit(x, y)
<1>1. \A x, y : Verified!FStar_UInt64_eq_mask(x, y) = FStar_UInt64_eq_mask(x, y)
  BY VerifiedWords DEF Verified!FStar_UInt64_eq_mask, FStar_UInt64_eq_mask
<1>2. \A x, y : Verified!FStar_UInt64_gte_mask(x, y) = FStar_UInt64_gte_mask(x, y)
  BY VerifiedWords DEF Verified!FStar_UInt64_gte_mask, FStar_UInt64_gte_mask
<1>3. \A x, y : Verified!constant_time_carry(x, y) = SignBit(x, y)
  BY VerifiedWords DEF Verified!constant_time_carry, SignBit
<1> QED
  BY <1>1, <1>2, <1>3
LEMMA Gcc64Words ==
    /\ Gcc64!H = H /\ Gcc64!Ones = Ones
    /\ \A x, y : /\ Gcc64!Power(x, y) = Power(x, y)
                 /\ Gcc64!plus(x, y) = plus(x, y) /\ Gcc64!minus(x, y) = minus(x, y)
                 /\ Gcc64!times(x, y) = times(x, y)
                 /\ Gcc64!shl(x, y) = shl(x, y) /\ Gcc64!shr(x, y) = shr(x, y)
                 /\ Gcc64!&(x, y) = x & y /\ Gcc64!|(x, y) = x | y
                 /\ Gcc64!^^(x, y) = x ^^ y
    /\ \A x : Gcc64!lnot(x) = lnot(x) /\ Gcc64!TopBit(x) = TopBit(x)
<1>1. \A x, y : Gcc64!Power(x, y) = Power(x, y)
  BY DEF Gcc64!Power, Power
<1>2. \A x, y : Gcc64!Number(x, y) = Number(x, y)
  BY <1>1 DEF Gcc64!Number, Number
<1>3. \A x : Gcc64!Bits(x) = Bits(x)
  BY <1>1 DEF Gcc64!Bits, Bits, Gcc64!Digits, Digits, Gcc64!Digit, Digit
<1>4. \A x, y : Gcc64!&(x, y) = x & y /\ Gcc64!|(x, y) = x | y
                /\ Gcc64!^^(x, y) = x ^^ y
  BY <1>2, <1>3 DEF Gcc64!&, Gcc64!|, Gcc64!^^, &, |, ^^
<1>5. Gcc64!H = H /\ Gcc64!Ones = Ones
  BY <1>1 DEF Gcc64!H, H, Gcc64!Ones, Ones
<1>6. \A x, y : /\ Gcc64!plus(x, y) = plus(x, y) /\ Gcc64!minus(x, y) = minus(x, y)
                /\ Gcc64!times(x, y) = times(x, y)
  BY <1>1 DEF Gcc64!plus, plus, Gcc64!minus, minus, Gcc64!times, times
<1>7. \A x, y : Gcc64!shl(x, y) = shl(x, y) /\ Gcc64!shr(x, y) = shr(x, y)
  BY <1>1 DEF Gcc64!shl, shl, Gcc64!shr, shr
<1>8. \A x : Gcc64!lnot(x) = lnot(x) /\ Gcc64!TopBit(x) = TopBit(x)
  BY <1>5, <1>7 DEF Gcc64!lnot, lnot, Gcc64!TopBit, TopBit
<1> QED
  BY <1>1, <1>4, <1>5, <1>6, <1>7, <1>8

LEMMA Gcc64Masks ==
    \A x, y : /\ Gcc64!FStar_UInt64_eq_mask(x, y) = FStar_UInt64_eq_mask(x, y)
              /\ Gcc64!FStar_UInt64_gte_mask(x, y) = FStar_UInt64_gte_mask(x, y)
<1>1. \A x, y : Gcc64!FStar_UInt64_eq_mask(x, y) = FStar_UInt64_eq_mask(x, y)
  BY Gcc64Words DEF Gcc64!FStar_UInt64_eq_mask, FStar_UInt64_eq_mask
<1>2. \A x, y : Gcc64!FStar_UInt64_gte_mask(x, y) = FStar_UInt64_gte_mask(x, y)
  BY Gcc64Words DEF Gcc64!FStar_UInt64_gte_mask, FStar_UInt64_gte_mask
<1> QED
  BY <1>1, <1>2
LEMMA MsvcWords ==
    /\ Msvc!H = H /\ Msvc!Ones = Ones
    /\ \A x, y : /\ Msvc!Power(x, y) = Power(x, y)
                 /\ Msvc!plus(x, y) = plus(x, y) /\ Msvc!minus(x, y) = minus(x, y)
                 /\ Msvc!times(x, y) = times(x, y)
                 /\ Msvc!shl(x, y) = shl(x, y) /\ Msvc!shr(x, y) = shr(x, y)
                 /\ Msvc!&(x, y) = x & y /\ Msvc!|(x, y) = x | y
                 /\ Msvc!^^(x, y) = x ^^ y
    /\ \A x : Msvc!lnot(x) = lnot(x) /\ Msvc!TopBit(x) = TopBit(x)
<1>1. \A x, y : Msvc!Power(x, y) = Power(x, y)
  BY DEF Msvc!Power, Power
<1>2. \A x, y : Msvc!Number(x, y) = Number(x, y)
  BY <1>1 DEF Msvc!Number, Number
<1>3. \A x : Msvc!Bits(x) = Bits(x)
  BY <1>1 DEF Msvc!Bits, Bits, Msvc!Digits, Digits, Msvc!Digit, Digit
<1>4. \A x, y : Msvc!&(x, y) = x & y /\ Msvc!|(x, y) = x | y
                /\ Msvc!^^(x, y) = x ^^ y
  BY <1>2, <1>3 DEF Msvc!&, Msvc!|, Msvc!^^, &, |, ^^
<1>5. Msvc!H = H /\ Msvc!Ones = Ones
  BY <1>1 DEF Msvc!H, H, Msvc!Ones, Ones
<1>6. \A x, y : /\ Msvc!plus(x, y) = plus(x, y) /\ Msvc!minus(x, y) = minus(x, y)
                /\ Msvc!times(x, y) = times(x, y)
  BY <1>1 DEF Msvc!plus, plus, Msvc!minus, minus, Msvc!times, times
<1>7. \A x, y : Msvc!shl(x, y) = shl(x, y) /\ Msvc!shr(x, y) = shr(x, y)
  BY <1>1 DEF Msvc!shl, shl, Msvc!shr, shr
<1>8. \A x : Msvc!lnot(x) = lnot(x) /\ Msvc!TopBit(x) = TopBit(x)
  BY <1>5, <1>7 DEF Msvc!lnot, lnot, Msvc!TopBit, TopBit
<1> QED
  BY <1>1, <1>4, <1>5, <1>6, <1>7, <1>8

LEMMA MsvcPairWords ==
    /\ Msvc!V!H = H /\ Msvc!V!Ones = Ones
    /\ \A x, y : /\ Msvc!V!Power(x, y) = Power(x, y)
                 /\ Msvc!V!plus(x, y) = plus(x, y) /\ Msvc!V!minus(x, y) = minus(x, y)
                 /\ Msvc!V!times(x, y) = times(x, y)
                 /\ Msvc!V!shl(x, y) = shl(x, y) /\ Msvc!V!shr(x, y) = shr(x, y)
                 /\ Msvc!V!&(x, y) = x & y /\ Msvc!V!|(x, y) = x | y
                 /\ Msvc!V!^^(x, y) = x ^^ y
    /\ \A x : Msvc!V!lnot(x) = lnot(x) /\ Msvc!V!TopBit(x) = TopBit(x)
<1>1. \A x, y : Msvc!V!Power(x, y) = Power(x, y)
  BY DEF Msvc!V!Power, Power
<1>2. \A x, y : Msvc!V!Number(x, y) = Number(x, y)
  BY <1>1 DEF Msvc!V!Number, Number
<1>3. \A x : Msvc!V!Bits(x) = Bits(x)
  BY <1>1 DEF Msvc!V!Bits, Bits, Msvc!V!Digits, Digits, Msvc!V!Digit, Digit
<1>4. \A x, y : Msvc!V!&(x, y) = x & y /\ Msvc!V!|(x, y) = x | y
                /\ Msvc!V!^^(x, y) = x ^^ y
  BY <1>2, <1>3 DEF Msvc!V!&, Msvc!V!|, Msvc!V!^^, &, |, ^^
<1>5. Msvc!V!H = H /\ Msvc!V!Ones = Ones
  BY <1>1 DEF Msvc!V!H, H, Msvc!V!Ones, Ones
<1>6. \A x, y : /\ Msvc!V!plus(x, y) = plus(x, y) /\ Msvc!V!minus(x, y) = minus(x, y)
                /\ Msvc!V!times(x, y) = times(x, y)
  BY <1>1 DEF Msvc!V!plus, plus, Msvc!V!minus, minus, Msvc!V!times, times
<1>7. \A x, y : Msvc!V!shl(x, y) = shl(x, y) /\ Msvc!V!shr(x, y) = shr(x, y)
  BY <1>1 DEF Msvc!V!shl, shl, Msvc!V!shr, shr
<1>8. \A x : Msvc!V!lnot(x) = lnot(x) /\ Msvc!V!TopBit(x) = TopBit(x)
  BY <1>5, <1>7 DEF Msvc!V!lnot, lnot, Msvc!V!TopBit, TopBit
<1> QED
  BY <1>1, <1>4, <1>5, <1>6, <1>7, <1>8

LEMMA MsvcPairMasks ==
    \A x, y : /\ Msvc!V!FStar_UInt64_eq_mask(x, y) = FStar_UInt64_eq_mask(x, y)
              /\ Msvc!V!FStar_UInt64_gte_mask(x, y) = FStar_UInt64_gte_mask(x, y)
              /\ Msvc!V!constant_time_carry(x, y) = SignBit(x, y)
<1>1. \A x, y : Msvc!V!FStar_UInt64_eq_mask(x, y) = FStar_UInt64_eq_mask(x, y)
  BY MsvcPairWords DEF Msvc!V!FStar_UInt64_eq_mask, FStar_UInt64_eq_mask
<1>2. \A x, y : Msvc!V!FStar_UInt64_gte_mask(x, y) = FStar_UInt64_gte_mask(x, y)
  BY MsvcPairWords DEF Msvc!V!FStar_UInt64_gte_mask, FStar_UInt64_gte_mask
<1>3. \A x, y : Msvc!V!constant_time_carry(x, y) = SignBit(x, y)
  BY MsvcPairWords DEF Msvc!V!constant_time_carry, SignBit
<1> QED
  BY <1>1, <1>2, <1>3

LEMMA NumbersWords ==
    /\ Numbers!Values = Square /\ Numbers!Word = Word /\ Numbers!Power(2, H) = Root
    /\ Numbers!H = H /\ Numbers!Power(2, W) = Full
    /\ \A x, y : /\ Numbers!Power(x, y) = Power(x, y)
                 /\ Numbers!&(x, y) = x & y /\ Numbers!|(x, y) = x | y
                 /\ Numbers!^^(x, y) = x ^^ y
<1>1. \A x, y : Numbers!Power(x, y) = Power(x, y)
  BY DEF Numbers!Power, Power
<1>2. \A x, y : Numbers!Number(x, y) = Number(x, y)
  BY <1>1 DEF Numbers!Number, Number
<1>3. \A x : Numbers!Bits(x) = Bits(x)
  BY <1>1 DEF Numbers!Bits, Bits, Numbers!Digits, Digits, Numbers!Digit, Digit
<1>4. \A x, y : Numbers!&(x, y) = x & y /\ Numbers!|(x, y) = x | y
                /\ Numbers!^^(x, y) = x ^^ y
  BY <1>2, <1>3 DEF Numbers!&, Numbers!|, Numbers!^^, &, |, ^^
<1>5. Numbers!Values = Square
  BY <1>1, SquareIs DEF Numbers!Values
<1>6. Numbers!H = H /\ Numbers!Word = Word
  BY <1>1 DEF Numbers!H, H, Numbers!Word, Word
<1>7. Numbers!Power(2, H) = Root /\ Numbers!Power(2, W) = Full
  BY <1>1 DEF Root, Full
<1> QED
  BY <1>1, <1>4, <1>5, <1>6, <1>7

(* The specification's answers, operation by operation. *)
LEMMA AnswersAre ==
    ASSUME NEW n, NEW m
    PROVE  /\ Numbers!Answer("add", n, m) = (n + m) % Square
           /\ Numbers!Answer("sub", n, m) = (n - m) % Square
           /\ Numbers!Answer("logand", n, m) = n & m
           /\ Numbers!Answer("logor", n, m) = (n | m)
           /\ Numbers!Answer("logxor", n, m) = n ^^ m
           /\ Numbers!Answer("lognot", n, m) = Square - 1 - n
           /\ Numbers!Answer("shift_left", n, m) = (n * Power(2, m)) % Square
           /\ Numbers!Answer("shift_right", n, m) = n \div Power(2, m)
           /\ Numbers!Answer("eq_mask", n, m) = (IF n = m THEN Square - 1 ELSE 0)
           /\ Numbers!Answer("gte_mask", n, m) = (IF n >= m THEN Square - 1 ELSE 0)
           /\ Numbers!Answer("eq", n, m) = (n = m)
           /\ Numbers!Answer("gt", n, m) = (n > m)
           /\ Numbers!Answer("lt", n, m) = (n < m)
           /\ Numbers!Answer("gte", n, m) = (n >= m)
           /\ Numbers!Answer("lte", n, m) = (n <= m)
           /\ Numbers!Answer("mul_wide", n, m) = (n % Full) * m
           /\ Numbers!Answer("mul32", n, m) = (n % Full) * m
           /\ Numbers!Answer("uint64_to_uint128", n, m) = n % Full
           /\ Numbers!Answer("uint128_to_uint64", n, m) = n % Full
<1>1. \A b : Numbers!Mask(b) = IF b THEN Square - 1 ELSE 0
  BY NumbersWords DEF Numbers!Mask
<1> QED
  BY <1>1, NumbersWords DEF Numbers!Answer

--------------------------------------------------------------------------
(* The extracted code. *)

LEMMA VerifiedPair ==
    ASSUME NEW h, NEW l
    PROVE  /\ Verified!Pair(h, l).high = h /\ Verified!Pair(h, l).low = l
           /\ Verified!Value(Verified!Pair(h, l)) = Join(h, l)
           /\ \A n : Verified!FromNumber(n) = Verified!Pair(n \div Full, n % Full)
<1>1. Verified!Pair(h, l).high = h /\ Verified!Pair(h, l).low = l
  BY DEF Verified!Pair
<1>2. Verified!Value(Verified!Pair(h, l)) = Join(h, l)
  BY <1>1, VerifiedWords DEF Verified!Value, Join, Full
<1>3. \A n : Verified!FromNumber(n) = Verified!Pair(n \div Full, n % Full)
  BY VerifiedWords DEF Verified!FromNumber, Full
<1> QED
  BY <1>1, <1>2, <1>3

LEMMA VerifiedSums ==
    ASSUME NEW h \in Word, NEW l \in Word, NEW h2 \in Word, NEW l2 \in Word,
           NEW a, a = Verified!Pair(h, l), NEW b, b = Verified!Pair(h2, l2)
    PROVE  /\ Verified!Value(Verified!add(a, b)) = (Join(h, l) + Join(h2, l2)) % Square
           /\ Verified!Value(Verified!sub(a, b)) = (Join(h, l) - Join(h2, l2)) % Square
<1>1. a.high = h /\ a.low = l /\ b.high = h2 /\ b.low = l2
  BY VerifiedPair
<1>2. l \in Nat /\ l < Full /\ l2 \in Nat /\ l2 < Full /\ Full \in Nat
  BY WordTyped, WordSizes128
<1>3. Verified!Value(Verified!add(a, b)) = (Join(h, l) + Join(h2, l2)) % Square
  <2>1. PICK w \in Word : w = plus(l, l2) /\ w = IF l + l2 < Full THEN l + l2 ELSE l + l2 - Full
    BY PlusIs
  <2>2. PICK c \in Word : c = SignBit(w, l2) /\ c = IF w < l2 THEN 1 ELSE 0
    BY SignBitIs, SmallWords
  <2>3. c = IF l + l2 < Full THEN 0 ELSE 1
    BY <1>2, <2>1, <2>2
  <2>4. Verified!add(a, b) = Verified!Pair(plus(plus(h, h2), c), w)
    BY <1>1, <2>1, <2>2, VerifiedWords, VerifiedMasks DEF Verified!add
  <2>5. Verified!Value(Verified!add(a, b)) = Join(plus(plus(h, h2), c), w)
    BY <2>4, VerifiedPair
  <2>6. Join(plus(plus(h, h2), c), plus(l, l2)) = (Join(h, l) + Join(h2, l2)) % Square
    BY <2>3, SumOfPairs
  <2> QED
    BY <2>1, <2>5, <2>6
<1>4. Verified!Value(Verified!sub(a, b)) = (Join(h, l) - Join(h2, l2)) % Square
  <2>1. PICK w \in Word : w = minus(l, l2) /\ w = IF l < l2 THEN l - l2 + Full ELSE l - l2
    BY MinusIs
  <2>2. PICK c \in Word : c = SignBit(l, w) /\ c = IF l < w THEN 1 ELSE 0
    BY SignBitIs, SmallWords
  <2>3. c = IF l < l2 THEN 1 ELSE 0
    BY <1>2, <2>1, <2>2
  <2>4. Verified!sub(a, b) = Verified!Pair(minus(minus(h, h2), c), w)
    BY <1>1, <2>1, <2>2, VerifiedWords, VerifiedMasks DEF Verified!sub
  <2>5. Verified!Value(Verified!sub(a, b)) = Join(minus(minus(h, h2), c), w)
    BY <2>4, VerifiedPair
  <2>6. Join(minus(minus(h, h2), c), minus(l, l2)) = (Join(h, l) - Join(h2, l2)) % Square
    BY <2>3, DifferenceOfPairs
  <2> QED
    BY <2>1, <2>5, <2>6
<1> QED
  BY <1>3, <1>4

LEMMA VerifiedBits ==
    ASSUME NEW h \in Word, NEW l \in Word, NEW h2 \in Word, NEW l2 \in Word,
           NEW a, a = Verified!Pair(h, l), NEW b, b = Verified!Pair(h2, l2)
    PROVE  /\ Verified!Value(Verified!logand(a, b)) = Join(h, l) & Join(h2, l2)
           /\ Verified!Value(Verified!logor(a, b)) = (Join(h, l) | Join(h2, l2))
           /\ Verified!Value(Verified!logxor(a, b)) = Join(h, l) ^^ Join(h2, l2)
           /\ Verified!Value(Verified!lognot(a)) = Square - 1 - Join(h, l)
<1>1. a.high = h /\ a.low = l /\ b.high = h2 /\ b.low = l2
  BY VerifiedPair
<1>2. Verified!logand(a, b) = Verified!Pair(h & h2, l & l2)
  BY <1>1, VerifiedWords DEF Verified!logand
<1>3. Verified!logor(a, b) = Verified!Pair(h | h2, l | l2)
  BY <1>1, VerifiedWords DEF Verified!logor
<1>4. Verified!logxor(a, b) = Verified!Pair(h ^^ h2, l ^^ l2)
  BY <1>1, VerifiedWords DEF Verified!logxor
<1>5. Verified!lognot(a) = Verified!Pair(lnot(h), lnot(l))
  BY <1>1, VerifiedWords DEF Verified!lognot
<1>6. /\ Join(h, l) & Join(h2, l2) = Join(h & h2, l & l2)
      /\ (Join(h, l) | Join(h2, l2)) = Join(h | h2, l | l2)
      /\ Join(h, l) ^^ Join(h2, l2) = Join(h ^^ h2, l ^^ l2)
  BY BitwiseJoined DEF Join
<1> QED
  BY <1>2, <1>3, <1>4, <1>5, <1>6, VerifiedPair, ComplementOfPair

LEMMA ShiftByNone ==
    ASSUME NEW n \in Nat, n < Square
    PROVE  (n * Power(2, 0)) % Square = n /\ n \div Power(2, 0) = n
<1>1. Power(2, 0) = 1 /\ Square \in Nat \ {0}
  BY PowerZero, SquareIs
<1>2. n * 1 = n /\ n \div 1 = n
  <2>1. n = 1 * n + 0 /\ 0 < 1 /\ 0 \in Nat /\ 1 \in Nat \ {0}
    OBVIOUS
  <2> QED
    BY <2>1, DivUnique
<1>3. n % Square = n
  BY <1>1, ModOfSmall
<1> QED
  BY <1>1, <1>2, <1>3

LEMMA VerifiedShifts ==
    ASSUME NEW h \in Word, NEW l \in Word, NEW a, a = Verified!Pair(h, l), NEW s \in 0..2 * W - 1
    PROVE  /\ Verified!Value(Verified!shift_left(a, s)) = (Join(h, l) * Power(2, s)) % Square
           /\ Verified!Value(Verified!shift_right(a, s)) = Join(h, l) \div Power(2, s)
<1>1. a.high = h /\ a.low = l /\ W \in Nat \ {0} /\ Verified!Value(a) = Join(h, l)
  BY VerifiedPair, WordSizes128
<1>2. CASE s = 0
  <2>1. Verified!shift_left(a, s) = a /\ Verified!shift_right(a, s) = a
    BY <1>1, <1>2 DEF Verified!shift_left, Verified!shift_left_small,
                      Verified!shift_right, Verified!shift_right_small
  <2> QED
    BY <1>1, <1>2, <2>1, ShiftByNone, JoinTyped
<1>3. CASE s \in 1..W - 1
  <2>0. s < W /\ s # 0
    BY <1>1, <1>3
  <2>1. Verified!shift_left(a, s) = Verified!Pair(plus(shl(h, s), shr(l, W - s)), shl(l, s))
    BY <1>1, <2>0, VerifiedWords DEF Verified!shift_left, Verified!shift_left_small
  <2>2. Verified!shift_right(a, s) = Verified!Pair(shr(h, s), plus(shr(l, s), shl(h, W - s)))
    BY <1>1, <2>0, VerifiedWords DEF Verified!shift_right, Verified!shift_right_small
  <2> QED
    BY <1>3, <2>1, <2>2, VerifiedPair, SmallLeft, SmallRight
<1>4. CASE s \in W..2 * W - 1
  <2>0. ~(s < W)
    BY <1>1, <1>4
  <2>1. Verified!shift_left(a, s) = Verified!Pair(shl(l, s - W), 0)
    BY <1>1, <2>0, VerifiedWords DEF Verified!shift_left, Verified!shift_left_large
  <2>2. Verified!shift_right(a, s) = Verified!Pair(0, shr(h, s - W))
    BY <1>1, <2>0, VerifiedWords DEF Verified!shift_right, Verified!shift_right_large
  <2> QED
    BY <1>4, <2>1, <2>2, VerifiedPair, LargeLeft, LargeRight
<1>5. s = 0 \/ s \in 1..W - 1 \/ s \in W..2 * W - 1
  BY <1>1
<1> QED
  BY <1>2, <1>3, <1>4, <1>5

LEMMA VerifiedComparisons ==
    ASSUME NEW h \in Word, NEW l \in Word, NEW h2 \in Word, NEW l2 \in Word,
           NEW a, a = Verified!Pair(h, l), NEW b, b = Verified!Pair(h2, l2)
    PROVE  /\ Verified!eq(a, b) = (Join(h, l) = Join(h2, l2))
           /\ Verified!gt(a, b) = (Join(h, l) > Join(h2, l2))
           /\ Verified!lt(a, b) = (Join(h, l) < Join(h2, l2))
           /\ Verified!gte(a, b) = (Join(h, l) >= Join(h2, l2))
           /\ Verified!lte(a, b) = (Join(h, l) <= Join(h2, l2))
<1>1. a.high = h /\ a.low = l /\ b.high = h2 /\ b.low = l2
  BY VerifiedPair
<1>2. h \in Nat /\ l \in Nat /\ h2 \in Nat /\ l2 \in Nat
  BY WordTyped
<1>3. /\ Verified!eq(a, b) = (l = l2 /\ h = h2)
      /\ Verified!gt(a, b) = (h > h2 \/ (h = h2 /\ l > l2))
      /\ Verified!lt(a, b) = (h < h2 \/ (h = h2 /\ l < l2))
      /\ Verified!gte(a, b) = (h > h2 \/ (h = h2 /\ l >= l2))
      /\ Verified!lte(a, b) = (h < h2 \/ (h = h2 /\ l <= l2))
  BY <1>1 DEF Verified!eq, Verified!gt, Verified!lt, Verified!gte, Verified!lte
<1>4. PICK n \in Nat, m \in Nat : n = Join(h, l) /\ m = Join(h2, l2)
  BY JoinTyped
<1>5. /\ n < m <=> h < h2 \/ (h = h2 /\ l < l2)
      /\ m < n <=> h2 < h \/ (h2 = h /\ l2 < l)
      /\ n = m <=> h = h2 /\ l = l2
  BY <1>4, JoinOrder
<1> QED
  BY <1>2, <1>3, <1>4, <1>5

(* The masks of words, combined, are the mask of the pair. *)
LEMMA PairMasks ==
    ASSUME NEW h \in Word, NEW l \in Word, NEW h2 \in Word, NEW l2 \in Word
    PROVE  /\ FStar_UInt64_eq_mask(l, l2) & FStar_UInt64_eq_mask(h, h2) =
                  IF Join(h, l) = Join(h2, l2) THEN Ones ELSE 0
           /\ FStar_UInt64_eq_mask(h, h2) & FStar_UInt64_eq_mask(l, l2) =
                  IF Join(h, l) = Join(h2, l2) THEN Ones ELSE 0
           /\ ((FStar_UInt64_gte_mask(h, h2) & lnot(FStar_UInt64_eq_mask(h, h2)))
                  | (FStar_UInt64_eq_mask(h, h2) & FStar_UInt64_gte_mask(l, l2))) =
                  IF Join(h, l) >= Join(h2, l2) THEN Ones ELSE 0
<1>1. h \in Nat /\ l \in Nat /\ h2 \in Nat /\ l2 \in Nat
  BY WordTyped
<1>2. /\ FStar_UInt64_eq_mask(l, l2) = (IF l = l2 THEN Ones ELSE 0)
      /\ FStar_UInt64_eq_mask(h, h2) = (IF h = h2 THEN Ones ELSE 0)
      /\ FStar_UInt64_gte_mask(l, l2) = (IF l >= l2 THEN Ones ELSE 0)
      /\ FStar_UInt64_gte_mask(h, h2) = (IF h >= h2 THEN Ones ELSE 0)
  BY EqMaskIs, GteMaskIs
<1>3. /\ Ones & Ones = Ones /\ Ones & 0 = 0 /\ 0 & Ones = 0 /\ 0 & 0 = 0
      /\ (Ones | 0) = Ones /\ (0 | Ones) = Ones /\ (0 | 0) = 0
  BY SmallWords, BitwiseLaws
<1>4. lnot(Ones) = 0 /\ lnot(0) = Ones
  <2>1. lnot(Ones) = Full - 1 - (Full - 1) /\ lnot(0) = Full - 1 - 0 /\ Ones = Full - 1
    BY SmallWords
  <2>2. Full \in Nat
    BY WordSizes128
  <2> QED
    BY <2>1, <2>2
<1>5. PICK n \in Nat, m \in Nat : n = Join(h, l) /\ m = Join(h2, l2)
  BY JoinTyped
<1>6. n = m <=> h = h2 /\ l = l2
  BY <1>5, JoinOrder
<1>7. n >= m <=> (h >= h2 /\ h # h2) \/ (h = h2 /\ l >= l2)
  <2>1. n < m <=> h < h2 \/ (h = h2 /\ l < l2)
    BY <1>5, JoinOrder
  <2> QED
    BY <1>1, <1>5, <2>1
<1>8. FStar_UInt64_eq_mask(l, l2) & FStar_UInt64_eq_mask(h, h2) = IF n = m THEN Ones ELSE 0
  BY <1>2, <1>3, <1>6
<1>9. FStar_UInt64_eq_mask(h, h2) & FStar_UInt64_eq_mask(l, l2) = IF n = m THEN Ones ELSE 0
  BY <1>2, <1>3, <1>6
<1>10. ((FStar_UInt64_gte_mask(h, h2) & lnot(FStar_UInt64_eq_mask(h, h2)))
          | (FStar_UInt64_eq_mask(h, h2) & FStar_UInt64_gte_mask(l, l2))) =
              IF n >= m THEN Ones ELSE 0
  <2>1. FStar_UInt64_gte_mask(h, h2) & lnot(FStar_UInt64_eq_mask(h, h2)) =
            IF h >= h2 /\ h # h2 THEN Ones ELSE 0
    BY <1>2, <1>3, <1>4
  <2>2. FStar_UInt64_eq_mask(h, h2) & FStar_UInt64_gte_mask(l, l2) =
            IF h = h2 /\ l >= l2 THEN Ones ELSE 0
    BY <1>2, <1>3
  <2>3. ~(h # h2 /\ h = h2)
    OBVIOUS
  <2> QED
    BY <1>3, <1>7, <2>1, <2>2, <2>3
<1> QED
  BY <1>5, <1>8, <1>9, <1>10

LEMMA MaskOfPair ==
    Join(Ones, Ones) = Square - 1 /\ Join(0, 0) = 0
<1>1. Full \in Nat \ {0} /\ Ones = Full - 1
  BY WordSizes128, SmallWords
<1>2. (Full - 1) * Full + (Full - 1) = Full * Full - 1 /\ 0 * Full + 0 = 0
  BY <1>1
<1> QED
  BY <1>1, <1>2 DEF Join, Square

LEMMA VerifiedMaskValues ==
    ASSUME NEW h \in Word, NEW l \in Word, NEW h2 \in Word, NEW l2 \in Word,
           NEW a, a = Verified!Pair(h, l), NEW b, b = Verified!Pair(h2, l2)
    PROVE  /\ Verified!Value(Verified!eq_mask(a, b)) =
                  IF Join(h, l) = Join(h2, l2) THEN Square - 1 ELSE 0
           /\ Verified!Value(Verified!gte_mask(a, b)) =
                  IF Join(h, l) >= Join(h2, l2) THEN Square - 1 ELSE 0
<1>1. a.high = h /\ a.low = l /\ b.high = h2 /\ b.low = l2
  BY VerifiedPair
<1>2. PICK e : e = FStar_UInt64_eq_mask(l, l2) & FStar_UInt64_eq_mask(h, h2)
  OBVIOUS
<1>3. PICK g : g = ((FStar_UInt64_gte_mask(h, h2) & lnot(FStar_UInt64_eq_mask(h, h2)))
                      | (FStar_UInt64_eq_mask(h, h2) & FStar_UInt64_gte_mask(l, l2)))
  OBVIOUS
<1>4. Verified!eq_mask(a, b) = Verified!Pair(e, e)
  BY <1>1, <1>2, VerifiedWords, VerifiedMasks DEF Verified!eq_mask
<1>5. Verified!gte_mask(a, b) = Verified!Pair(g, g)
  BY <1>1, <1>3, VerifiedWords, VerifiedMasks DEF Verified!gte_mask
<1>6. Verified!Value(Verified!eq_mask(a, b)) = Join(e, e)
  BY <1>4, VerifiedPair
<1>7. Verified!Value(Verified!gte_mask(a, b)) = Join(g, g)
  BY <1>5, VerifiedPair
<1>8. e = IF Join(h, l) = Join(h2, l2) THEN Ones ELSE 0
  BY <1>2, PairMasks
<1>9. g = IF Join(h, l) >= Join(h2, l2) THEN Ones ELSE 0
  BY <1>3, PairMasks
<1> QED
  BY <1>6, <1>7, <1>8, <1>9, MaskOfPair

LEMMA VerifiedProducts ==
    ASSUME NEW x \in Word
    PROVE  /\ \A y \in 0..Root - 1 : Verified!Value(Verified!mul32(x, y)) = x * y
           /\ \A y \in Word : Verified!Value(Verified!mul_wide(x, y)) = x * y
<1>1. \A y : Verified!u64_mod_32(y) = y & (Power(2, H) - 1)
  BY VerifiedWords DEF Verified!u64_mod_32
<1>2. \A y \in Word : Verified!u64_mod_32(y) = y % Root /\ shr(y, H) = y \div Root
  BY <1>1, HalvesOfWord
<1>3. \A hi, lo : Verified!u32_combine(hi, lo) = plus(lo, shl(hi, H))
  BY VerifiedWords DEF Verified!u32_combine
<1>4. ASSUME NEW y \in 0..Root - 1 PROVE Verified!Value(Verified!mul32(x, y)) = x * y
  <2>1. y \in Nat /\ y < Root
    BY WordSizes128
  <2>2. PICK p : p = times(x % Root, y)
    OBVIOUS
  <2>3. PICK q : q = plus(times(x \div Root, y), p \div Root)
    OBVIOUS
  <2>4. p \in Word /\ q \in Word /\ Join(q \div Root, (q % Root) * Root + (p % Root)) = x * y
    BY <2>1, <2>2, <2>3, ShortProduct
  <2>5. p % Root \in Nat /\ p % Root < Root
    BY <2>4, HalvesOfWord
  <2>6. Verified!mul32(x, y) = Verified!Pair(q \div Root, plus(p % Root, shl(q, H)))
    BY <1>2, <1>3, <2>2, <2>3, <2>4, VerifiedWords DEF Verified!mul32
  <2>7. plus(p % Root, shl(q, H)) = (q % Root) * Root + (p % Root)
    BY <2>4, <2>5, CombineIs
  <2> QED
    BY <2>4, <2>6, <2>7, VerifiedPair
<1>5. ASSUME NEW y \in Word PROVE Verified!Value(Verified!mul_wide(x, y)) = x * y
  <2>1. PICK p : p = times(x % Root, y % Root)
    OBVIOUS
  <2>2. PICK t : t = plus(times(x \div Root, y % Root), p \div Root)
    OBVIOUS
  <2>3. PICK u : u = plus(times(x % Root, y \div Root), t % Root)
    OBVIOUS
  <2>4. /\ p \in Word /\ t \in Word /\ u \in Word
        /\ Join(plus(plus(times(x \div Root, y \div Root), t \div Root), u \div Root),
                (u % Root) * Root + (p % Root)) = x * y
    BY <2>1, <2>2, <2>3, LongProduct
  <2>5. p % Root \in Nat /\ p % Root < Root
    BY <2>4, HalvesOfWord
  <2>6. Verified!mul_wide(x, y) =
            Verified!Pair(plus(plus(times(x \div Root, y \div Root), t \div Root), u \div Root),
                          plus(p % Root, shl(u, H)))
    BY <1>2, <1>3, <2>1, <2>2, <2>3, <2>4, VerifiedWords DEF Verified!mul_wide
  <2>7. plus(p % Root, shl(u, H)) = (u % Root) * Root + (p % Root)
    BY <2>4, <2>5, CombineIs
  <2> QED
    BY <2>4, <2>6, <2>7, VerifiedPair
<1> QED
  BY <1>4, <1>5

--------------------------------------------------------------------------
(* The compiler's integers. *)

LEMMA Gcc64Doubled ==
    ASSUME NEW mask \in {0, Ones}
    PROVE  Gcc64!doubled(mask) = Join(mask, mask)
<1>1. mask \in Word /\ 0 \in Word
  BY SmallWords
<1>2. (mask * Full + 0) | (0 * Full + mask) = (mask | 0) * Full + (0 | mask)
  BY <1>1, BitwiseJoined
<1>3. mask | 0 = mask /\ 0 | mask = mask
  BY <1>1, BitwiseLaws
<1>4. mask * Full + 0 = mask * Full /\ 0 * Full + mask = mask
  BY <1>1, WordTyped, WordSizes128
<1>5. Gcc64!doubled(mask) = ((mask * Full) | mask)
  BY Gcc64Words DEF Gcc64!doubled, Full
<1> QED
  BY <1>2, <1>3, <1>4, <1>5 DEF Join

LEMMA Gcc64Parts ==
    /\ \A x : Gcc64!high(x) = x \div Full /\ Gcc64!low(x) = x % Full /\ Gcc64!FromNumber(x) = x
    /\ Gcc64!Values = Square
BY Gcc64Words, SquareIs DEF Gcc64!high, Gcc64!low, Gcc64!FromNumber, Gcc64!Values, Full

LEMMA Gcc64MaskValues ==
    ASSUME NEW n \in Nat, n < Square, NEW m \in Nat, m < Square
    PROVE  /\ Gcc64!eq_mask(n, m) = IF n = m THEN Square - 1 ELSE 0
           /\ Gcc64!gte_mask(n, m) = IF n >= m THEN Square - 1 ELSE 0
<1>1. PICK h \in Word, l \in Word : h = n \div Full /\ l = n % Full /\ n = Join(h, l)
  BY Words128
<1>2. PICK h2 \in Word, l2 \in Word : h2 = m \div Full /\ l2 = m % Full /\ m = Join(h2, l2)
  BY Words128
<1>3. PICK e : e = FStar_UInt64_eq_mask(h, h2) & FStar_UInt64_eq_mask(l, l2)
  OBVIOUS
<1>4. PICK g : g = ((FStar_UInt64_gte_mask(h, h2) & lnot(FStar_UInt64_eq_mask(h, h2)))
                      | (FStar_UInt64_eq_mask(h, h2) & FStar_UInt64_gte_mask(l, l2)))
  OBVIOUS
<1>5. Gcc64!eq_mask(n, m) = Gcc64!doubled(e)
  BY <1>1, <1>2, <1>3, Gcc64Parts, Gcc64Words, Gcc64Masks DEF Gcc64!eq_mask
<1>6. Gcc64!gte_mask(n, m) = Gcc64!doubled(g)
  BY <1>1, <1>2, <1>4, Gcc64Parts, Gcc64Words, Gcc64Masks DEF Gcc64!gte_mask
<1>7. e = IF n = m THEN Ones ELSE 0
  <2>1. FStar_UInt64_eq_mask(h, h2) & FStar_UInt64_eq_mask(l, l2) =
            IF Join(h, l) = Join(h2, l2) THEN Ones ELSE 0
    BY PairMasks
  <2> QED
    BY <1>1, <1>2, <1>3, <2>1
<1>8. g = IF n >= m THEN Ones ELSE 0
  <2>1. ((FStar_UInt64_gte_mask(h, h2) & lnot(FStar_UInt64_eq_mask(h, h2)))
           | (FStar_UInt64_eq_mask(h, h2) & FStar_UInt64_gte_mask(l, l2))) =
               IF Join(h, l) >= Join(h2, l2) THEN Ones ELSE 0
    BY PairMasks
  <2> QED
    BY <1>1, <1>2, <1>4, <2>1
<1>9. Gcc64!doubled(Ones) = Square - 1 /\ Gcc64!doubled(0) = 0
  BY Gcc64Doubled, MaskOfPair
<1> QED
  BY <1>5, <1>6, <1>7, <1>8, <1>9

--------------------------------------------------------------------------
(* The intrinsics. *)

LEMMA MsvcPairs ==
    /\ \A h, l : /\ Msvc!set_epi64x(h, l) = Verified!Pair(h, l)
                 /\ Msvc!V!Pair(h, l) = Verified!Pair(h, l)
    /\ \A a : Msvc!Value(a) = Verified!Value(a)
    /\ \A n : Msvc!FromNumber(n) = Verified!FromNumber(n)
    /\ \A a, b : /\ Msvc!V!logand(a, b) = Verified!logand(a, b)
                 /\ Msvc!V!logor(a, b) = Verified!logor(a, b)
                 /\ Msvc!V!logxor(a, b) = Verified!logxor(a, b)
                 /\ Msvc!V!eq(a, b) = Verified!eq(a, b)
                 /\ Msvc!V!gt(a, b) = Verified!gt(a, b)
                 /\ Msvc!V!lt(a, b) = Verified!lt(a, b)
                 /\ Msvc!V!gte(a, b) = Verified!gte(a, b)
                 /\ Msvc!V!lte(a, b) = Verified!lte(a, b)
                 /\ Msvc!V!gte_mask(a, b) = Verified!gte_mask(a, b)
<1>1. \A h, l : /\ Msvc!V!Pair(h, l) = Verified!Pair(h, l)
                /\ Msvc!set_epi64x(h, l) = Verified!Pair(h, l)
  BY DEF Msvc!V!Pair, Verified!Pair, Msvc!set_epi64x
<1>2. \A a : Msvc!Value(a) = Verified!Value(a)
  BY MsvcPairWords, VerifiedWords DEF Msvc!Value, Msvc!V!Value, Verified!Value
<1>3. \A n : Msvc!FromNumber(n) = Verified!FromNumber(n)
  BY <1>1, MsvcPairWords, VerifiedWords DEF Msvc!FromNumber, Msvc!V!FromNumber, Verified!FromNumber
<1>4. \A a, b : /\ Msvc!V!logand(a, b) = Verified!logand(a, b)
                /\ Msvc!V!logor(a, b) = Verified!logor(a, b)
                /\ Msvc!V!logxor(a, b) = Verified!logxor(a, b)
  BY <1>1, MsvcPairWords, VerifiedWords
     DEF Msvc!V!logand, Verified!logand, Msvc!V!logor, Verified!logor, Msvc!V!logxor, Verified!logxor
<1>5. \A a, b : /\ Msvc!V!eq(a, b) = Verified!eq(a, b)
                /\ Msvc!V!gt(a, b) = Verified!gt(a, b)
                /\ Msvc!V!lt(a, b) = Verified!lt(a, b)
                /\ Msvc!V!gte(a, b) = Verified!gte(a, b)
                /\ Msvc!V!lte(a, b) = Verified!lte(a, b)
  BY DEF Msvc!V!eq, Verified!eq, Msvc!V!gt, Verified!gt, Msvc!V!lt, Verified!lt,
         Msvc!V!gte, Verified!gte, Msvc!V!lte, Verified!lte
<1>6. \A a, b : Msvc!V!gte_mask(a, b) = Verified!gte_mask(a, b)
  BY <1>1, MsvcPairWords, VerifiedWords, MsvcPairMasks, VerifiedMasks
     DEF Msvc!V!gte_mask, Verified!gte_mask
<1> QED
  BY <1>1, <1>2, <1>3, <1>4, <1>5, <1>6

LEMMA MsvcSums ==
    ASSUME NEW h \in Word, NEW l \in Word, NEW h2 \in Word, NEW l2 \in Word,
           NEW a, a = Verified!Pair(h, l), NEW b, b = Verified!Pair(h2, l2)
    PROVE  /\ Msvc!Value(Msvc!add(a, b)) = (Join(h, l) + Join(h2, l2)) % Square
           /\ Msvc!Value(Msvc!sub(a, b)) = (Join(h, l) - Join(h2, l2)) % Square
<1>1. a.high = h /\ a.low = l /\ b.high = h2 /\ b.low = l2
  BY VerifiedPair
<1>2. l \in Nat /\ l < Full /\ l2 \in Nat /\ l2 < Full /\ Full \in Nat \ {0}
  BY WordTyped, WordSizes128
<1>3. Msvc!Value(Msvc!add(a, b)) = (Join(h, l) + Join(h2, l2)) % Square
  <2>1. PICK w \in Word : w = plus(l, l2) /\ plus(w, 0) = w
    <3>1. plus(l, l2) \in Word /\ 0 \in Word
      BY PlusIs, SmallWords
    <3>2. PICK w \in Word : w = plus(l, l2)
      BY <3>1
    <3>3. w \in Nat /\ w < Full
      BY WordTyped
    <3>4. plus(w, 0) = IF w + 0 < Full THEN w + 0 ELSE w + 0 - Full
      BY <3>1, PlusIs
    <3> QED
      BY <3>2, <3>3, <3>4
  <2>2. PICK c \in Word : c = (l + l2 + 0) \div Full /\ c = IF l + l2 < Full THEN 0 ELSE 1
    <3>1. PICK z \in Nat : z = l + l2 /\ z + 0 = z
      BY <1>2
    <3>2. z < Full => z \div Full = 0
      BY <1>2, ModOfSmall
    <3>3. ~(z < Full) => z \div Full = 1
      <4> SUFFICES ASSUME ~(z < Full) PROVE z \div Full = 1
        OBVIOUS
      <4>1. PICK r \in Nat : r = z - Full
        BY <1>2, <3>1
      <4>2. z = Full * 1 + r /\ r < Full /\ 1 \in Nat
        BY <1>2, <3>1, <4>1
      <4> QED
        BY <1>2, <4>2, DivUnique
    <3> QED
      BY <3>1, <3>2, <3>3, SmallWords
  <2>3. /\ Msvc!addcarry(0, l, l2).out = w /\ Msvc!addcarry(0, l, l2).carry = c
        /\ Msvc!addcarry(c, h, h2).out = plus(plus(h, h2), c)
    BY <2>1, <2>2, MsvcWords DEF Msvc!addcarry, Full
  <2>4. Msvc!add(a, b) = Verified!Pair(plus(plus(h, h2), c), w)
    BY <1>1, <2>3, MsvcPairs DEF Msvc!add
  <2>5. Msvc!Value(Msvc!add(a, b)) = Join(plus(plus(h, h2), c), w)
    BY <2>4, VerifiedPair, MsvcPairs
  <2>6. Join(plus(plus(h, h2), c), plus(l, l2)) = (Join(h, l) + Join(h2, l2)) % Square
    BY <2>2, SumOfPairs
  <2> QED
    BY <2>1, <2>5, <2>6
<1>4. Msvc!Value(Msvc!sub(a, b)) = (Join(h, l) - Join(h2, l2)) % Square
  <2>1. PICK w \in Word : w = minus(l, l2) /\ minus(w, 0) = w
    <3>1. minus(l, l2) \in Word /\ 0 \in Word
      BY MinusIs, SmallWords
    <3>2. PICK w \in Word : w = minus(l, l2)
      BY <3>1
    <3>3. w \in Nat /\ w < Full
      BY WordTyped
    <3>4. minus(w, 0) = IF w < 0 THEN w - 0 + Full ELSE w - 0
      BY <3>1, MinusIs
    <3> QED
      BY <3>2, <3>3, <3>4
  <2>2. PICK c \in Word : c = (IF l < l2 + 0 THEN 1 ELSE 0) /\ c = IF l < l2 THEN 1 ELSE 0
    <3>1. l2 + 0 = l2
      BY <1>2
    <3> QED
      BY <3>1, SmallWords
  <2>3. /\ Msvc!subborrow(0, l, l2).out = w /\ Msvc!subborrow(0, l, l2).carry = c
        /\ Msvc!subborrow(c, h, h2).out = minus(minus(h, h2), c)
    BY <2>1, <2>2, MsvcWords DEF Msvc!subborrow
  <2>4. Msvc!sub(a, b) = Verified!Pair(minus(minus(h, h2), c), w)
    BY <1>1, <2>3, MsvcPairs DEF Msvc!sub
  <2>5. Msvc!Value(Msvc!sub(a, b)) = Join(minus(minus(h, h2), c), w)
    BY <2>4, VerifiedPair, MsvcPairs
  <2>6. Join(minus(minus(h, h2), c), minus(l, l2)) = (Join(h, l) - Join(h2, l2)) % Square
    BY <2>2, DifferenceOfPairs
  <2> QED
    BY <2>1, <2>5, <2>6
<1> QED
  BY <1>3, <1>4

LEMMA MsvcBits ==
    ASSUME NEW h \in Word, NEW l \in Word, NEW h2 \in Word, NEW l2 \in Word,
           NEW a, a = Verified!Pair(h, l), NEW b, b = Verified!Pair(h2, l2)
    PROVE  /\ Msvc!Value(Msvc!logical("logand", a, b)) = Join(h, l) & Join(h2, l2)
           /\ Msvc!Value(Msvc!logical("logor", a, b)) = (Join(h, l) | Join(h2, l2))
           /\ Msvc!Value(Msvc!logical("logxor", a, b)) = Join(h, l) ^^ Join(h2, l2)
           /\ Msvc!Value(Msvc!logical("lognot", a, b)) = Square - 1 - Join(h, l)
<1>1. /\ Msvc!logical("logand", a, b) = Verified!logand(a, b)
      /\ Msvc!logical("logor", a, b) = Verified!logor(a, b)
      /\ Msvc!logical("logxor", a, b) = Verified!logxor(a, b)
      /\ Msvc!logical("lognot", a, b) = Verified!logxor(a, Verified!Pair(Ones, Ones))
  BY MsvcPairs, MsvcWords DEF Msvc!logical
<1>2. Verified!logxor(a, Verified!Pair(Ones, Ones)) = Verified!Pair(lnot(h), lnot(l))
  <2>1. a.high = h /\ a.low = l
    BY VerifiedPair
  <2>2. Verified!Pair(Ones, Ones).high = Ones /\ Verified!Pair(Ones, Ones).low = Ones
    BY VerifiedPair
  <2>3. h ^^ Ones = lnot(h) /\ l ^^ Ones = lnot(l)
    BY XorOnes
  <2> QED
    BY <2>1, <2>2, <2>3, VerifiedWords DEF Verified!logxor
<1>3. Verified!Value(Verified!Pair(lnot(h), lnot(l))) = Square - 1 - Join(h, l)
  BY VerifiedPair, ComplementOfPair
<1> QED
  BY <1>1, <1>2, <1>3, VerifiedBits, MsvcPairs

LEMMA MsvcShifts ==
    ASSUME NEW h \in Word, NEW l \in Word, NEW a, a = Verified!Pair(h, l), NEW s \in 0..2 * W - 1
    PROVE  /\ Msvc!Value(Msvc!shift_left(a, s)) = (Join(h, l) * Power(2, s)) % Square
           /\ Msvc!Value(Msvc!shift_right(a, s)) = Join(h, l) \div Power(2, s)
<1>1. a.high = h /\ a.low = l /\ W \in Nat \ {0} /\ Msvc!Value(a) = Join(h, l)
  BY VerifiedPair, MsvcPairs, WordSizes128
<1>2. CASE s = 0
  <2>1. Msvc!shift_left(a, s) = a /\ Msvc!shift_right(a, s) = a
    BY <1>2 DEF Msvc!shift_left, Msvc!shift_right
  <2> QED
    BY <1>1, <1>2, <2>1, ShiftByNone, JoinTyped
<1>3. CASE s \in 1..W - 1
  <2>0. s < W /\ s # 0 /\ s % W = s
    BY <1>1, <1>3, SplitPowers
  <2>1. Msvc!set_epi64x(h, l) = a
    BY MsvcPairs
  <2>2. Msvc!shiftleft128(l, h, s) = ((Join(h, l) * Power(2, s)) \div Full) % Full
    BY <1>1, <2>0, <2>1, MsvcWords DEF Msvc!shiftleft128, Full
  <2>3. Msvc!shiftright128(l, h, s) = (Join(h, l) \div Power(2, s)) % Full
    BY <1>1, <2>0, <2>1, MsvcWords DEF Msvc!shiftright128, Full
  <2>4. Msvc!shift_left(a, s) = Verified!Pair(plus(shl(h, s), shr(l, W - s)), shl(l, s))
    <3>1. Msvc!shiftleft128(l, h, s) = plus(shl(h, s), shr(l, W - s))
      BY <1>3, <2>2, SmallLeft
    <3> QED
      BY <1>1, <2>0, <3>1, MsvcPairs, MsvcWords DEF Msvc!shift_left
  <2>5. Msvc!shift_right(a, s) = Verified!Pair(shr(h, s), plus(shr(l, s), shl(h, W - s)))
    <3>1. Msvc!shiftright128(l, h, s) = plus(shr(l, s), shl(h, W - s))
      BY <1>3, <2>3, SmallRight
    <3> QED
      BY <1>1, <2>0, <3>1, MsvcPairs, MsvcWords DEF Msvc!shift_right
  <2> QED
    BY <1>3, <2>4, <2>5, VerifiedPair, MsvcPairs, SmallLeft, SmallRight
<1>4. CASE s \in W..2 * W - 1
  <2>0. ~(s < W) /\ s # 0
    BY <1>1, <1>4
  <2>1. Msvc!shift_left(a, s) = Verified!Pair(shl(l, s - W), 0)
    BY <1>1, <2>0, MsvcPairs, MsvcWords DEF Msvc!shift_left
  <2>2. Msvc!shift_right(a, s) = Verified!Pair(0, shr(h, s - W))
    BY <1>1, <2>0, MsvcPairs, MsvcWords DEF Msvc!shift_right
  <2> QED
    BY <1>4, <2>1, <2>2, VerifiedPair, MsvcPairs, LargeLeft, LargeRight
<1>5. s = 0 \/ s \in 1..W - 1 \/ s \in W..2 * W - 1
  BY <1>1
<1> QED
  BY <1>2, <1>3, <1>4, <1>5

LEMMA MsvcProducts ==
    ASSUME NEW x \in Word, NEW y \in Word
    PROVE  Msvc!Value(Msvc!mul32(x, y)) = x * y /\ Msvc!Value(Msvc!mul_wide(x, y)) = x * y
<1>1. PICK z \in Nat : z = x * y
  <2>1. x \in Nat /\ y \in Nat
    BY WordTyped
  <2> QED
    BY <2>1
<1>2. Msvc!umul128(x, y) = Verified!Pair(z \div Full, z % Full)
  BY <1>1, MsvcWords, MsvcPairs DEF Msvc!umul128, Full
<1>3. Join(z \div Full, z % Full) = z
  <2>1. PICK q \in Nat, r \in Nat :
            z \div Full = q /\ z % Full = r /\ z = Full * q + r /\ Full \in Nat
    <3>1. z \in Nat /\ Full \in Nat \ {0}
      BY WordSizes128
    <3> QED
      BY <3>1, QuotientTyped
  <2>2. Full * q = q * Full
    BY <2>1
  <2> QED
    BY <2>1, <2>2 DEF Join
<1>4. Msvc!Value(Msvc!umul128(x, y)) = z
  BY <1>2, <1>3, VerifiedPair, MsvcPairs
<1> QED
  BY <1>1, <1>4 DEF Msvc!mul32, Msvc!mul_wide

(* A lane of a comparison: all ones or zero. *)
Filled(b) == IF b THEN Root - 1 ELSE 0

LEMMA FilledAnd ==
    \A b, c \in BOOLEAN : Filled(b) & Filled(c) = Filled(b /\ c)
<1>1. Root - 1 \in Word /\ 0 \in Word
  <2>1. Root \in Nat \ {0} /\ 0 \in Word /\ 0 \in Nat /\ 0 < Root
    BY WordSizes128, SmallWords
  <2>2. Root - 1 \in Nat /\ Root - 1 < Root
    BY <2>1
  <2>3. (0 * 0) + (Root - 1) \in Word
    BY <2>1, <2>2, ProductFits
  <2>4. (0 * 0) + (Root - 1) = Root - 1
    BY <2>1
  <2> QED
    BY <2>1, <2>3, <2>4
<1>2. PICK f \in Word : f = Root - 1
  BY <1>1
<1>3. f & f = f /\ f & 0 = 0 /\ 0 & f = 0 /\ 0 & 0 = 0
  BY <1>1, BitwiseLaws
<1> QED
  BY <1>2, <1>3 DEF Filled

LEMMA MsvcLanes ==
    ASSUME NEW h \in Word, NEW l \in Word
    PROVE  LET r == Msvc!Lanes(Verified!Pair(h, l))
           IN  /\ r[0] = l % Root /\ r[1] = l \div Root
               /\ r[2] = h % Root /\ r[3] = h \div Root
<1>1. /\ Root \in Nat \ {0} /\ Power(2, 0) = 1 /\ H \in Nat /\ l \in Nat /\ h \in Nat
      /\ 0 * H = 0 /\ 1 * H = H /\ (2 - 2) * H = 0 /\ (3 - 2) * H = H
  <2>1. 2 \in Nat /\ H \in Nat
    BY WordSizes128
  <2> QED
    BY <2>1, WordSizes128, PowerZero, WordTyped
<1>2. l \div 1 = l /\ h \div 1 = h
  <2>1. l = 1 * l + 0 /\ h = 1 * h + 0 /\ 0 < 1 /\ 0 \in Nat /\ 1 \in Nat \ {0}
    BY <1>1
  <2> QED
    BY <1>1, <2>1, DivUnique
<1>3. (l \div Root) % Root = l \div Root /\ (h \div Root) % Root = h \div Root
  <2>1. l \div Root \in Nat /\ l \div Root < Root /\ h \div Root \in Nat /\ h \div Root < Root
    BY HalvesOfWord
  <2> QED
    BY <1>1, <2>1, ModOfSmall
<1>4. Verified!Pair(h, l).high = h /\ Verified!Pair(h, l).low = l
  BY VerifiedPair
<1>5. \A k \in 0..3 : Msvc!Lanes(Verified!Pair(h, l))[k] =
          IF k < 2 THEN (l \div Power(2, k * H)) % Root ELSE (h \div Power(2, (k - 2) * H)) % Root
  BY <1>4, MsvcWords DEF Msvc!Lanes, Root
<1>6. 0 \in 0..3 /\ 1 \in 0..3 /\ 2 \in 0..3 /\ 3 \in 0..3
      /\ 0 < 2 /\ 1 < 2 /\ ~(2 < 2) /\ ~(3 < 2)
  OBVIOUS
<1>7. /\ Msvc!Lanes(Verified!Pair(h, l))[0] = (l \div Power(2, 0)) % Root
      /\ Msvc!Lanes(Verified!Pair(h, l))[1] = (l \div Power(2, H)) % Root
      /\ Msvc!Lanes(Verified!Pair(h, l))[2] = (h \div Power(2, 0)) % Root
      /\ Msvc!Lanes(Verified!Pair(h, l))[3] = (h \div Power(2, H)) % Root
  BY <1>1, <1>5, <1>6
<1> QED
  BY <1>1, <1>2, <1>3, <1>7 DEF Root

LEMMA MsvcEqMask ==
    ASSUME NEW h \in Word, NEW l \in Word, NEW h2 \in Word, NEW l2 \in Word,
           NEW a, a = Verified!Pair(h, l), NEW b, b = Verified!Pair(h2, l2)
    PROVE  Msvc!Value(Msvc!eq_mask(a, b)) = IF Join(h, l) = Join(h2, l2) THEN Square - 1 ELSE 0
<1> DEFINE r == Msvc!Lanes(a)
           s == Msvc!Lanes(b)
           r32 == Msvc!cmpeq_epi32(r, s)
           ret64 == Msvc!and_si128(r32, Msvc!shuffle_epi32(r32, Msvc!Neighbour))
           s64 == Msvc!shuffle_epi32(ret64, Msvc!OtherHalf)
           both == Msvc!and_si128(ret64, s64)
<1>1. PICK e0 \in BOOLEAN, e1 \in BOOLEAN, e2 \in BOOLEAN, e3 \in BOOLEAN :
          /\ e0 = (l % Root = l2 % Root) /\ e1 = (l \div Root = l2 \div Root)
          /\ e2 = (h % Root = h2 % Root) /\ e3 = (h \div Root = h2 \div Root)
  OBVIOUS
<1>2. /\ r[0] = l % Root /\ r[1] = l \div Root /\ r[2] = h % Root /\ r[3] = h \div Root
      /\ s[0] = l2 % Root /\ s[1] = l2 \div Root /\ s[2] = h2 % Root /\ s[3] = h2 \div Root
  BY MsvcLanes
<1>3. \A k \in 0..3 : r32[k] = Filled(r[k] = s[k])
  BY MsvcWords DEF Msvc!cmpeq_epi32, Filled, Root
<1>4. /\ Msvc!Neighbour[0] = 1 /\ Msvc!Neighbour[1] = 0
      /\ Msvc!Neighbour[2] = 3 /\ Msvc!Neighbour[3] = 2
  BY DEF Msvc!Neighbour
<1>5. /\ Msvc!OtherHalf[0] = 2 /\ Msvc!OtherHalf[1] = 3
      /\ Msvc!OtherHalf[2] = 0 /\ Msvc!OtherHalf[3] = 1
  BY DEF Msvc!OtherHalf
<1>6. \A k \in 0..3 : ret64[k] = r32[k] & r32[Msvc!Neighbour[k]]
  BY MsvcWords DEF Msvc!and_si128, Msvc!shuffle_epi32
<1>7. \A k \in 0..3 : both[k] = ret64[k] & ret64[Msvc!OtherHalf[k]]
  BY MsvcWords DEF Msvc!and_si128, Msvc!shuffle_epi32
<1>8. Msvc!eq_mask(a, b) = Verified!Pair(both[2] + both[3] * Root, both[0] + both[1] * Root)
  BY MsvcPairs, MsvcWords DEF Msvc!eq_mask, Msvc!Packed, Root
<1> HIDE DEF r, s, r32, ret64, s64, both
<1>9. 0 \in 0..3 /\ 1 \in 0..3 /\ 2 \in 0..3 /\ 3 \in 0..3
  OBVIOUS
<1>10. r32[0] = Filled(e0) /\ r32[1] = Filled(e1) /\ r32[2] = Filled(e2) /\ r32[3] = Filled(e3)
  BY <1>1, <1>2, <1>3, <1>9
<1>11. PICK f0 \in BOOLEAN, f2 \in BOOLEAN : f0 = (e0 /\ e1) /\ f2 = (e2 /\ e3)
  OBVIOUS
<1>12. /\ ret64[0] = Filled(f0) /\ ret64[1] = Filled(f0)
       /\ ret64[2] = Filled(f2) /\ ret64[3] = Filled(f2)
  <2>1. /\ ret64[0] = r32[0] & r32[1] /\ ret64[1] = r32[1] & r32[0]
        /\ ret64[2] = r32[2] & r32[3] /\ ret64[3] = r32[3] & r32[2]
    BY <1>4, <1>6, <1>9
  <2>2. /\ Filled(e0) & Filled(e1) = Filled(e0 /\ e1) /\ Filled(e1) & Filled(e0) = Filled(e1 /\ e0)
        /\ Filled(e2) & Filled(e3) = Filled(e2 /\ e3) /\ Filled(e3) & Filled(e2) = Filled(e3 /\ e2)
    BY FilledAnd
  <2>3. (e1 /\ e0) = f0 /\ (e0 /\ e1) = f0 /\ (e3 /\ e2) = f2 /\ (e2 /\ e3) = f2
    BY <1>11
  <2> QED
    BY <1>10, <2>1, <2>2, <2>3
<1>13. PICK g \in BOOLEAN : g = (f0 /\ f2)
  OBVIOUS
<1>14. both[0] = Filled(g) /\ both[1] = Filled(g) /\ both[2] = Filled(g) /\ both[3] = Filled(g)
  <2>1. /\ both[0] = ret64[0] & ret64[2] /\ both[1] = ret64[1] & ret64[3]
        /\ both[2] = ret64[2] & ret64[0] /\ both[3] = ret64[3] & ret64[1]
    BY <1>5, <1>7, <1>9
  <2>2. Filled(f0) & Filled(f2) = Filled(f0 /\ f2) /\ Filled(f2) & Filled(f0) = Filled(f2 /\ f0)
    BY FilledAnd
  <2>3. (f0 /\ f2) = g /\ (f2 /\ f0) = g
    BY <1>13
  <2> QED
    BY <1>12, <2>1, <2>2, <2>3
<1>15. Filled(g) + Filled(g) * Root = IF g THEN Ones ELSE 0
  <2>1. Root \in Nat \ {0} /\ Full = Root * Root /\ Ones = Full - 1
    BY WordSizes128, SmallWords
  <2>2. (Root - 1) + (Root - 1) * Root = Root * Root - 1 /\ 0 + 0 * Root = 0
    BY <2>1
  <2> QED
    BY <2>1, <2>2 DEF Filled
<1>16. Msvc!Value(Msvc!eq_mask(a, b)) = IF g THEN Square - 1 ELSE 0
  <2>1. PICK m : m = Filled(g) + Filled(g) * Root
    OBVIOUS
  <2>2. Msvc!eq_mask(a, b) = Verified!Pair(m, m)
    BY <1>8, <1>14, <2>1
  <2>3. Msvc!Value(Msvc!eq_mask(a, b)) = Join(m, m)
    BY <2>2, VerifiedPair, MsvcPairs
  <2> QED
    BY <1>15, <2>1, <2>3, MaskOfPair
<1>17. g <=> h = h2 /\ l = l2
  <2>1. g <=> e0 /\ e1 /\ e2 /\ e3
    BY <1>11, <1>13
  <2>2. l = l2 <=> (l % Root = l2 % Root /\ l \div Root = l2 \div Root)
    BY HalvesOfWord
  <2>3. h = h2 <=> (h % Root = h2 % Root /\ h \div Root = h2 \div Root)
    BY HalvesOfWord
  <2> QED
    BY <1>1, <2>1, <2>2, <2>3
<1> QED
  BY <1>16, <1>17, JoinOrder

--------------------------------------------------------------------------
(* The answers to every request. *)

(* The requests, by the arguments they may have. *)
LEMMA RequestCases ==
    ASSUME NEW o, NEW m, <<o, m>> \in Numbers!Requests
    PROVE  \/ /\ o \in {"add", "sub", "logand", "logor", "logxor", "eq_mask", "gte_mask",
                        "eq", "gt", "lt", "gte", "lte"}
              /\ m \in Nat /\ m < Square
           \/ o \in {"shift_left", "shift_right"} /\ m \in 0..2 * W - 1
           \/ o \in {"lognot", "uint64_to_uint128", "uint128_to_uint64"} /\ m = 0
           \/ o = "mul_wide" /\ m \in Word
           \/ o = "mul32" /\ m \in 0..Root - 1
<1>1. \A x \in Operands : x \in Nat /\ x < Square
  <2>1. Operands \subseteq 0..Square - 1 /\ Square \in Nat
    BY OperandsFit, SquareIs
  <2> QED
    BY <2>1
<1> QED
  BY <1>1, NumbersWords DEF Numbers!Requests, Numbers!PairOps, Numbers!ShiftOps, Numbers!UnaryOps

LEMMA RequestsArePairs ==
    ASSUME NEW r \in Numbers!Requests
    PROVE  r = <<r[1], r[2]>>
BY DEF Numbers!Requests

LEMMA SmallFactor == 0..Root - 1 \subseteq Word
<1>1. Root \in Nat \ {0} /\ 0 \in Nat /\ 0 < Root
  BY WordSizes128
<1>2. ASSUME NEW m \in 0..Root - 1 PROVE m \in Word
  <2>1. 0 * 0 + m \in Word
    BY <1>1, ProductFits
  <2>2. 0 * 0 + m = m
    BY <1>1
  <2> QED
    BY <2>1, <2>2
<1> QED
  BY <1>2

(* Each implementation answers every request as the specification does. *)
LEMMA VerifiedAnswers ==
    ASSUME NEW n \in Nat, n < Square, NEW o, NEW m, <<o, m>> \in Numbers!Requests
    PROVE  Verified!Answer(o, Verified!FromNumber(n), m) = Numbers!Answer(o, n, m)
<1>1. PICK h \in Word, l \in Word : h = n \div Full /\ l = n % Full /\ n = Join(h, l)
  BY Words128
<1>2. PICK a : a = Verified!FromNumber(n) /\ a = Verified!Pair(h, l) /\ a.low = l
  BY <1>1, VerifiedPair
<1>3. CASE /\ o \in {"add", "sub", "logand", "logor", "logxor", "eq_mask", "gte_mask",
                     "eq", "gt", "lt", "gte", "lte"}
           /\ m \in Nat /\ m < Square
  <2>1. PICK h2 \in Word, l2 \in Word : h2 = m \div Full /\ l2 = m % Full /\ m = Join(h2, l2)
    BY <1>3, Words128
  <2>2. PICK b : b = Verified!FromNumber(m) /\ b = Verified!Pair(h2, l2)
    BY <2>1, VerifiedPair
  <2>3. o \in {"add", "sub"} => Verified!Answer(o, a, m) = Numbers!Answer(o, n, m)
    <3>1. /\ Verified!Answer("add", a, m) = Verified!Value(Verified!add(a, b))
          /\ Verified!Answer("sub", a, m) = Verified!Value(Verified!sub(a, b))
      BY <2>2 DEF Verified!Answer
    <3> QED
      BY <1>1, <1>2, <2>1, <2>2, <3>1, VerifiedSums, AnswersAre
  <2>4. o \in {"logand", "logor", "logxor"} => Verified!Answer(o, a, m) = Numbers!Answer(o, n, m)
    <3>1. /\ Verified!Answer("logand", a, m) = Verified!Value(Verified!logand(a, b))
          /\ Verified!Answer("logor", a, m) = Verified!Value(Verified!logor(a, b))
          /\ Verified!Answer("logxor", a, m) = Verified!Value(Verified!logxor(a, b))
      BY <2>2 DEF Verified!Answer
    <3> QED
      BY <1>1, <1>2, <2>1, <2>2, <3>1, VerifiedBits, AnswersAre
  <2>5. o \in {"eq_mask", "gte_mask"} => Verified!Answer(o, a, m) = Numbers!Answer(o, n, m)
    <3>1. /\ Verified!Answer("eq_mask", a, m) = Verified!Value(Verified!eq_mask(a, b))
          /\ Verified!Answer("gte_mask", a, m) = Verified!Value(Verified!gte_mask(a, b))
      BY <2>2 DEF Verified!Answer
    <3> QED
      BY <1>1, <1>2, <2>1, <2>2, <3>1, VerifiedMaskValues, AnswersAre
  <2>6. o \in {"eq", "gt", "lt", "gte", "lte"} => Verified!Answer(o, a, m) = Numbers!Answer(o, n, m)
    <3>1. /\ Verified!Answer("eq", a, m) = Verified!eq(a, b)
          /\ Verified!Answer("gt", a, m) = Verified!gt(a, b)
          /\ Verified!Answer("lt", a, m) = Verified!lt(a, b)
          /\ Verified!Answer("gte", a, m) = Verified!gte(a, b)
          /\ Verified!Answer("lte", a, m) = Verified!lte(a, b)
      BY <2>2 DEF Verified!Answer
    <3> QED
      BY <1>1, <1>2, <2>1, <2>2, <3>1, VerifiedComparisons, AnswersAre
  <2> QED
    BY <1>2, <1>3, <2>3, <2>4, <2>5, <2>6
<1>4. CASE o \in {"shift_left", "shift_right"} /\ m \in 0..2 * W - 1
  <2>1. /\ Verified!Answer("shift_left", a, m) = Verified!Value(Verified!shift_left(a, m))
        /\ Verified!Answer("shift_right", a, m) = Verified!Value(Verified!shift_right(a, m))
    BY DEF Verified!Answer
  <2> QED
    BY <1>1, <1>2, <1>4, <2>1, VerifiedShifts, AnswersAre
<1>5. CASE o \in {"lognot", "uint64_to_uint128", "uint128_to_uint64"} /\ m = 0
  <2>1. /\ Verified!Answer("lognot", a, m) = Verified!Value(Verified!lognot(a))
        /\ Verified!Answer("uint64_to_uint128", a, m) =
               Verified!Value(Verified!uint64_to_uint128(a.low))
        /\ Verified!Answer("uint128_to_uint64", a, m) = Verified!uint128_to_uint64(a)
    BY DEF Verified!Answer
  <2>2. Verified!Value(Verified!lognot(a)) = Square - 1 - n
    BY <1>1, <1>2, VerifiedBits
  <2>3. Verified!Value(Verified!uint64_to_uint128(a.low)) = l
    <3>1. Verified!uint64_to_uint128(l) = Verified!Pair(0, l)
      BY DEF Verified!uint64_to_uint128
    <3>2. Join(0, l) = l
      BY WordTyped, WordSizes128 DEF Join
    <3> QED
      BY <1>2, <3>1, <3>2, VerifiedPair
  <2>4. Verified!uint128_to_uint64(a) = l
    BY <1>2 DEF Verified!uint128_to_uint64
  <2> QED
    BY <1>1, <1>2, <1>5, <2>1, <2>2, <2>3, <2>4, AnswersAre
<1>6. CASE o = "mul_wide" /\ m \in Word
  <2>1. Verified!Answer("mul_wide", a, m) = Verified!Value(Verified!mul_wide(a.low, m))
    BY DEF Verified!Answer
  <2> QED
    BY <1>1, <1>2, <1>6, <2>1, VerifiedProducts, AnswersAre
<1>7. CASE o = "mul32" /\ m \in 0..Root - 1
  <2>1. Verified!Answer("mul32", a, m) = Verified!Value(Verified!mul32(a.low, m))
    BY DEF Verified!Answer
  <2> QED
    BY <1>1, <1>2, <1>7, <2>1, VerifiedProducts, AnswersAre
<1> QED
  BY <1>3, <1>4, <1>5, <1>6, <1>7, RequestCases

LEMMA Gcc64Answers ==
    ASSUME NEW n \in Nat, n < Square, NEW o, NEW m, <<o, m>> \in Numbers!Requests
    PROVE  Gcc64!Answer(o, n, m) = Numbers!Answer(o, n, m)
<1>1. CASE /\ o \in {"add", "sub", "logand", "logor", "logxor", "eq_mask", "gte_mask",
                     "eq", "gt", "lt", "gte", "lte"}
           /\ m \in Nat /\ m < Square
  <2>1. /\ Gcc64!Answer("add", n, m) = (n + m) % Square
        /\ Gcc64!Answer("sub", n, m) = (n - m) % Square
    BY Gcc64Parts DEF Gcc64!Answer, Gcc64!arithmetic
  <2>2. /\ Gcc64!Answer("logand", n, m) = n & m
        /\ Gcc64!Answer("logor", n, m) = (n | m)
        /\ Gcc64!Answer("logxor", n, m) = n ^^ m
    BY Gcc64Words DEF Gcc64!Answer, Gcc64!bitwise
  <2>3. /\ Gcc64!Answer("eq_mask", n, m) = Gcc64!eq_mask(n, m)
        /\ Gcc64!Answer("gte_mask", n, m) = Gcc64!gte_mask(n, m)
    BY DEF Gcc64!Answer
  <2>4. /\ Gcc64!Answer("eq", n, m) = (n = m) /\ Gcc64!Answer("gt", n, m) = (n > m)
        /\ Gcc64!Answer("lt", n, m) = (n < m) /\ Gcc64!Answer("gte", n, m) = (n >= m)
        /\ Gcc64!Answer("lte", n, m) = (n <= m)
    BY DEF Gcc64!Answer, Gcc64!compare
  <2>5. /\ Gcc64!eq_mask(n, m) = (IF n = m THEN Square - 1 ELSE 0)
        /\ Gcc64!gte_mask(n, m) = (IF n >= m THEN Square - 1 ELSE 0)
    BY <1>1, Gcc64MaskValues
  <2> QED
    BY <1>1, <2>1, <2>2, <2>3, <2>4, <2>5, AnswersAre
<1>2. CASE o \in {"shift_left", "shift_right"} /\ m \in 0..2 * W - 1
  <2>1. /\ Gcc64!Answer("shift_left", n, m) = (n * Power(2, m)) % Square
        /\ Gcc64!Answer("shift_right", n, m) = n \div Power(2, m)
    BY Gcc64Parts, Gcc64Words DEF Gcc64!Answer, Gcc64!bitwise
  <2> QED
    BY <1>2, <2>1, AnswersAre
<1>3. CASE o \in {"lognot", "uint64_to_uint128", "uint128_to_uint64"} /\ m = 0
  <2>1. /\ Gcc64!Answer("lognot", n, m) = Square - 1 - n
        /\ Gcc64!Answer("uint64_to_uint128", n, m) = n % Full
        /\ Gcc64!Answer("uint128_to_uint64", n, m) = n % Full
    BY Gcc64Parts DEF Gcc64!Answer, Gcc64!bitwise
  <2> QED
    BY <1>3, <2>1, AnswersAre
<1>4. CASE (o = "mul_wide" /\ m \in Word) \/ (o = "mul32" /\ m \in 0..Root - 1)
  <2>1. /\ Gcc64!Answer("mul_wide", n, m) = (n % Full) * m
        /\ Gcc64!Answer("mul32", n, m) = (n % Full) * m
    BY Gcc64Parts DEF Gcc64!Answer, Gcc64!arithmetic
  <2> QED
    BY <1>4, <2>1, AnswersAre
<1> QED
  BY <1>1, <1>2, <1>3, <1>4, RequestCases

LEMMA MsvcAnswers ==
    ASSUME NEW n \in Nat, n < Square, NEW o, NEW m, <<o, m>> \in Numbers!Requests
    PROVE  Msvc!Answer(o, Verified!FromNumber(n), m) = Numbers!Answer(o, n, m)
<1>1. PICK h \in Word, l \in Word : h = n \div Full /\ l = n % Full /\ n = Join(h, l)
  BY Words128
<1>2. PICK a : a = Verified!FromNumber(n) /\ a = Verified!Pair(h, l) /\ a.low = l
  BY <1>1, VerifiedPair
<1>3. CASE /\ o \in {"add", "sub", "logand", "logor", "logxor", "eq_mask", "gte_mask",
                     "eq", "gt", "lt", "gte", "lte"}
           /\ m \in Nat /\ m < Square
  <2>1. PICK h2 \in Word, l2 \in Word : h2 = m \div Full /\ l2 = m % Full /\ m = Join(h2, l2)
    BY <1>3, Words128
  <2>2. PICK b : b = Msvc!FromNumber(m) /\ b = Verified!Pair(h2, l2)
    BY <2>1, VerifiedPair, MsvcPairs
  <2>3. o \in {"add", "sub"} => Msvc!Answer(o, a, m) = Numbers!Answer(o, n, m)
    <3>1. /\ Msvc!Answer("add", a, m) = Msvc!Value(Msvc!add(a, b))
          /\ Msvc!Answer("sub", a, m) = Msvc!Value(Msvc!sub(a, b))
      BY <2>2 DEF Msvc!Answer
    <3> QED
      BY <1>1, <1>2, <2>1, <2>2, <3>1, MsvcSums, AnswersAre
  <2>4. o \in {"logand", "logor", "logxor"} => Msvc!Answer(o, a, m) = Numbers!Answer(o, n, m)
    <3>1. /\ Msvc!Answer("logand", a, m) = Msvc!Value(Msvc!logical("logand", a, b))
          /\ Msvc!Answer("logor", a, m) = Msvc!Value(Msvc!logical("logor", a, b))
          /\ Msvc!Answer("logxor", a, m) = Msvc!Value(Msvc!logical("logxor", a, b))
      BY <2>2 DEF Msvc!Answer
    <3> QED
      BY <1>1, <1>2, <2>1, <2>2, <3>1, MsvcBits, AnswersAre
  <2>5. o \in {"eq_mask", "gte_mask"} => Msvc!Answer(o, a, m) = Numbers!Answer(o, n, m)
    <3>1. /\ Msvc!Answer("eq_mask", a, m) = Msvc!Value(Msvc!eq_mask(a, b))
          /\ Msvc!Answer("gte_mask", a, m) = Verified!Value(Verified!gte_mask(a, b))
      BY <2>2, MsvcPairs DEF Msvc!Answer, Msvc!gte_mask
    <3> QED
      BY <1>1, <1>2, <2>1, <2>2, <3>1, MsvcEqMask, VerifiedMaskValues, AnswersAre
  <2>6. o \in {"eq", "gt", "lt", "gte", "lte"} => Msvc!Answer(o, a, m) = Numbers!Answer(o, n, m)
    <3>1. /\ Msvc!Answer("eq", a, m) = Verified!eq(a, b)
          /\ Msvc!Answer("gt", a, m) = Verified!gt(a, b)
          /\ Msvc!Answer("lt", a, m) = Verified!lt(a, b)
          /\ Msvc!Answer("gte", a, m) = Verified!gte(a, b)
          /\ Msvc!Answer("lte", a, m) = Verified!lte(a, b)
      BY <2>2, MsvcPairs DEF Msvc!Answer, Msvc!compare
    <3> QED
      BY <1>1, <1>2, <2>1, <2>2, <3>1, VerifiedComparisons, AnswersAre
  <2> QED
    BY <1>2, <1>3, <2>3, <2>4, <2>5, <2>6
<1>4. CASE o \in {"shift_left", "shift_right"} /\ m \in 0..2 * W - 1
  <2>1. /\ Msvc!Answer("shift_left", a, m) = Msvc!Value(Msvc!shift_left(a, m))
        /\ Msvc!Answer("shift_right", a, m) = Msvc!Value(Msvc!shift_right(a, m))
    BY DEF Msvc!Answer
  <2> QED
    BY <1>1, <1>2, <1>4, <2>1, MsvcShifts, AnswersAre
<1>5. CASE o \in {"lognot", "uint64_to_uint128", "uint128_to_uint64"} /\ m = 0
  <2>1. /\ Msvc!Answer("lognot", a, m) = Msvc!Value(Msvc!logical("lognot", a, Msvc!FromNumber(m)))
        /\ Msvc!Answer("uint64_to_uint128", a, m) = Msvc!Value(Msvc!uint64_to_uint128(a.low))
        /\ Msvc!Answer("uint128_to_uint64", a, m) = Msvc!uint128_to_uint64(a)
    BY DEF Msvc!Answer
  <2>2. Msvc!Value(Msvc!logical("lognot", a, Msvc!FromNumber(m))) = Square - 1 - n
    <3>1. 0 \in Nat /\ 0 < Square
      BY SquareIs
    <3>2. PICK h2 \in Word, l2 \in Word : Msvc!FromNumber(m) = Verified!Pair(h2, l2)
      BY <1>5, <3>1, Words128, VerifiedPair, MsvcPairs
    <3> QED
      BY <1>1, <1>2, <3>2, MsvcBits
  <2>3. Msvc!Value(Msvc!uint64_to_uint128(a.low)) = l
    <3>1. Msvc!uint64_to_uint128(l) = Verified!Pair(0, l)
      BY MsvcPairs DEF Msvc!uint64_to_uint128
    <3>2. Join(0, l) = l
      BY WordTyped, WordSizes128 DEF Join
    <3> QED
      BY <1>2, <3>1, <3>2, VerifiedPair, MsvcPairs
  <2>4. Msvc!uint128_to_uint64(a) = l
    BY <1>2 DEF Msvc!uint128_to_uint64
  <2> QED
    BY <1>1, <1>2, <1>5, <2>1, <2>2, <2>3, <2>4, AnswersAre
<1>6. CASE (o = "mul_wide" /\ m \in Word) \/ (o = "mul32" /\ m \in 0..Root - 1)
  <2>1. /\ Msvc!Answer("mul_wide", a, m) = Msvc!Value(Msvc!mul_wide(a.low, m))
        /\ Msvc!Answer("mul32", a, m) = Msvc!Value(Msvc!mul32(a.low, m))
    BY DEF Msvc!Answer
  <2>2. m \in Word
    BY <1>6, SmallFactor
  <2> QED
    BY <1>1, <1>2, <1>6, <2>1, <2>2, MsvcProducts, AnswersAre
<1> QED
  BY <1>3, <1>4, <1>5, <1>6, RequestCases

--------------------------------------------------------------------------
(* What a build keeps from the first state to the last: the operand, in    *)
(* the representation of its implementation.                               *)
Represents ==
    \E n \in Operands : acc = Represented(impl, n)

LEMMA NumberOf ==
    ASSUME NEW n \in Operands, acc = Represented(impl, n)
    PROVE  /\ number = n /\ n \in Nat /\ n < Square
           /\ impl = "gcc64" => acc = n
           /\ impl # "gcc64" => acc = Verified!FromNumber(n)
<1>1. n \in Nat /\ n < Square
  <2>1. Operands \subseteq 0..Square - 1 /\ Square \in Nat
    BY OperandsFit, SquareIs
  <2> QED
    BY <2>1
<1>2. CASE impl = "gcc64"
  <2>1. acc = n
    BY <1>2, Gcc64Parts DEF Represented
  <2> QED
    BY <1>1, <1>2, <2>1 DEF number
<1>3. CASE impl # "gcc64"
  <2>1. acc = Verified!FromNumber(n)
    BY <1>3 DEF Represented
  <2>2. Verified!Value(Verified!FromNumber(n)) = n
    BY <1>1, Words128, VerifiedPair
  <2> QED
    BY <1>1, <1>3, <2>1, <2>2 DEF number
<1> QED
  BY <1>2, <1>3

LEMMA CallsAnswer ==
    ASSUME Represents, CallVerified \/ CallGcc64 \/ CallMsvc
    PROVE  Numbers!Call
<1>1. PICK n \in Operands : acc = Represented(impl, n)
  BY DEF Represents
<1>2. /\ number = n /\ n \in Nat /\ n < Square
      /\ impl = "gcc64" => acc = n
      /\ impl # "gcc64" => acc = Verified!FromNumber(n)
  BY <1>1, NumberOf
<1>3. /\ latest = NotCalled /\ UNCHANGED <<impl, acc>>
      /\ \E r \in Numbers!Requests : latest' = <<r[1], r[2], Numbers!Answer(r[1], n, r[2])>>
  <2>1. CASE CallVerified
    <3>1. impl = "verified" /\ latest = NotCalled /\ UNCHANGED <<impl, acc>>
      BY <2>1 DEF CallVerified, May
    <3>2. PICK r \in Numbers!Requests : latest' = <<r[1], r[2], Verified!Answer(r[1], acc, r[2])>>
      BY <2>1 DEF CallVerified
    <3>3. Verified!Answer(r[1], acc, r[2]) = Numbers!Answer(r[1], n, r[2])
      BY <1>2, <3>1, RequestsArePairs, VerifiedAnswers
    <3> QED
      BY <3>1, <3>2, <3>3
  <2>2. CASE CallGcc64
    <3>1. impl = "gcc64" /\ latest = NotCalled /\ UNCHANGED <<impl, acc>>
      BY <2>2 DEF CallGcc64, May
    <3>2. PICK r \in Numbers!Requests : latest' = <<r[1], r[2], Gcc64!Answer(r[1], acc, r[2])>>
      BY <2>2 DEF CallGcc64
    <3>3. Gcc64!Answer(r[1], acc, r[2]) = Numbers!Answer(r[1], n, r[2])
      BY <1>2, <3>1, RequestsArePairs, Gcc64Answers
    <3> QED
      BY <3>1, <3>2, <3>3
  <2>3. CASE CallMsvc
    <3>1. impl = "msvc" /\ latest = NotCalled /\ UNCHANGED <<impl, acc>>
      BY <2>3 DEF CallMsvc, May
    <3>2. PICK r \in Numbers!Requests : latest' = <<r[1], r[2], Msvc!Answer(r[1], acc, r[2])>>
      BY <2>3 DEF CallMsvc
    <3>3. Msvc!Answer(r[1], acc, r[2]) = Numbers!Answer(r[1], n, r[2])
      BY <1>2, <3>1, RequestsArePairs, MsvcAnswers
    <3> QED
      BY <3>1, <3>2, <3>3
  <2> QED
    BY <2>1, <2>2, <2>3
<1>4. PICK r \in Numbers!Requests : latest' = <<r[1], r[2], Numbers!Answer(r[1], n, r[2])>>
  BY <1>3
<1>5. r = <<r[1], r[2]>>
  BY RequestsArePairs
<1>6. latest'[1] = r[1] /\ latest'[2] = r[2] /\ latest' # <<>>
  BY <1>4
<1>7. number' = number
  BY <1>3 DEF number
<1>8. Numbers!NotCalled = <<>> /\ NotCalled = <<>>
  BY DEF Numbers!NotCalled, NotCalled
<1> QED
  BY <1>2, <1>3, <1>4, <1>5, <1>6, <1>7, <1>8 DEF Numbers!Call

--------------------------------------------------------------------------
(* Whichever implementation types.h gives a build, every operation answers *)
(* what arithmetic on 128-bit numbers says, on the numbers its operands    *)
(* stand for: each step is a call of UInt128Spec, or none.                 *)
THEOREM ArithmeticCorrect == Spec => ImplementsNumbers
<1>1. Init => Represents /\ Numbers!Init
  <2> SUFFICES ASSUME Init PROVE Represents /\ Numbers!Init
    OBVIOUS
  <2>1. PICK n \in Operands : acc = Represented(impl, n)
    BY DEF Init
  <2>2. number = n
    BY <2>1, NumberOf
  <2>3. latest = Numbers!NotCalled
    BY DEF Init, NotCalled, Numbers!NotCalled
  <2> QED
    BY <2>1, <2>2, <2>3 DEF Represents, Numbers!Init
<1>2. Represents /\ [Next]_vars => Represents' /\ [Numbers!Call]_<<number, latest>>
  <2> SUFFICES ASSUME Represents, [Next]_vars
               PROVE  Represents' /\ [Numbers!Call]_<<number, latest>>
    OBVIOUS
  <2>1. CASE CallVerified \/ CallGcc64 \/ CallMsvc
    <3>1. UNCHANGED <<impl, acc>>
      BY <2>1 DEF CallVerified, CallGcc64, CallMsvc, May
    <3>2. Represents'
      BY <3>1 DEF Represents, Represented, Verified!FromNumber, Verified!Pair, Gcc64!FromNumber
    <3> QED
      BY <2>1, <3>2, CallsAnswer
  <2>2. CASE UNCHANGED vars
    <3>1. impl' = impl /\ acc' = acc /\ latest' = latest
      BY <2>2 DEF vars
    <3>2. Represents'
      BY <3>1 DEF Represents, Represented, Verified!FromNumber, Verified!Pair, Gcc64!FromNumber
    <3>3. number' = number
      BY <3>1 DEF number
    <3> QED
      BY <3>1, <3>2, <3>3
  <2>3. Returned => UNCHANGED vars
    BY DEF Returned
  <2> QED
    BY <2>1, <2>2, <2>3 DEF Next
<1> QED
  BY <1>1, <1>2, PTL DEF Spec, ImplementsNumbers, Numbers!Spec
====
