---- MODULE UInt128Msvc ----
(***************************************************************************)
(* fstar_uint128_msvc.h: a 128-bit integer as an SSE register, with the    *)
(* compiler's intrinsics.  Only the branches compiled under HAS_OPTIMIZED  *)
(* are here: types.h includes the file only where that is set.  What the   *)
(* file repeats of the extracted code word for word is taken from there.   *)
(***************************************************************************)
EXTENDS Words

V == INSTANCE UInt128Verified

set_epi64x(h, l) == V!Pair(h, l)

Value(a) == V!Value(a)
FromNumber(n) == V!FromNumber(n)

--------------------------------------------------------------------------
(* The intrinsics.  Each is a function of the processor or the compiler.   *)

addcarry(c, a, b) == [out |-> plus(plus(a, b), c), carry |-> (a + b + c) \div Power(2, W)]
subborrow(c, a, b) ==
    [out |-> minus(minus(a, b), c), carry |-> IF a < b + c THEN 1 ELSE 0]
umul128(x, y) == set_epi64x((x * y) \div Power(2, W), (x * y) % Power(2, W))
shiftleft128(l, h, s) == (Value(set_epi64x(h, l)) * Power(2, s % W)) \div Power(2, W) % Power(2, W)
shiftright128(l, h, s) == (Value(set_epi64x(h, l)) \div Power(2, s % W)) % Power(2, W)

(* A register as four lanes of half a word, the lowest first. *)
Lanes(a) == [k \in 0..3 |-> IF k < 2 THEN (a.low \div Power(2, k * H)) % Power(2, H)
                            ELSE (a.high \div Power(2, (k - 2) * H)) % Power(2, H)]
Packed(r) == set_epi64x(r[2] + r[3] * Power(2, H), r[0] + r[1] * Power(2, H))
cmpeq_epi32(r, s) == [k \in 0..3 |-> IF r[k] = s[k] THEN Power(2, H) - 1 ELSE 0]
shuffle_epi32(r, from) == [k \in 0..3 |-> r[from[k]]]
Neighbour == [k \in 0..3 |-> IF k % 2 = 0 THEN k + 1 ELSE k - 1]
OtherHalf == [k \in 0..3 |-> (k + 2) % 4]
and_si128(r, s) == [k \in 0..3 |-> r[k] & s[k]]

--------------------------------------------------------------------------
add(a, b) ==
    LET l == addcarry(0, a.low, b.low)
    IN  set_epi64x(addcarry(l.carry, a.high, b.high).out, l.out)

sub(a, b) ==
    LET l == subborrow(0, a.low, b.low)
    IN  set_epi64x(subborrow(l.carry, a.high, b.high).out, l.out)

logical(o, a, b) ==
    CASE o = "logand" -> V!logand(a, b)
      [] o = "logor" -> V!logor(a, b)
      [] o = "logxor" -> V!logxor(a, b)
      [] o = "lognot" -> V!logxor(a, set_epi64x(Ones, Ones))

shift_left(a, s) ==
    IF s = 0 THEN a
    ELSE IF s < W THEN set_epi64x(shiftleft128(a.low, a.high, s), shl(a.low, s))
    ELSE set_epi64x(shl(a.low, s - W), 0)

shift_right(a, s) ==
    IF s = 0 THEN a
    ELSE IF s < W THEN set_epi64x(shr(a.high, s), shiftright128(a.low, a.high, s))
    ELSE set_epi64x(0, shr(a.high, s - W))

compare(o, a, b) ==
    CASE o = "eq" -> V!eq(a, b)
      [] o = "gt" -> V!gt(a, b)
      [] o = "lt" -> V!lt(a, b)
      [] o = "gte" -> V!gte(a, b)
      [] o = "lte" -> V!lte(a, b)

(* Equal lanes, and-ed with their neighbours, then with the other half. *)
eq_mask(a, b) ==
    LET r32 == cmpeq_epi32(Lanes(a), Lanes(b))
        ret64 == and_si128(r32, shuffle_epi32(r32, Neighbour))
        s64 == shuffle_epi32(ret64, OtherHalf)
    IN  Packed(and_si128(ret64, s64))

(* The vector version is disabled in the source. *)
gte_mask(a, b) == V!gte_mask(a, b)

uint64_to_uint128(a) == set_epi64x(0, a)
uint128_to_uint64(a) == a.low
mul32(x, y) == umul128(x, y)
mul_wide(x, y) == umul128(x, y)

(* The operations by name; a request's argument arrives as a number. *)
Answer(o, a, m) ==
    LET b == FromNumber(m)
    IN  CASE o = "add" -> Value(add(a, b))
          [] o = "sub" -> Value(sub(a, b))
          [] o \in {"logand", "logor", "logxor", "lognot"} -> Value(logical(o, a, b))
          [] o = "shift_left" -> Value(shift_left(a, m))
          [] o = "shift_right" -> Value(shift_right(a, m))
          [] o = "eq_mask" -> Value(eq_mask(a, b))
          [] o = "gte_mask" -> Value(gte_mask(a, b))
          [] o = "mul32" -> Value(mul32(a.low, m))
          [] o = "mul_wide" -> Value(mul_wide(a.low, m))
          [] o = "uint64_to_uint128" -> Value(uint64_to_uint128(a.low))
          [] o = "uint128_to_uint64" -> uint128_to_uint64(a)
          [] OTHER -> compare(o, a, b)
====
