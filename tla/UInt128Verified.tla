---- MODULE UInt128Verified ----
(***************************************************************************)
(* FStar_UInt128_Verified.h: a 128-bit integer as a pair of words, with    *)
(* the portable code KaRaMeL extracted.  The _underspec and _mod variants  *)
(* of an operation have its body.                                          *)
(***************************************************************************)
EXTENDS Words

Pair(h, l) == [low |-> l, high |-> h]

Value(a) == a.high * Power(2, W) + a.low
FromNumber(n) == Pair(n \div Power(2, W), n % Power(2, W))

(* Mutant of constant_time_carry: the sign of the difference alone. *)
carry_sign(a, b) == TopBit(minus(a, b))

(* 1 when a < b. *)
constant_time_carry(a, b) == TopBit(a ^^ ((a ^^ b) | (minus(a, b) ^^ b)))

add(a, b) ==
    LET low == plus(a.low, b.low)
    IN  Pair(plus(plus(a.high, b.high), constant_time_carry(low, b.low)), low)

sub(a, b) ==
    LET low == minus(a.low, b.low)
    IN  Pair(minus(minus(a.high, b.high), constant_time_carry(a.low, low)), low)

logand(a, b) == Pair(a.high & b.high, a.low & b.low)
logxor(a, b) == Pair(a.high ^^ b.high, a.low ^^ b.low)
logor(a, b) == Pair(a.high | b.high, a.low | b.low)
lognot(a) == Pair(lnot(a.high), lnot(a.low))

shift_left_small(a, s) ==
    IF s = 0 THEN a
    ELSE Pair(plus(shl(a.high, s), shr(a.low, W - s)), shl(a.low, s))

shift_left_large(a, s) == Pair(shl(a.low, s - W), 0)

shift_left(a, s) == IF s < W THEN shift_left_small(a, s) ELSE shift_left_large(a, s)

shift_right_small(a, s) ==
    IF s = 0 THEN a
    ELSE Pair(shr(a.high, s), plus(shr(a.low, s), shl(a.high, W - s)))

shift_right_large(a, s) == Pair(0, shr(a.high, s - W))

shift_right(a, s) == IF s < W THEN shift_right_small(a, s) ELSE shift_right_large(a, s)

eq(a, b) == a.low = b.low /\ a.high = b.high
gt(a, b) == a.high > b.high \/ (a.high = b.high /\ a.low > b.low)
lt(a, b) == a.high < b.high \/ (a.high = b.high /\ a.low < b.low)
gte(a, b) == a.high > b.high \/ (a.high = b.high /\ a.low >= b.low)
lte(a, b) == a.high < b.high \/ (a.high = b.high /\ a.low <= b.low)

eq_mask(a, b) ==
    LET m == FStar_UInt64_eq_mask(a.low, b.low) & FStar_UInt64_eq_mask(a.high, b.high)
    IN  Pair(m, m)

gte_mask(a, b) ==
    LET ge == FStar_UInt64_gte_mask(a.high, b.high)
        same == FStar_UInt64_eq_mask(a.high, b.high)
        m == (ge & lnot(same)) | (same & FStar_UInt64_gte_mask(a.low, b.low))
    IN  Pair(m, m)

uint64_to_uint128(a) == Pair(0, a)
uint128_to_uint64(a) == a.low

u64_mod_32(x) == x & (Power(2, H) - 1)
u32_combine(hi, lo) == plus(lo, shl(hi, H))

mul32(x, y) ==
    LET p == times(u64_mod_32(x), y)
        q == plus(times(shr(x, H), y), shr(p, H))
    IN  Pair(shr(q, H), u32_combine(q, u64_mod_32(p)))

mul_wide(x, y) ==
    LET p == times(u64_mod_32(x), u64_mod_32(y))
        t == plus(times(shr(x, H), u64_mod_32(y)), shr(p, H))
        u == plus(times(u64_mod_32(x), shr(y, H)), u64_mod_32(t))
    IN  Pair(plus(plus(times(shr(x, H), shr(y, H)), shr(t, H)), shr(u, H)),
             u32_combine(u, u64_mod_32(p)))

(* The operations by name; a request's argument arrives as a number. *)
Answer(o, a, m) ==
    LET b == FromNumber(m)
    IN  CASE o = "add" -> Value(add(a, b))
          [] o = "sub" -> Value(sub(a, b))
          [] o = "logand" -> Value(logand(a, b))
          [] o = "logor" -> Value(logor(a, b))
          [] o = "logxor" -> Value(logxor(a, b))
          [] o = "lognot" -> Value(lognot(a))
          [] o = "shift_left" -> Value(shift_left(a, m))
          [] o = "shift_right" -> Value(shift_right(a, m))
          [] o = "eq_mask" -> Value(eq_mask(a, b))
          [] o = "gte_mask" -> Value(gte_mask(a, b))
          [] o = "eq" -> eq(a, b)
          [] o = "gt" -> gt(a, b)
          [] o = "lt" -> lt(a, b)
          [] o = "gte" -> gte(a, b)
          [] o = "lte" -> lte(a, b)
          [] o = "mul32" -> Value(mul32(a.low, m))
          [] o = "mul_wide" -> Value(mul_wide(a.low, m))
          [] o = "uint64_to_uint128" -> Value(uint64_to_uint128(a.low))
          [] o = "uint128_to_uint64" -> uint128_to_uint64(a)
====
