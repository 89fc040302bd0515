---- MODULE UInt128Gcc64 ----
(***************************************************************************)
(* fstar_uint128_gcc64.h: the compiler's own unsigned __int128, a number   *)
(* of 2 * W bits.  Only the masks are computed from words.                 *)
(***************************************************************************)
EXTENDS Words

Values == Power(2, 2 * W)

FromNumber(n) == n

low(x) == x % Power(2, W)
high(x) == x \div Power(2, W)

(* (uint128_t)mask << 64 | mask *)
doubled(mask) == mask * Power(2, W) | mask

eq_mask(x, y) ==
    doubled(FStar_UInt64_eq_mask(high(x), high(y)) & FStar_UInt64_eq_mask(low(x), low(y)))

gte_mask(x, y) ==
    LET same == FStar_UInt64_eq_mask(high(x), high(y))
    IN  doubled((FStar_UInt64_gte_mask(high(x), high(y)) & lnot(same))
                  | (same & FStar_UInt64_gte_mask(low(x), low(y))))

arithmetic(o, x, y) ==
    CASE o = "add" -> (x + y) % Values
      [] o = "sub" -> (x - y) % Values
      [] o = "mul32" -> low(x) * y
      [] o = "mul_wide" -> low(x) * y

bitwise(o, x, y) ==
    CASE o = "logand" -> x & y
      [] o = "logor" -> x | y
      [] o = "logxor" -> x ^^ y
      [] o = "lognot" -> Values - 1 - x
      [] o = "shift_left" -> (x * Power(2, y)) % Values
      [] o = "shift_right" -> x \div Power(2, y)

compare(o, x, y) ==
    CASE o = "eq" -> x = y
      [] o = "gt" -> x > y
      [] o = "lt" -> x < y
      [] o = "gte" -> x >= y
      [] o = "lte" -> x <= y

Answer(o, x, y) ==
    CASE o \in {"add", "sub", "mul32", "mul_wide"} -> arithmetic(o, x, y)
      [] o \in {"eq", "gt", "lt", "gte", "lte"} -> compare(o, x, y)
      [] o = "eq_mask" -> eq_mask(x, y)
      [] o = "gte_mask" -> gte_mask(x, y)
      [] o \in {"uint64_to_uint128", "uint128_to_uint64"} -> low(x)
      [] OTHER -> bitwise(o, x, y)
====
