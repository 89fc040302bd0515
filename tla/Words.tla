---- MODULE Words ----
(***************************************************************************)
(* The 64-bit words the 128-bit integers are made of: C's unsigned         *)
(* arithmetic, and the constant-time masks of FStar_UInt_8_16_32_64.h,     *)
(* over words of W bits.                                                   *)
(***************************************************************************)
EXTENDS Radix

CONSTANT W  \* bits in a word, 64 in the code

ASSUME WordBounds == W \in Nat \ {0} /\ W % 2 = 0

H == W \div 2        \* bits in half a word
Word == 0..Power(2, W) - 1
Ones == Power(2, W) - 1

(* C's bitwise operators, on numbers of up to two words. *)
Bits(x) == Digits(2, x, 2 * W)
x & y == Number(2, [k \in 1..2 * W |-> Bits(x)[k] * Bits(y)[k]])
x | y == Number(2, [k \in 1..2 * W |-> Bits(x)[k] + Bits(y)[k] - Bits(x)[k] * Bits(y)[k]])
x ^^ y == Number(2, [k \in 1..2 * W |-> (Bits(x)[k] + Bits(y)[k]) % 2])

plus(x, y) == (x + y) % Power(2, W)
minus(x, y) == (x - y) % Power(2, W)
times(x, y) == (x * y) % Power(2, W)
lnot(x) == Ones - x

(* A count of W or more is undefined in C; amd64 and arm64 take it mod W. *)
shl(x, s) == (x * Power(2, s % W)) % Power(2, W)
shr(x, s) == x \div Power(2, s % W)

TopBit(x) == shr(x, W - 1)

(* All ones when a = b: only zero has no top bit in itself or its negative. *)
FStar_UInt64_eq_mask(a, b) ==
    LET x == a ^^ b
        minus_x == plus(lnot(x), 1)
    IN  minus(TopBit(x | minus_x), 1)

FStar_UInt64_gte_mask(x, y) ==
    minus(TopBit(x ^^ ((x ^^ y) | (minus(x, y) ^^ y))), 1)
====
