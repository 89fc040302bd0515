---- MODULE Radix ----
(***************************************************************************)
(* Positional notation: natural numbers as sequences of digits, the least  *)
(* significant first, in base b.                                           *)
(***************************************************************************)
EXTENDS Integers, Sequences

(* b^n *)
Power(b, n) ==
    LET power[k \in 0..n] == IF k = 0 THEN 1 ELSE b * power[k - 1]
    IN  power[n]

Digit(b, x, k) == (x \div Power(b, k)) % b
Digits(b, x, n) == [k \in 1..n |-> Digit(b, x, k - 1)]

(* The number with these digits. *)
Number(b, digits) ==
    LET value[k \in 0..Len(digits)] ==
            IF k = 0 THEN 0 ELSE value[k - 1] + digits[k] * Power(b, k - 1)
    IN  value[Len(digits)]
====
