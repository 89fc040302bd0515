---- MODULE UInt128Spec ----
(***************************************************************************)
(* What FStar_UInt128.h promises: unsigned 128-bit integers as numbers.    *)
(* A caller has a number and calls an operation on it with an argument;    *)
(* latest is that call with its answer.                                    *)
(***************************************************************************)
EXTENDS Words

CONSTANT Operands  \* the numbers a caller computes with

VARIABLES acc, latest

NotCalled == <<>>
Values == Power(2, 2 * W)
Mask(b) == IF b THEN Values - 1 ELSE 0

(* The operations, with the arguments each may be called with. *)
PairOps == {"add", "sub", "logand", "logor", "logxor", "eq_mask", "gte_mask",
            "eq", "gt", "lt", "gte", "lte"}
ShiftOps == {"shift_left", "shift_right"}
UnaryOps == {"lognot", "uint64_to_uint128", "uint128_to_uint64"}

Requests ==
    (PairOps \X Operands) \cup (ShiftOps \X (0..2 * W - 1)) \cup (UnaryOps \X {0})
        \cup ({"mul_wide"} \X Word) \cup ({"mul32"} \X (0..Power(2, H) - 1))

(* The answer to request o on the number n with argument m. *)
Answer(o, n, m) ==
    CASE o = "add" -> (n + m) % Values
      [] o = "sub" -> (n - m) % Values
      [] o = "logand" -> n & m
      [] o = "logor" -> n | m
      [] o = "logxor" -> n ^^ m
      [] o = "lognot" -> Values - 1 - n
      [] o = "shift_left" -> (n * Power(2, m)) % Values
      [] o = "shift_right" -> n \div Power(2, m)
      [] o = "eq_mask" -> Mask(n = m)
      [] o = "gte_mask" -> Mask(n >= m)
      [] o = "eq" -> n = m
      [] o = "gt" -> n > m
      [] o = "lt" -> n < m
      [] o = "gte" -> n >= m
      [] o = "lte" -> n <= m
      [] o \in {"mul_wide", "mul32"} -> (n % Power(2, W)) * m
      [] OTHER -> n % Power(2, W)  \* the conversions to and from 64 bits

Init == acc \in Operands /\ latest = NotCalled

Call ==
    /\ latest = NotCalled
    /\ latest' # NotCalled
    /\ <<latest'[1], latest'[2]>> \in Requests
    /\ latest' = <<latest'[1], latest'[2], Answer(latest'[1], acc, latest'[2])>>
    /\ UNCHANGED acc

Spec == Init /\ [][Call]_<<acc, latest>>
====
