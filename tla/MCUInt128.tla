---- MODULE MCUInt128 ----
(* Words of 6 bits; operands put together from the words at the edges. *)
EXTENDS UInt128

EdgeWords == {0, 1, 7, 8, 31, 32, 63}
MCOperands == {h * Power(2, W) + l : h, l \in EdgeWords}
====
