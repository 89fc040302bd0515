---- MODULE MCCodec ----
(* The shim with a length bound of 4 in place of 2^27. *)
EXTENDS Codec, HpackTable

MCCode == code_bits

(* Codes of 5, 7, 13 and 30 bits: empty; one and more symbols in one, two  *)
(* and three bytes; a whole number of bytes; and an encoding over the      *)
(* bound.  The last three are over-long, one by no more than it takes, one *)
(* with the longest codes, one even for 32 bits.                           *)
MCMessages ==
    {<<>>, <<48>>, <<0>>, <<48, 49, 58>>, <<10, 10>>}
        \cup {<<48, 48, 48, 48>>, <<10, 10, 10, 10>>, [k \in 1..U32 + 1 |-> 48]}

MCCaps == {0, 2, UINT32_MAX, U32 + 1}
====
