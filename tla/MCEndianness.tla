---- MODULE MCEndianness ----
(* Bytes of one bit: all integers of 2, 4 and 8 bytes, and those of 16 put *)
(* together from words at the edges.                                       *)
EXTENDS Endianness

EdgeWords == {0, 1, 2, 15, 16, 97, 128, 254}
MCValues == [n \in {2, 4, 8, 16} |->
    IF n < 16 THEN 0..B^n - 1 ELSE {h * B^8 + l : h, l \in EdgeWords}]
====
