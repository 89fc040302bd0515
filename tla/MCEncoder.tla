---- MODULE MCEncoder ----
(* encode_len and encode on the shipped arrays. *)
EXTENDS Encoder, EncodeTables

MCCode == shipped_codes

(* A symbol of each code length from 5 to 30 bits. *)
SomeSymbols == {48, 32, 58, 38, 33, 124, 35, 0, 92, 249, 10}

(* Three symbols whose lengths, 5, 7 and 28, reach every residue. *)
Mixed == {48, 58, 2}

MCMessages ==
    {<<>>} \cup {<<y>> : y \in Byte} \cup {<<y, z>> : y \in SomeSymbols, z \in SomeSymbols}
        \cup UNION {[1..n -> Mixed] : n \in 3..4}
        \cup {[k \in 1..7 |-> 10], [k \in 1..7 |-> 48]}
====
