---- MODULE MCDfaDecoder ----
(* dfa_loop on the shipped tables and the RFC code. *)
EXTENDS DfaDecoder, DfaTables

MCCode == code_bits
MCChunk == shipped_chunk
MCAccept == shipped_accept
MCStateBits == shipped_keys

(* A symbol of each code length from 5 to 30 bits. *)
SomeSymbols == {48, 32, 58, 38, 33, 124, 35, 0, 92, 249, 10}

Messages ==
    {<<>>} \cup {<<y>> : y \in Byte} \cup {<<y, z>> : y \in SomeSymbols, z \in SomeSymbols}
        \cup {<<48, 49, y, 50>> : y \in SomeSymbols}

Encoded == {Encoding(m) : m \in Messages}

MCParses ==
    {[msg |-> m, ends |-> [k \in 1..Len(m) |-> Len(encode_bits(SubSeq(m, 1, k)))]] :
        m \in Messages}

(* Encodings, the same with a whole byte of padding, cut short, or with a  *)
(* zero last bit; every stream of one byte; and EOS at each nibble offset. *)
MCInputs ==
    Encoded
        \cup {s \o <<255>> : s \in Encoded}
        \cup {Front(s) : s \in Encoded \ {<<>>}}
        \cup {Append(Front(s), 2 * (Last(s) \div 2)) : s \in Encoded \ {<<>>}}
        \cup {<<b>> : b \in Byte}
        \cup {Encoding(<<y, EOS>>) : y \in SomeSymbols} \cup {Encoding(<<EOS>>)}
====
