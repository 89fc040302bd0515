---- MODULE DecodeContract ----
(***************************************************************************)
(* What decoding promises its caller (Lowstar.Dfa.fsti, decode_dfa): one   *)
(* of the answers HuffmanSpec allows, once.                                *)
(***************************************************************************)
EXTENDS HuffmanSpec

VARIABLES src, dst_cap, answer

contract == <<src, dst_cap, answer>>

NoAnswer == [rc |-> 1, out |-> <<>>]

Init == answer = NoAnswer

Answer ==
    /\ answer = NoAnswer
    /\ answer' \in DecodeAnswers(src, dst_cap)
    /\ UNCHANGED <<src, dst_cap>>

Spec == Init /\ [][Answer]_contract
====
