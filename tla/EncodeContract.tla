---- MODULE EncodeContract ----
(***************************************************************************)
(* What encoding promises its caller (Lowstar.Codec.fst, encode): one      *)
(* answer, the codes of the message one after the other and at most seven  *)
(* ones, in the length encode_len announced beforehand.                    *)
(***************************************************************************)
EXTENDS HuffmanSpec

VARIABLES src, announced, answer

NotYet == [called |-> FALSE]
Answered(x) == [called |-> TRUE, value |-> x]

Init == announced = NotYet /\ answer = NotYet

Announce ==
    /\ announced = NotYet
    /\ announced' = Answered(Len(Encoding(src)))
    /\ UNCHANGED <<src, answer>>

Answer ==
    /\ announced # NotYet /\ answer = NotYet
    /\ answer' = Answered(Encoding(src))
    /\ UNCHANGED <<src, announced>>

Spec == Init /\ [][Announce \/ Answer]_<<src, announced, answer>>
====
