---- MODULE GeneratedTable ----
(* What gen_dfa_tables.py prints, as a table the decoder walks, against the *)
(* automaton of Spec.Dfa.                                                   *)
EXTENDS DfaGenerator

Printed(k, id) == cells[16 * id + k + 1]

(* The codes of a table differ, as Table.Properties proves of the RFC's. *)
ASSUME CodesDistinct ==
    \A t \in Tables : Len(t) = Entries => IsInjective(t)

CodeOf(t) == [y \in 0..256 |-> IF y = 256 THEN t[Entries] ELSE IF y < EOS THEN t[y + 1] ELSE <<>>]

(* The printed modules: the chunks, the accept flags and the keys. *)
chunks == [k \in 0..15 |-> [off \in 0..CHUNK - 1 |-> cells[CHUNK * k + off + 1]]]
accept_list == [id \in 0..n - 1 |-> accept[id + 1]]
keys == [id \in 0..n - 1 |-> order[id + 1]]

Dfa == INSTANCE NibbleTable
       WITH Code <- CodeOf(table),
            dfa_chunk <- chunks, dfa_accept <- accept_list, state_bits <- keys

(* A cell packs a state of the automaton: its id, or n when it has failed, *)
(* and the symbol emitted on the way, if any.                              *)
Packed(c, s) ==
    /\ c \div 65536 \in 0..n
    /\ s.live = (c \div 65536 # n)
    /\ s.live => s.bits = order[c \div 65536 + 1]
    /\ s.out = IF (c \div 256) % 256 = 1 THEN <<c % 256>> ELSE <<>>

PrintsRow(id) ==
    LET live == Dfa!Live(order[id + 1])
    IN  /\ accept[id + 1] = IF Dfa!is_accepting(live) THEN 1 ELSE 0
        /\ \A k \in 0..15 : Packed(Printed(k, id), Dfa!step(live, k))

(* Every table it prints is the nibble automaton of Spec.Dfa, cell by cell *)
(* and flag by flag, whatever the table it read.                           *)
PrintsAutomaton == pc = "printed" => \A id \in 0..n - 1 : PrintsRow(id)

(* With as many states and as large chunks as the decoder is made for,     *)
(* what it prints is a table the decoder can take: the assumptions of      *)
(* NibbleTable, from which the decoder is shown to be right.               *)
ServesDecoder ==
    pc = "printed" /\ n = 256 /\ CHUNK = 256 =>
        /\ chunks \in [0..15 -> Dfa!Chunk]
        /\ keys \in [Dfa!StateId -> Seq(Dfa!Bit)] /\ keys[0] = <<>>
        /\ \A id \in Dfa!StateId : Dfa!AcceptOK(id)
        /\ \A id \in Dfa!StateId, nibble \in Dfa!Nibble : Dfa!CellOK(id, nibble)
====
