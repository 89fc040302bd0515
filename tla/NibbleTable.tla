---- MODULE NibbleTable ----
(***************************************************************************)
(* The nibble automaton as a table: how Hpack_Huffman.c addresses its      *)
(* sixteen chunks of cells and unpacks a cell, and what it means for the   *)
(* table to be right (Refine.DfaTable: chunk_table_ok, table_accept_ok).   *)
(***************************************************************************)
EXTENDS HuffmanSpec

CONSTANTS dfa_chunk,    \* dfa_chunk[k][off], the cells
          dfa_accept,   \* dfa_accept[id] = 1 where the input may stop
          state_bits    \* the partial codeword state id stands for

StateId == 0..255
FailId  == 256
Nibble  == 0..15
Chunk   == [0..255 -> Nat]

(* The sixteen readers, one for each chunk buffer. *)
read_chunk(k, cur, nib) == dfa_chunk[k][(cur * 16 + nib) % 256]

(* The switch over the readers; chunk 15 is its default case. *)
read_cell(cur, nib) ==
    LET k == (cur * 16 + nib) \div 256
    IN  read_chunk(IF k < 15 THEN k ELSE 15, cur, nib)

cell_next(c) == c \div 65536
cell_emits(c) == (c \div 256) % 256 = 1
cell_sym(c) == c % 256

state_of(id) == IF id >= FailId THEN Fail ELSE Live(state_bits[id])

CellOK(id, nib) ==
    LET c == read_cell(id, nib)
        s == step(state_of(id), nib)
        next == state_of(cell_next(c))
    IN  /\ cell_next(c) <= FailId
        /\ s.live = next.live /\ s.bits = next.bits
        /\ s.out = IF cell_emits(c) THEN <<cell_sym(c)>> ELSE <<>>

AcceptOK(id) == dfa_accept[id] = (IF is_accepting(state_of(id)) THEN 1 ELSE 0)

ASSUME TableTyped ==
    /\ dfa_chunk \in [0..15 -> Chunk]
    /\ state_bits \in [StateId -> Seq(Bit)]

ASSUME TableCorrect ==
    /\ state_bits[0] = <<>>
    /\ \A id \in StateId : AcceptOK(id)
    /\ \A id \in StateId, nib \in Nibble : CellOK(id, nib)
====
