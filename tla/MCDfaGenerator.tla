---- MODULE MCDfaGenerator ----
(* gen_dfa_tables.py on the RFC table, and on small complete codes. *)
EXTENDS GeneratedTable, DfaTables

RfcTables == {[y \in 1..257 |-> code_bits[y - 1]]}

(* On the RFC table no assertion of the script fails, and what it prints   *)
(* is what is shipped: the keys, the cells and the flags, in the same      *)
(* order.                                                                  *)
PrintsShipped ==
    /\ pc # "exit"
    /\ pc = "printed" =>
          /\ n = 256
          /\ \A id \in 0..255 :
                /\ order[id + 1] = shipped_keys[id]
                /\ accept[id + 1] = shipped_accept[id]
          /\ \A p \in 0..4095 : cells[p + 1] = shipped_chunk[p \div 256][p % 256]

--------------------------------------------------------------------------
Ones(k) == [j \in 1..k |-> 1]

(* All words of four bits, the m-th one split in two. *)
Word(j) == <<(j \div 8) % 2, (j \div 4) % 2, (j \div 2) % 2, j % 2>>
Split(m) ==
    [j \in 1..17 |-> IF j = m THEN Append(Word(m - 1), 0)
                     ELSE IF j = 17 THEN Append(Word(m - 1), 1) ELSE Word(j - 1)]

(* The m-th entry moved to the end: EOS. *)
EosIs(t, m) == Remove(t, t[m]) \o <<t[m]>>

(* Words of five bits after a zero; EOS is a single one. *)
ShortEos == [j \in 1..16 |-> <<0>> \o Word(j - 1)] \o <<<<1>>>>

(* 0, 10, 110 and so on. *)
Unary == [j \in 1..17 |-> IF j = 17 THEN Ones(16) ELSE Append(Ones(j - 1), 0)]

SmallTables ==
    {EosIs(Split(m), k) : m \in {1, 6, 16}, k \in {1, 9, 16, 17}}
        \cup {ShortEos, Unary, Front(Unary)}
====
