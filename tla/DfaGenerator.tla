---- MODULE DfaGenerator ----
(***************************************************************************)
(* One run of gen_dfa_tables.py: a breadth-first search over the partial   *)
(* codewords reachable at nibble boundaries, then a row of cells and an    *)
(* accept flag for each, in the order of discovery.  The script prints     *)
(* only when every assertion has held; otherwise it exits with nothing     *)
(* printed.  A state (acc, nbits) is the bit string it stands for.         *)
(***************************************************************************)
EXTENDS Integers, Sequences, FiniteSets, SequencesExt

CONSTANTS Entries,  \* the number of entries of hpack_table; EOS is the last
          CHUNK,    \* cells in a chunk
          MaxBits,  \* partial codewords are shorter: nbits must fit the key
          Tables    \* the tables the script may find, as sequences of bit strings

ASSUME GeneratorBounds ==
    /\ Entries \in 1..257 /\ CHUNK \in Nat \ {0} /\ MaxBits \in Nat
    /\ \A t \in Tables : t \in Seq(Seq({0, 1}))

VARIABLES table,           \* the entries read; symbol y is entry y + 1
          seen, order, q,  \* the search: states found, in their order, and not yet expanded
          st, nib,         \* the state being expanded and its next nibble
          cells, accept,   \* the rows so far
          pc

vars == <<table, seen, order, q, st, nib, cells, accept, pc>>
search == <<seen, order, q, st, nib>>

EOS == Entries - 1
None == [fail |-> TRUE]
State(bits) == [fail |-> FALSE, bits |-> bits]

Init ==
    /\ table \in Tables
    /\ seen = {<<>>} /\ order = <<<<>>>> /\ q = <<<<>>>>
    /\ st = <<>> /\ nib = 16
    /\ cells = <<>> /\ accept = <<>>
    /\ pc = IF Len(table) = Entries THEN "search" ELSE "exit"

--------------------------------------------------------------------------
(* bit_step and step: a partial codeword or none, and the symbols emitted. *)

Bit == {0, 1}
Walk == [s : [fail : {FALSE}, bits : Seq(Bit)] \cup {None}, emitted : Seq(Nat)]

(* The dictionary of each table, from codes to symbols: of two entries     *)
(* with one code, the later counts.                                        *)
IsLast(t, code, y) == t[y + 1] = code /\ \A z \in y + 1..Len(t) - 1 : t[z + 1] # code
bylenOf == [t \in Tables |->
               [code \in ToSet(t) |-> CHOOSE y \in 0..Len(t) - 1 : IsLast(t, code, y)]]
bylen == bylenOf[table]

reach(r, bits) ==
    IF bits \notin DOMAIN bylen THEN [r EXCEPT !.s = State(bits)]
    ELSE IF bylen[bits] = EOS THEN [r EXCEPT !.s = None]
    ELSE [s |-> State(<<>>), emitted |-> Append(r.emitted, bylen[bits])]

bit_step == [bit \in Bit |-> [r \in Walk |->
                IF r.s.fail THEN r ELSE reach(r, Append(r.s.bits, bit))]]

walk4(bits, b) ==
    LET start == [s |-> State(bits), emitted |-> <<>>]
    IN  bit_step[b[4]][bit_step[b[3]][bit_step[b[2]][bit_step[b[1]][start]]]]

(* Mutant of step: the low bit of the nibble first. *)
stepLowFirst(bits, k) == walk4(bits, <<k % 2, (k \div 2) % 2, (k \div 4) % 2, k \div 8>>)

step(bits, k) == walk4(bits, <<k \div 8, (k \div 4) % 2, (k \div 2) % 2, k % 2>>)

--------------------------------------------------------------------------
(* The search. *)

(* Mutant of popleft: the newest state first. *)
pop == st' = Last(q) /\ q' = Front(q)

popleft == st' = Head(q) /\ q' = Tail(q)

Expand ==
    /\ pc = "search" /\ nib = 16 /\ q # <<>>
    /\ popleft
    /\ nib' = 0
    /\ UNCHANGED <<table, seen, order, cells, accept, pc>>

(* Mutants of IsNew: found states count as new again until they are        *)
(* expanded; a state that was queued before is not looked at.              *)
IsNewUnlessExpanded(bits) == bits \notin seen \ ToSet(q)
IsNewLater(bits) == bits \notin seen /\ nib > 0

IsNew(bits) == bits \notin seen

(* Mutant of Visit: a successor that was found before holds up the search. *)
VisitNewOnly ==
    /\ pc = "search" /\ nib < 16
    /\ LET ns == step(st, nib).s
       IN  /\ ~ns.fail /\ IsNew(ns.bits)
           /\ seen' = seen \cup {ns.bits}
           /\ order' = Append(order, ns.bits)
           /\ q' = Append(q, ns.bits)
    /\ nib' = nib + 1
    /\ UNCHANGED <<table, st, cells, accept, pc>>

Visit ==
    /\ pc = "search" /\ nib < 16
    /\ LET ns == step(st, nib).s
       IN  IF ~ns.fail /\ IsNew(ns.bits)
           THEN /\ seen' = seen \cup {ns.bits}
                /\ order' = Append(order, ns.bits)
                /\ q' = Append(q, ns.bits)
           ELSE UNCHANGED <<seen, order, q>>
    /\ nib' = nib + 1
    /\ UNCHANGED <<table, st, cells, accept, pc>>

EndSearch ==
    /\ pc = "search" /\ nib = 16 /\ q = <<>>
    /\ pc' = IF \A bits \in seen : Len(bits) < MaxBits THEN "pack" ELSE "exit"
    /\ UNCHANGED <<table, search, cells, accept>>

--------------------------------------------------------------------------
(* The rows. *)

n == Len(order)
sid(bits) == CHOOSE i \in 0..n - 1 : order[i + 1] = bits

(* Mutant of cell: a dead step leads back to the start. *)
cellDeadIsStart(bits, k) ==
    LET r == step(bits, k)
        next == IF r.s.fail THEN 0 ELSE sid(r.s.bits)
    IN  next * 65536 + (IF r.emitted = <<>> THEN 0 ELSE 256 + r.emitted[1])

cell(bits, k) ==
    LET r == step(bits, k)
        next == IF r.s.fail THEN n ELSE sid(r.s.bits)
    IN  next * 65536 + (IF r.emitted = <<>> THEN 0 ELSE 256 + r.emitted[1])

(* Mutant of OneSymbolEach: fewer than one. *)
NoSymbolEach(bits) == \A k \in 0..15 : Len(step(bits, k).emitted) < 1

OneSymbolEach(bits) == \A k \in 0..15 : Len(step(bits, k).emitted) <= 1

Row ==
    /\ pc = "pack" /\ Len(accept) < n
    /\ LET bits == order[Len(accept) + 1]
       IN  IF OneSymbolEach(bits)
           THEN /\ cells' = cells \o [k \in 1..16 |-> cell(bits, k - 1)]
                /\ accept' = Append(accept,
                       IF Len(bits) <= 7 /\ \A i \in 1..Len(bits) : bits[i] = 1 THEN 1 ELSE 0)
                /\ UNCHANGED pc
           ELSE pc' = "exit" /\ UNCHANGED <<cells, accept>>
    /\ UNCHANGED <<table, search>>

(* The cells fit 32 bits and fill whole chunks, and the module is printed. *)
PrintModule ==
    /\ pc = "pack" /\ Len(accept) = n
    /\ pc' = IF /\ \A p \in 1..Len(cells) : cells[p] \div 65536 < 65536
                /\ Len(cells) % CHUNK = 0
             THEN "printed" ELSE "exit"
    /\ UNCHANGED <<table, search, cells, accept>>

Ended == pc \in {"printed", "exit"} /\ UNCHANGED vars

Running == Expand \/ Visit \/ EndSearch \/ Row \/ PrintModule

Next == Running \/ Ended

Spec == Init /\ [][Next]_vars /\ WF_vars(Running)

--------------------------------------------------------------------------
(* While it searches: a state gets one id, has it before any cell can name *)
(* it, and the states not yet expanded are the latest of the order.        *)
IdsInOrder ==
    /\ Cardinality(seen) = n /\ seen = ToSet(order)
    /\ IsSuffix(q, order)

(* When the search is over, the states found are those reachable from the  *)
(* start at a nibble boundary, all of them and no other: each step leads   *)
(* to one of them, and each was reached from one with a smaller id.        *)
ClosedAndReached ==
    pc = "pack" /\ accept = <<>> =>
        /\ order[1] = <<>>
        /\ \A bits \in seen, k \in 0..15 :
              LET s == step(bits, k).s IN s.fail \/ s.bits \in seen
        /\ \A i \in 2..n : \E j \in 1..i - 1, k \in 0..15 :
              step(order[j], k).s = State(order[i])

(* It gives up only on a table it should: one with an entry missing, a     *)
(* code too long for the key, or a code of a byte so short that a nibble   *)
(* can complete two; or when the states are too many for the 16 bits of an *)
(* id, or their rows do not fill the chunks.                               *)
GivesUpWithCause ==
    pc = "exit" =>
        \/ Len(table) # Entries
        \/ \E y \in 1..Entries : Len(table[y]) > MaxBits
        \/ \E y \in 1..Entries - 1 : Len(table[y]) <= 3
        \/ n >= 65536 \/ (16 * n) % CHUNK # 0

(* The script ends. *)
Terminates == <>(pc \in {"printed", "exit"})
====
