---- MODULE DfaGeneratorProofs ----
(***************************************************************************)
(* Proofs about gen_dfa_tables.py, for every table.  Of the search: the    *)
(* queue is the unexpanded end of the order, whose states are distinct;    *)
(* every state but the first was reached from an earlier one; and the      *)
(* successors of expanded states are found.  Of the rows: each is that of  *)
(* its state in the automaton of HuffmanSpec, so that what is printed is a *)
(* table the decoder can take.                                             *)
(***************************************************************************)
EXTENDS GeneratedTable, SequenceTheorems, FiniteSetTheorems, WellFoundedInduction, TLAPS

Live == [fail : {FALSE}, bits : Seq(Bit)]

(* The states taken from the queue so far; the latest one is st. *)
expanded == Len(order) - Len(q)

(* Where a nibble leads from a state. *)
succ == [bits \in Seq(Bit) |-> [k \in 0..15 |-> step(bits, k).s]]

(* The successor of order[j] on nibble k is dead or found. *)
FoundFrom(j, k) ==
    LET s == succ[order[j]][k] IN s.fail \/ s.bits \in seen

TypeInv ==
    /\ table \in Tables
    /\ seen \subseteq Seq(Bit) /\ IsFiniteSet(seen)
    /\ order \in Seq(Seq(Bit)) /\ q \in Seq(Seq(Bit))
    /\ nib \in 0..16

Ids ==
    /\ Len(order) >= 1 /\ order[1] = <<>>
    /\ Cardinality(seen) = Len(order)
    /\ seen = ToSet(order)
    /\ Len(q) <= Len(order)
    /\ \A j \in 1..Len(q) : q[j] = order[expanded + j]

Reached ==
    \A i \in 2..Len(order) : \E j \in 1..i - 1, k \in 0..15 :
        succ[order[j]][k] = State(order[i])

Closed ==
    /\ nib < 16 => expanded >= 1 /\ st = order[expanded]
    /\ \A j \in 1..expanded, k \in 0..15 :
          j < expanded \/ k < nib => FoundFrom(j, k)

Finished == pc \in {"pack", "printed"} => q = <<>> /\ nib = 16

Inv == TypeInv /\ Ids /\ Reached /\ Closed /\ Finished

--------------------------------------------------------------------------
(* What a step returns. *)

(* Of finitely many numbers, one is the largest. *)
LEMMA Largest ==
    ASSUME NEW N \in Nat, N >= 1, NEW f \in [1..N -> Nat]
    PROVE  \E i \in 1..N : \A j \in 1..N : f[j] <= f[i]
<1> DEFINE Top(i, m) == i \in 1..m /\ \A j \in 1..m : f[j] <= f[i]
           R == {ss \in Nat \X Nat : ss[1] < ss[2]}
           T == {m \in 1..N : \A i : ~Top(i, m)}
<1>1. IsWellFoundedOn(R, Nat)
  BY NatLessThanWellFounded DEF OpToRel
<1>2. SUFFICES ASSUME T # {} PROVE FALSE
  <2>1. N \notin T
    BY <1>2
  <2> QED
    BY <2>1
<1>3. PICK m \in T : \A y \in T : <<y, m>> \notin R
  <2>1. T \subseteq Nat
    OBVIOUS
  <2> HIDE DEF R, T
  <2> QED
    BY <1>1, <1>2, <2>1, WFMin
<1>4. m # 1
  <2>1. Top(1, 1)
    OBVIOUS
  <2> QED
    BY <2>1
<1>5. PICK i : Top(i, m - 1)
  <2>1. m - 1 \in 1..N /\ <<m - 1, m>> \in R
    BY <1>4
  <2> QED
    BY <1>3, <2>1
<1>6. CASE f[m] <= f[i]
  <2>1. Top(i, m)
    BY <1>4, <1>5, <1>6
  <2> QED
    BY <2>1
<1>7. CASE f[i] <= f[m]
  <2>1. Top(m, m)
    <3>1. ASSUME NEW j \in 1..m PROVE f[j] <= f[m]
      <4>1. j = m \/ j \in 1..m - 1
        OBVIOUS
      <4>2. f[j] \in Nat /\ f[m] \in Nat /\ f[i] \in Nat
        BY <1>4, <1>5
      <4> QED
        BY <1>5, <1>7, <4>1, <4>2
    <3> QED
      BY <3>1
  <2> QED
    BY <2>1
<1> QED
  <2>1. f[m] \in Nat /\ f[i] \in Nat
    BY <1>4, <1>5
  <2> QED
    BY <1>6, <1>7, <2>1

(* The dictionary names an entry that has the code. *)
LEMMA SymbolOf ==
    ASSUME NEW t \in Tables, NEW code \in ToSet(t)
    PROVE  /\ bylenOf[t][code] \in 0..Len(t) - 1
           /\ t[bylenOf[t][code] + 1] = code
<1>1. t \in Seq(Seq({0, 1}))
  BY GeneratorBounds
<1>2. PICK N \in Nat : N = Len(t)
  BY <1>1
<1>3. PICK i \in 1..N : t[i] = code
  BY <1>1, <1>2 DEF ToSet
<1> DEFINE f == [j \in 1..N |-> IF t[j] = code THEN j ELSE 0]
<1>4. PICK m \in 1..N : \A j \in 1..N : f[j] <= f[m]
  <2>1. f \in [1..N -> Nat] /\ N >= 1
    OBVIOUS
  <2> HIDE DEF f
  <2> QED
    BY <2>1, Largest
<1>5. t[m] = code /\ \A j \in 1..N : t[j] = code => j <= m
  BY <1>3, <1>4
<1>6. m - 1 \in 0..N - 1 /\ IsLast(t, code, m - 1)
  BY <1>2, <1>5 DEF IsLast
<1>7. bylenOf[t][code] = CHOOSE y \in 0..Len(t) - 1 : IsLast(t, code, y)
  BY DEF bylenOf
<1>8. bylenOf[t][code] \in 0..Len(t) - 1 /\ IsLast(t, code, bylenOf[t][code])
  BY <1>2, <1>6, <1>7
<1> QED
  BY <1>8 DEF IsLast

LEMMA ReachTyped ==
    ASSUME table \in Tables, NEW r \in Walk, NEW bits \in Seq(Bit)
    PROVE  reach(r, bits) \in Walk
<1>1. State(bits) \in Live /\ State(<<>>) \in Live
  BY DEF State, Live
<1>3. DOMAIN bylen = ToSet(table)
  BY DEF bylen, bylenOf
<1>4. CASE bits \notin DOMAIN bylen
  BY <1>1, <1>4 DEF reach, Walk, Live
<1>5. CASE bits \in DOMAIN bylen
  <2>1. bylen[bits] \in Nat
    <3>1. bylen[bits] \in 0..Len(table) - 1 /\ Len(table) \in Nat
      BY <1>3, <1>5, SymbolOf, GeneratorBounds DEF bylen
    <3> QED
      BY <3>1
  <2>2. Append(r.emitted, bylen[bits]) \in Seq(Nat)
    BY <2>1 DEF Walk, Live
  <2> QED
    BY <1>1, <1>5, <2>2 DEF reach, Walk, Live
<1> QED
  BY <1>4, <1>5

LEMMA BitStepTyped ==
    ASSUME table \in Tables, NEW r \in Walk, NEW b \in Bit
    PROVE  bit_step[b][r] \in Walk
<1>1. bit_step[b][r] = IF r.s.fail THEN r ELSE reach(r, Append(r.s.bits, b))
  BY DEF bit_step
<1>2. CASE r.s.fail
  BY <1>1, <1>2
<1>3. CASE ~r.s.fail
  <2>1. r.s.bits \in Seq(Bit)
    <3>1. r.s \in Live \cup {None}
      BY DEF Walk, Live
    <3>2. None.fail
      BY DEF None
    <3>3. r.s \in Live
      BY <1>3, <3>1, <3>2
    <3> QED
      BY <3>3 DEF Live
  <2>2. Append(r.s.bits, b) \in Seq(Bit)
    BY <2>1
  <2> QED
    BY <1>1, <1>3, <2>2, ReachTyped
<1> QED
  BY <1>2, <1>3

LEMMA StepTyped ==
    ASSUME table \in Tables, NEW bits \in Seq(Bit), NEW k \in 0..15
    PROVE  step(bits, k).s = None \/ step(bits, k).s \in Live
<1> DEFINE r0 == [s |-> State(bits), emitted |-> <<>>]
           r1 == bit_step[k \div 8][r0]
           r2 == bit_step[(k \div 4) % 2][r1]
           r3 == bit_step[(k \div 2) % 2][r2]
           r4 == bit_step[k % 2][r3]
<1>1. k \div 8 \in Bit /\ (k \div 4) % 2 \in Bit /\ (k \div 2) % 2 \in Bit /\ k % 2 \in Bit
  BY DEF Bit
<1>2. r0 \in Walk
  BY DEF State, Walk
<1> HIDE DEF r0
<1>3. r1 \in Walk
  BY <1>1, <1>2, BitStepTyped
<1> HIDE DEF r1
<1>4. r2 \in Walk
  BY <1>1, <1>3, BitStepTyped
<1> HIDE DEF r2
<1>5. r3 \in Walk
  BY <1>1, <1>4, BitStepTyped
<1> HIDE DEF r3
<1>6. r4 \in Walk
  BY <1>1, <1>5, BitStepTyped
<1>7. step(bits, k) = r4
  BY DEF step, walk4, r0, r1, r2, r3
<1> HIDE DEF r4
<1> QED
  BY <1>6, <1>7 DEF Walk, Live

LEMMA SuccTyped ==
    ASSUME table \in Tables, NEW bits \in Seq(Bit), NEW k \in 0..15
    PROVE  succ[bits][k] = None \/ succ[bits][k] \in Live
<1>1. succ[bits][k] = step(bits, k).s
  BY DEF succ
<1> QED
  BY <1>1, StepTyped

LEMMA SameSucc == ASSUME table' = table PROVE succ' = succ
<1>1. bylen' = bylen
  BY DEF bylen
<1>2. \A r, bits : reach(r, bits)' = reach(r, bits)
  BY <1>1 DEF reach
<1>3. bit_step' = bit_step
  BY <1>2 DEF bit_step
<1>4. \A bits, k : step(bits, k)' = step(bits, k)
  BY <1>3 DEF step, walk4
<1> QED
  BY <1>4 DEF succ

--------------------------------------------------------------------------
(* One turn of a walk, by what it finds in the dictionary. *)

Inside(r, bits, out) == ~r.s.fail /\ r.s.bits = bits /\ r.emitted = out
Dead(r, out) == r.s.fail /\ r.emitted = out

LEMMA WalkState ==
    ASSUME NEW r \in Walk
    PROVE  /\ r.emitted \in Seq(Nat)
           /\ ~r.s.fail => r.s.bits \in Seq(Bit)
<1>1. r.s \in Live \cup {None} /\ r.emitted \in Seq(Nat)
  BY DEF Walk, Live
<1>2. None.fail
  BY DEF None
<1> QED
  BY <1>1, <1>2 DEF Live

LEMMA Dictionary ==
    ASSUME table \in Tables
    PROVE  /\ DOMAIN bylen = ToSet(table)
           /\ Len(table) \in Nat /\ table \in Seq(Seq(Bit))
           /\ \A code \in ToSet(table) :
                 bylen[code] \in 0..Len(table) - 1 /\ table[bylen[code] + 1] = code
<1>1. DOMAIN bylen = ToSet(table)
  BY DEF bylen, bylenOf
<1>2. table \in Seq(Seq(Bit))
  BY GeneratorBounds DEF Bit
<1> QED
  BY <1>1, <1>2, SymbolOf DEF bylen

LEMMA TurnStays ==
    ASSUME NEW r, NEW b \in Bit, r \in Walk, r.s.fail
    PROVE  bit_step[b][r] = r
  BY DEF bit_step

LEMMA Turn ==
    ASSUME table \in Tables, NEW r \in Walk, NEW b \in Bit, NEW bits, ~r.s.fail,
           bits = Append(r.s.bits, b)
    PROVE  /\ bits \notin ToSet(table) => Inside(bit_step[b][r], bits, r.emitted)
           /\ bits \in ToSet(table) /\ bylen[bits] = EOS => Dead(bit_step[b][r], r.emitted)
           /\ bits \in ToSet(table) /\ bylen[bits] # EOS =>
                 Inside(bit_step[b][r], <<>>, Append(r.emitted, bylen[bits]))
<1>1. bit_step[b][r] = reach(r, bits)
  BY DEF bit_step
<1>2. DOMAIN bylen = ToSet(table)
  BY Dictionary
<1>3. CASE bits \notin ToSet(table)
  <2>1. reach(r, bits) = [r EXCEPT !.s = State(bits)]
    BY <1>2, <1>3 DEF reach
  <2>2. Inside([r EXCEPT !.s = State(bits)], bits, r.emitted)
    BY DEF Inside, State, Walk
  <2> QED
    BY <1>1, <1>3, <2>1, <2>2
<1>4. CASE bits \in ToSet(table) /\ bylen[bits] = EOS
  <2>1. reach(r, bits) = [r EXCEPT !.s = None]
    BY <1>2, <1>4 DEF reach
  <2>2. Dead([r EXCEPT !.s = None], r.emitted)
    BY DEF Dead, None, Walk
  <2> QED
    BY <1>1, <1>4, <2>1, <2>2
<1>5. CASE bits \in ToSet(table) /\ bylen[bits] # EOS
  <2> DEFINE e == Append(r.emitted, bylen[bits])
  <2>1. reach(r, bits) = [s |-> State(<<>>), emitted |-> e]
    BY <1>2, <1>5 DEF reach
  <2>2. Inside([s |-> State(<<>>), emitted |-> e], <<>>, e)
    BY DEF Inside, State
  <2> QED
    BY <1>1, <1>5, <2>1, <2>2
<1> QED
  BY <1>3, <1>4, <1>5

(* A nibble is four turns from the state, on its bits from the high one. *)
Turns(bits, k, r0, r1, r2, r3, r4) ==
    /\ Inside(r0, bits, <<>>)
    /\ r1 = bit_step[k \div 8][r0]
    /\ r2 = bit_step[(k \div 4) % 2][r1]
    /\ r3 = bit_step[(k \div 2) % 2][r2]
    /\ r4 = bit_step[k % 2][r3]
    /\ step(bits, k) = r4

LEMMA NibbleBits ==
    ASSUME NEW k \in 0..15
    PROVE  k \div 8 \in Bit /\ (k \div 4) % 2 \in Bit /\ (k \div 2) % 2 \in Bit /\ k % 2 \in Bit
  BY DEF Bit

LEMMA FourTurns ==
    ASSUME table \in Tables, NEW bits \in Seq(Bit), NEW k \in 0..15
    PROVE  \E r0, r1, r2, r3, r4 \in Walk : Turns(bits, k, r0, r1, r2, r3, r4)
<1> DEFINE r0 == [s |-> State(bits), emitted |-> <<>>]
           r1 == bit_step[k \div 8][r0]
           r2 == bit_step[(k \div 4) % 2][r1]
           r3 == bit_step[(k \div 2) % 2][r2]
           r4 == bit_step[k % 2][r3]
<1>1. r0 \in Walk /\ Inside(r0, bits, <<>>)
  BY DEF State, Walk, Inside
<1>2. step(bits, k) = r4
  BY DEF step, walk4, r0, r1, r2, r3
<1> HIDE DEF r0
<1>3. r1 \in Walk
  BY <1>1, NibbleBits, BitStepTyped
<1>4. r2 \in Walk
  <2> HIDE DEF r1
  <2> QED
    BY <1>3, NibbleBits, BitStepTyped
<1>5. r3 \in Walk
  <2> HIDE DEF r2
  <2> QED
    BY <1>4, NibbleBits, BitStepTyped
<1>6. r4 \in Walk
  <2> HIDE DEF r3
  <2> QED
    BY <1>5, NibbleBits, BitStepTyped
<1>7. Turns(bits, k, r0, r1, r2, r3, r4)
  BY <1>1, <1>2 DEF Turns
<1> HIDE DEF r1, r2, r3, r4
<1> QED
  BY <1>1, <1>3, <1>4, <1>5, <1>6, <1>7

--------------------------------------------------------------------------
(* Why the script gives up: a state of the largest length whose successors *)
(* are no longer has a code beyond it; and of two symbols in a nibble the  *)
(* second has a code of at most three bits.                                *)

LongerCode(m) == \E y \in 1..Len(table) : Len(table[y]) > m
ShortCode == \E y \in 1..Entries - 1 : Len(table[y]) <= 3

Grows(r, m) == ~r.s.fail /\ Len(r.s.bits) = m

LEMMA TurnGrows ==
    ASSUME table \in Tables, NEW r \in Walk, NEW b \in Bit, NEW m \in Nat, Grows(r, m)
    PROVE  Grows(bit_step[b][r], m + 1) \/ LongerCode(m)
<1>1. r.s.bits \in Seq(Bit)
  BY WalkState DEF Grows
<1>2. PICK bits \in Seq(Bit) : bits = Append(r.s.bits, b) /\ Len(bits) = m + 1
  <2>1. PICK w \in Seq(Bit) : w = r.s.bits /\ Len(w) = m
    BY <1>1 DEF Grows
  <2>2. Append(w, b) \in Seq(Bit) /\ Len(Append(w, b)) = m + 1
    BY <2>1
  <2> QED
    BY <2>1, <2>2
<1>3. CASE bits \notin ToSet(table)
  <2>1. Inside(bit_step[b][r], bits, r.emitted)
    BY <1>2, <1>3, Turn DEF Grows
  <2> QED
    BY <1>2, <2>1 DEF Inside, Grows
<1>4. CASE bits \in ToSet(table)
  <2>1. PICK y \in 1..Len(table) : table[y] = bits
    BY <1>4, Dictionary DEF ToSet
  <2>2. Len(table[y]) > m
    BY <1>2, <2>1
  <2> QED
    BY <2>2 DEF LongerCode
<1> QED
  BY <1>3, <1>4

LEMMA NibbleGrows ==
    ASSUME table \in Tables, NEW bits \in Seq(Bit), NEW k \in 0..15,
           NEW m \in Nat, Len(bits) = m, ~LongerCode(m)
    PROVE  ~step(bits, k).s.fail /\ Len(step(bits, k).s.bits) = m + 4
<1>1. PICK r0, r1, r2, r3, r4 \in Walk : Turns(bits, k, r0, r1, r2, r3, r4)
  BY FourTurns
<1> DEFINE b1 == k \div 8
           b2 == (k \div 4) % 2
           b3 == (k \div 2) % 2
           b4 == k % 2
<1>a. b1 \in Bit /\ b2 \in Bit /\ b3 \in Bit /\ b4 \in Bit
  BY NibbleBits
<1>b. r1 = bit_step[b1][r0] /\ r2 = bit_step[b2][r1] /\ r3 = bit_step[b3][r2]
      /\ r4 = bit_step[b4][r3] /\ Inside(r0, bits, <<>>)
  BY <1>1 DEF Turns
<1>c. step(bits, k) = r4
  BY <1>1 DEF Turns
<1> HIDE DEF b1, b2, b3, b4
<1>2. ASSUME NEW i \in 0..3 PROVE ~LongerCode(m + i)
  BY Dictionary DEF LongerCode
<1>3. Grows(r0, m)
  BY <1>b DEF Inside, Grows
<1>4. Grows(r1, m + 1)
  BY <1>a, <1>b, <1>3, TurnGrows
<1>5. Grows(r2, (m + 1) + 1)
  <2>1. r2 = bit_step[b2][r1] /\ b2 \in Bit
    BY <1>a, <1>b
  <2>2. ~LongerCode(m + 1)
    BY <1>2
  <2>3. m + 1 \in Nat
    OBVIOUS
  <2> QED
    BY <1>4, <2>1, <2>2, <2>3, TurnGrows
<1>6. Grows(r3, (m + 2) + 1)
  <2>1. Grows(r2, m + 2)
    BY <1>5
  <2>2. r3 = bit_step[b3][r2] /\ b3 \in Bit
    BY <1>a, <1>b
  <2>3. ~LongerCode(m + 2)
    BY <1>2
  <2>4. m + 2 \in Nat
    OBVIOUS
  <2> QED
    BY <2>1, <2>2, <2>3, <2>4, TurnGrows
<1>7. Grows(r4, (m + 3) + 1)
  <2>1. Grows(r3, m + 3)
    BY <1>6
  <2>2. r4 = bit_step[b4][r3] /\ b4 \in Bit
    BY <1>a, <1>b
  <2>3. ~LongerCode(m + 3)
    BY <1>2
  <2>4. m + 3 \in Nat
    OBVIOUS
  <2> QED
    BY <2>1, <2>2, <2>3, <2>4, TurnGrows
<1> QED
  BY <1>c, <1>7 DEF Grows

AtMostOne(r, i) ==
    \/ r.emitted = <<>>
    \/ Len(r.emitted) = 1 /\ (r.s.fail \/ Len(r.s.bits) < i)

LEMMA TurnEmits ==
    ASSUME table \in Tables, Len(table) = Entries, NEW r \in Walk, NEW b \in Bit,
           NEW i \in 0..3, AtMostOne(r, i)
    PROVE  AtMostOne(bit_step[b][r], i + 1) \/ ShortCode
<1>1. CASE r.s.fail
  <2>1. bit_step[b][r] = r
    BY <1>1, TurnStays
  <2> QED
    BY <1>1, <2>1 DEF AtMostOne
<1>2. CASE ~r.s.fail
  <2>1. r.s.bits \in Seq(Bit) /\ r.emitted \in Seq(Nat)
    BY <1>2, WalkState
  <2>2. PICK bits \in Seq(Bit) : bits = Append(r.s.bits, b) /\ Len(bits) = Len(r.s.bits) + 1
    <3>1. PICK w \in Seq(Bit) : w = r.s.bits
      BY <2>1
    <3>2. Append(w, b) \in Seq(Bit) /\ Len(Append(w, b)) = Len(w) + 1
      BY <3>1
    <3> QED
      BY <3>1, <3>2
  <2> DEFINE r1 == bit_step[b][r]
  <2>3. CASE bits \notin ToSet(table)
    <3>1. Inside(r1, bits, r.emitted)
      BY <1>2, <2>2, <2>3, Turn
    <3> HIDE DEF r1
    <3>2. AtMostOne(r1, i + 1)
      BY <1>2, <2>1, <2>2, <3>1 DEF Inside, AtMostOne
    <3> QED
      BY <3>2 DEF r1
  <2>4. CASE bits \in ToSet(table) /\ bylen[bits] = EOS
    <3>1. Dead(r1, r.emitted)
      BY <1>2, <2>2, <2>4, Turn
    <3> HIDE DEF r1
    <3>2. AtMostOne(r1, i + 1)
      BY <3>1 DEF Dead, AtMostOne
    <3> QED
      BY <3>2 DEF r1
  <2>5. CASE bits \in ToSet(table) /\ bylen[bits] # EOS
    <3>1. Inside(r1, <<>>, Append(r.emitted, bylen[bits]))
      BY <1>2, <2>2, <2>5, Turn
    <3>2. bylen[bits] \in 0..Entries - 1 /\ table[bylen[bits] + 1] = bits /\ Entries \in Nat
      BY <2>5, Dictionary, GeneratorBounds
    <3> HIDE DEF r1
    <3>3. CASE r.emitted = <<>>
      <4>1. PICK y \in Nat : y = bylen[bits]
        BY <3>2
      <4>2. Len(Append(r.emitted, y)) = 1
        BY <3>3
      <4>3. AtMostOne(r1, i + 1)
        BY <3>1, <4>1, <4>2 DEF Inside, AtMostOne
      <4> QED
        BY <4>3 DEF r1
    <3>4. CASE r.emitted # <<>>
      <4>1. Len(bits) <= 3
        BY <1>2, <2>1, <2>2, <3>4 DEF AtMostOne
      <4>2. bylen[bits] + 1 \in 1..Entries - 1
        BY <2>5, <3>2 DEF EOS
      <4>3. ShortCode
        BY <3>2, <4>1, <4>2 DEF ShortCode
      <4> QED
        BY <4>3
    <3> QED
      BY <3>3, <3>4
  <2> QED
    BY <2>3, <2>4, <2>5
<1> QED
  BY <1>1, <1>2

LEMMA NibbleEmits ==
    ASSUME table \in Tables, Len(table) = Entries, NEW bits \in Seq(Bit), NEW k \in 0..15,
           ~ShortCode
    PROVE  Len(step(bits, k).emitted) <= 1
<1>1. PICK r0, r1, r2, r3, r4 \in Walk : Turns(bits, k, r0, r1, r2, r3, r4)
  BY FourTurns
<1> DEFINE b1 == k \div 8
           b2 == (k \div 4) % 2
           b3 == (k \div 2) % 2
           b4 == k % 2
<1>a. b1 \in Bit /\ b2 \in Bit /\ b3 \in Bit /\ b4 \in Bit
  BY NibbleBits
<1>b. r1 = bit_step[b1][r0] /\ r2 = bit_step[b2][r1] /\ r3 = bit_step[b3][r2]
      /\ r4 = bit_step[b4][r3] /\ Inside(r0, bits, <<>>)
  BY <1>1 DEF Turns
<1>c. step(bits, k) = r4
  BY <1>1 DEF Turns
<1> HIDE DEF b1, b2, b3, b4
<1>2. AtMostOne(r0, 0)
  BY <1>b DEF Inside, AtMostOne
<1>3. AtMostOne(r1, 0 + 1)
  <2>1. r1 = bit_step[b1][r0] /\ b1 \in Bit
    BY <1>a, <1>b
  <2> QED
    BY <1>2, <2>1, TurnEmits
<1>4. AtMostOne(r2, 1 + 1)
  <2>1. r2 = bit_step[b2][r1] /\ b2 \in Bit
    BY <1>a, <1>b
  <2> QED
    BY <1>3, <2>1, TurnEmits
<1>5. AtMostOne(r3, 2 + 1)
  <2>1. r3 = bit_step[b3][r2] /\ b3 \in Bit
    BY <1>a, <1>b
  <2> QED
    BY <1>4, <2>1, TurnEmits
<1>6. AtMostOne(r4, 3 + 1)
  <2>1. r4 = bit_step[b4][r3] /\ b4 \in Bit
    BY <1>a, <1>b
  <2>2. AtMostOne(r3, 3)
    BY <1>5
  <2> QED
    BY <2>1, <2>2, TurnEmits
<1>7. Len(r4.emitted) <= 1
  <2>1. PICK e : e = r4.emitted
    OBVIOUS
  <2>2. e = <<>> \/ Len(e) = 1
    BY <1>6, <2>1 DEF AtMostOne
  <2>3. PICK N \in {0, 1} : N = Len(e)
    BY <2>2
  <2>4. N <= 1
    OBVIOUS
  <2> QED
    BY <2>1, <2>3, <2>4
<1> QED
  BY <1>c, <1>7

--------------------------------------------------------------------------
(* The walk of the script and the step of the automaton of HuffmanSpec     *)
(* over the table's code.                                                  *)

AutomatonState == [live : BOOLEAN, bits : Seq(Bit), out : Seq(Nat)]

Matches(r, s) ==
    /\ s.live = ~r.s.fail /\ s.out = r.emitted
    /\ s.bits = IF s.live THEN r.s.bits ELSE <<>>

LEMMA CodesOf ==
    ASSUME NEW y \in 0..256
    PROVE  /\ y = 256 => CodeOf(table)[y] = table[Entries]
           /\ y # 256 /\ y < EOS => CodeOf(table)[y] = table[y + 1]
           /\ y # 256 /\ y >= EOS => CodeOf(table)[y] = <<>>
<1>1. CodeOf(table)[y] = IF y = 256 THEN table[Entries] ELSE IF y < EOS THEN table[y + 1] ELSE <<>>
  BY DEF CodeOf
<1>2. PICK x \in Int : x = EOS
  BY GeneratorBounds DEF EOS
<1>3. y < x \/ y >= x
  OBVIOUS
<1>4. y >= x => ~(y < x)
  OBVIOUS
<1> QED
  BY <1>1, <1>2, <1>3, <1>4

LEMMA EntryIs ==
    ASSUME table \in Tables, Len(table) = Entries, NEW i \in 1..Entries, NEW j \in 1..Entries,
           table[i] = table[j]
    PROVE  i = j
<1>1. DOMAIN table = 1..Entries
  BY Dictionary
<1> QED
  BY <1>1, CodesDistinct DEF IsInjective

LEMMA AutomatonFinds ==
    ASSUME table \in Tables, Len(table) = Entries, NEW bits \in Seq(Bit), bits # <<>>
    PROVE  /\ bits \in Dfa!Codeword <=> bits \in ToSet(table)
           /\ bits \in ToSet(table) => (bits = CodeOf(table)[256] <=> bylen[bits] = EOS)
           /\ bits \in ToSet(table) /\ bylen[bits] # EOS => Dfa!lookup_v(bits) = bylen[bits]
<1>1. PICK E \in 1..257 : E = Entries /\ EOS = E - 1
  BY GeneratorBounds DEF EOS
<1>2. DOMAIN table = 1..E
  BY <1>1, Dictionary
<1>3. Dfa!Codeword = {CodeOf(table)[y] : y \in 0..256}
  BY DEF Dfa!Codeword, Dfa!Symbol
<1>4. ASSUME bits \in Dfa!Codeword PROVE bits \in ToSet(table)
  <2>1. PICK y \in 0..256 : bits = CodeOf(table)[y]
    BY <1>3, <1>4
  <2>2. CASE y = 256
    <3>1. bits = table[E] /\ E \in 1..E
      BY <1>1, <2>1, <2>2, CodesOf
    <3> QED
      BY <1>2, <3>1 DEF ToSet
  <2>3. CASE y # 256
    <3>a. y < E - 1 \/ y >= E - 1
      OBVIOUS
    <3>b. y < E - 1
      BY <1>1, <2>1, <2>3, <3>a, CodesOf
    <3>1. bits = table[y + 1]
      BY <1>1, <2>1, <2>3, <3>b, CodesOf
    <3>2. y + 1 \in 1..E
      BY <3>b
    <3> QED
      BY <1>2, <3>1, <3>2 DEF ToSet
  <2> QED
    BY <2>2, <2>3
<1>5. ASSUME bits \in ToSet(table)
      PROVE  /\ bits \in Dfa!Codeword
             /\ bits = CodeOf(table)[256] <=> bylen[bits] = EOS
             /\ bylen[bits] # EOS => Dfa!lookup_v(bits) = bylen[bits]
  <2>1. PICK x \in 0..E - 1 : x = bylen[bits] /\ table[x + 1] = bits
    BY <1>1, <1>5, Dictionary
  <2>2. CodeOf(table)[256] = table[E]
    BY <1>1, CodesOf
  <2>3. bits = CodeOf(table)[256] <=> x = E - 1
    <3>1. x + 1 \in 1..Entries /\ E \in 1..Entries
      BY <1>1
    <3> QED
      BY <1>1, <2>1, <2>2, <3>1, EntryIs
  <2>4. CASE x = E - 1
    <3>1. bits = CodeOf(table)[256] /\ 256 \in 0..256
      BY <2>3, <2>4
    <3> QED
      BY <1>1, <1>3, <2>1, <2>4, <3>1
  <2>5. CASE x # E - 1
    <3>1. x \in 0..256 /\ x # 256 /\ x < E - 1 /\ x + 1 \in 1..Entries
      BY <1>1, <2>5
    <3>2. CodeOf(table)[x] = bits
      BY <1>1, <2>1, <3>1, CodesOf
    <3>3. ASSUME NEW z \in 0..256, CodeOf(table)[z] = bits PROVE z = x
      <4>1. z # 256
        BY <2>3, <2>5, <3>3
      <4>a. z < E - 1 \/ z >= E - 1
        OBVIOUS
      <4>b. z < E - 1
        BY <1>1, <3>3, <4>1, <4>a, CodesOf
      <4>c. table[z + 1] = bits
        BY <1>1, <3>3, <4>1, <4>b, CodesOf
      <4>2. table[z + 1] = bits /\ z + 1 \in 1..Entries
        BY <1>1, <4>b, <4>c
      <4> QED
        BY <2>1, <3>1, <4>2, EntryIs
    <3>4. Dfa!lookup_v(bits) = CHOOSE y \in 0..256 : CodeOf(table)[y] = bits
      BY DEF Dfa!lookup_v, Dfa!Symbol
    <3>5. Dfa!lookup_v(bits) = x
      BY <3>1, <3>2, <3>3, <3>4
    <3> QED
      BY <1>1, <1>3, <2>1, <2>3, <2>5, <3>1, <3>2, <3>5, ZenonT(30)
  <2> QED
    BY <2>4, <2>5
<1> QED
  BY <1>4, <1>5

LEMMA AutomatonTurn ==
    ASSUME table \in Tables, Len(table) = Entries, NEW r \in Walk, NEW b \in Bit,
           NEW s \in AutomatonState, Matches(r, s)
    PROVE  /\ Matches(bit_step[b][r], Dfa!bit_step(s, b))
           /\ Dfa!bit_step(s, b) \in AutomatonState
<1> DEFINE t == Dfa!bit_step(s, b)
           r1 == bit_step[b][r]
<1>1. CASE ~s.live
  <2>1. t = s
    BY <1>1 DEF Dfa!bit_step
  <2>2. r1 = r
    BY <1>1, TurnStays DEF Matches
  <2> QED
    BY <2>1, <2>2
<1>2. CASE s.live
  <2>1. ~r.s.fail /\ s.bits = r.s.bits /\ s.out = r.emitted
        /\ s.bits \in Seq(Bit) /\ s.out \in Seq(Nat)
    BY <1>2 DEF Matches, AutomatonState
  <2>2. PICK bits \in Seq(Bit) : bits = Append(s.bits, b) /\ bits # <<>>
    <3>1. PICK w \in Seq(Bit) : w = s.bits
      BY <2>1
    <3>2. Append(w, b) \in Seq(Bit) /\ Len(Append(w, b)) = Len(w) + 1 /\ Len(w) \in Nat
      BY <3>1
    <3>3. Append(w, b) # <<>>
      <4>1. PICK v : v = Append(w, b)
        OBVIOUS
      <4>2. Len(v) # 0
        BY <3>2, <4>1
      <4> QED
        BY <4>1, <4>2
    <3> QED
      BY <3>1, <3>2, <3>3
  <2>3. t = IF bits \notin Dfa!Codeword THEN [s EXCEPT !.bits = bits]
            ELSE IF bits = CodeOf(table)[256] THEN [Dfa!Fail EXCEPT !.out = s.out]
            ELSE [Dfa!Live(<<>>) EXCEPT !.out = Append(s.out, Dfa!lookup_v(bits))]
    BY <1>2, <2>2 DEF Dfa!bit_step, Dfa!EOS
  <2>4. CASE bits \notin ToSet(table)
    <3>1. t = [s EXCEPT !.bits = bits]
      BY <2>2, <2>3, <2>4, AutomatonFinds
    <3>2. Inside(r1, bits, r.emitted)
      BY <2>1, <2>2, <2>4, Turn
    <3>3. [s EXCEPT !.bits = bits] \in AutomatonState
          /\ [s EXCEPT !.bits = bits].live /\ [s EXCEPT !.bits = bits].bits = bits
          /\ [s EXCEPT !.bits = bits].out = s.out
      BY <1>2, <2>2 DEF AutomatonState
    <3> HIDE DEF t, r1
    <3>4. Matches(r1, t) /\ t \in AutomatonState
      BY <2>1, <3>1, <3>2, <3>3 DEF Matches, Inside
    <3> QED
      BY <3>4 DEF r1, t
  <2>5. CASE bits \in ToSet(table) /\ bylen[bits] = EOS
    <3>1. t = [Dfa!Fail EXCEPT !.out = s.out]
      BY <2>2, <2>3, <2>5, AutomatonFinds
    <3>2. Dead(r1, r.emitted)
      BY <2>1, <2>2, <2>5, Turn
    <3>3. t = [live |-> FALSE, bits |-> <<>>, out |-> s.out]
      BY <3>1 DEF Dfa!Fail
    <3>4. ~t.live /\ t.out = s.out /\ t \in AutomatonState
      BY <2>1, <3>3 DEF AutomatonState
    <3>6. t.live = FALSE /\ t.bits = <<>>
      BY <3>3
    <3> HIDE DEF t, r1
    <3>5. Matches(r1, t) /\ t \in AutomatonState
      <4>1. r1.s.fail /\ r1.emitted = r.emitted
        BY <3>2 DEF Dead
      <4>2. t.live = ~r1.s.fail
        BY <3>3, <4>1
      <4>3. t.out = r1.emitted
        BY <2>1, <3>4, <4>1
      <4> QED
        BY <3>4, <3>6, <4>2, <4>3 DEF Matches
    <3> QED
      BY <3>5 DEF r1, t
  <2>6. CASE bits \in ToSet(table) /\ bylen[bits] # EOS
    <3> DEFINE e == Append(s.out, bylen[bits])
    <3>1. t = [Dfa!Live(<<>>) EXCEPT !.out = e]
      BY <2>2, <2>3, <2>6, AutomatonFinds
    <3>2. Inside(r1, <<>>, e)
      BY <2>1, <2>2, <2>6, Turn
    <3>3. t = [live |-> TRUE, bits |-> <<>>, out |-> e]
      BY <3>1 DEF Dfa!Live
    <3>4. e \in Seq(Nat)
      <4>1. PICK y \in Nat : y = bylen[bits]
        BY <2>6, Dictionary
      <4> QED
        BY <2>1, <4>1
    <3> HIDE DEF e
    <3>5. t.live /\ t.bits = <<>> /\ t.out = e /\ t \in AutomatonState
      BY <3>3, <3>4 DEF AutomatonState
    <3> HIDE DEF t, r1
    <3>6. Matches(r1, t) /\ t \in AutomatonState
      BY <3>2, <3>5 DEF Matches, Inside
    <3> QED
      BY <3>6 DEF r1, t
  <2> QED
    BY <2>4, <2>5, <2>6
<1> QED
  BY <1>1, <1>2 DEF AutomatonState

LEMMA AutomatonStep ==
    ASSUME table \in Tables, Len(table) = Entries, NEW bits \in Seq(Bit), NEW k \in 0..15
    PROVE  Matches(step(bits, k), Dfa!step(Dfa!Live(bits), k))
<1>1. PICK r0, r1, r2, r3, r4 \in Walk : Turns(bits, k, r0, r1, r2, r3, r4)
  BY FourTurns
<1> DEFINE b1 == k \div 8
           b2 == (k \div 4) % 2
           b3 == (k \div 2) % 2
           b4 == k % 2
           s0 == Dfa!Live(bits)
           s1 == Dfa!bit_step(s0, b1)
           s2 == Dfa!bit_step(s1, b2)
           s3 == Dfa!bit_step(s2, b3)
           s4 == Dfa!bit_step(s3, b4)
<1>2. b1 \in Bit /\ b2 \in Bit /\ b3 \in Bit /\ b4 \in Bit /\ (k \div 8) % 2 = b1
  BY NibbleBits DEF Bit
<1>3. r1 = bit_step[b1][r0] /\ r2 = bit_step[b2][r1] /\ r3 = bit_step[b3][r2]
      /\ r4 = bit_step[b4][r3] /\ Inside(r0, bits, <<>>)
  BY <1>1 DEF Turns
<1>4. step(bits, k) = r4
  BY <1>1 DEF Turns
<1>5. Dfa!step(s0, k) = s4
  <2>1. Dfa!nibble_bits(k) = <<b1, b2, b3, b4>>
    BY <1>2 DEF Dfa!nibble_bits
  <2> HIDE DEF b1, b2, b3, b4
  <2> QED
    BY <2>1 DEF Dfa!step
<1>6. s0 \in AutomatonState /\ Matches(r0, s0)
  <2>1. s0 = [live |-> TRUE, bits |-> bits, out |-> <<>>]
    BY DEF Dfa!Live
  <2>2. s0.live = TRUE /\ s0.bits = bits /\ s0.out = <<>> /\ s0 \in AutomatonState
    BY <2>1 DEF AutomatonState
  <2> HIDE DEF s0
  <2>3. ~r0.s.fail /\ r0.s.bits = bits /\ r0.emitted = <<>>
    BY <1>3 DEF Inside
  <2>4. s0.live = ~r0.s.fail
    BY <2>2, <2>3
  <2> QED
    BY <2>2, <2>3, <2>4 DEF Matches
<1> HIDE DEF b1, b2, b3, b4, s0
<1>7. s1 \in AutomatonState /\ Matches(r1, s1)
  <2>1. Matches(bit_step[b1][r0], s1) /\ s1 \in AutomatonState
    BY <1>2, <1>6, AutomatonTurn
  <2> QED
    BY <1>3, <2>1
<1> HIDE DEF s1
<1>8. s2 \in AutomatonState /\ Matches(r2, s2)
  <2>1. Matches(bit_step[b2][r1], s2) /\ s2 \in AutomatonState
    BY <1>2, <1>7, AutomatonTurn
  <2> QED
    BY <1>3, <2>1
<1> HIDE DEF s2
<1>9. s3 \in AutomatonState /\ Matches(r3, s3)
  <2>1. Matches(bit_step[b3][r2], s3) /\ s3 \in AutomatonState
    BY <1>2, <1>8, AutomatonTurn
  <2> QED
    BY <1>3, <2>1
<1> HIDE DEF s3
<1>10. Matches(r4, s4)
  <2>1. Matches(bit_step[b4][r3], s4)
    BY <1>2, <1>9, AutomatonTurn
  <2> QED
    BY <1>3, <2>1
<1> HIDE DEF s4
<1> QED
  BY <1>4, <1>5, <1>10 DEF s0

--------------------------------------------------------------------------
(* The invariant. *)

LEMMA Initially == Init => Inv
<1> SUFFICES ASSUME Init PROVE Inv
  OBVIOUS
<1>1. <<>> \in Seq(Bit) /\ order = <<<<>>>> /\ q = <<<<>>>> /\ seen = {<<>>} /\ nib = 16
  BY DEF Init
<1>2. Len(order) = 1 /\ order[1] = <<>> /\ Len(q) = 1 /\ expanded = 0
  BY <1>1 DEF expanded
<1>3. TypeInv
  <2>1. IsFiniteSet(seen)
    BY <1>1, FS_Singleton
  <2> QED
    BY <1>1, <2>1 DEF TypeInv, Init
<1>4. Ids
  <2>1. Cardinality(seen) = 1
    BY <1>1, FS_Singleton
  <2>2. seen = ToSet(order)
    BY <1>1, <1>2 DEF ToSet
  <2>3. \A j \in 1..Len(q) : q[j] = order[expanded + j]
    BY <1>1, <1>2
  <2> QED
    BY <1>2, <2>1, <2>2, <2>3 DEF Ids
<1>5. Reached
  BY <1>2 DEF Reached
<1>6. Closed
  BY <1>1, <1>2 DEF Closed
<1>7. Finished
  BY DEF Finished, Init
<1> QED
  BY <1>3, <1>4, <1>5, <1>6, <1>7 DEF Inv

LEMMA ExpandKeeps == Inv /\ Expand => Inv'
<1> SUFFICES ASSUME Inv, Expand PROVE Inv'
  OBVIOUS
<1> USE DEF Inv
<1>1. order \in Seq(Seq(Bit)) /\ q \in Seq(Seq(Bit)) /\ q # <<>>
  BY DEF TypeInv, Expand
<1>2. st' = Head(q) /\ q' = Tail(q) /\ nib = 16 /\ nib' = 0
      /\ UNCHANGED <<table, seen, order, cells, accept, pc>> /\ pc = "search"
  BY DEF Expand, popleft
<1>3. q' \in Seq(Seq(Bit)) /\ Len(q') = Len(q) - 1 /\ Len(q) >= 1
      /\ Head(q) = q[1] /\ \A j \in 1..Len(q) - 1 : q'[j] = q[j + 1]
  BY <1>1, <1>2, HeadTailProperties
<1>4. Len(order) \in Nat /\ Len(q) \in Nat /\ Len(q) <= Len(order)
  BY <1>1 DEF Ids
<1>5. expanded' = expanded + 1 /\ expanded \in Nat
  BY <1>2, <1>3, <1>4 DEF expanded
<1>6. TypeInv'
  BY <1>2, <1>3 DEF TypeInv
<1>7. Ids'
  <2>1. ASSUME NEW j \in 1..Len(q') PROVE q'[j] = order'[expanded' + j]
    <3>1. j \in 1..Len(q) - 1 /\ j + 1 \in 1..Len(q)
      BY <1>3, <1>4, <2>1
    <3>2. q'[j] = order[expanded + (j + 1)]
      BY <1>3, <3>1 DEF Ids
    <3> QED
      BY <1>2, <1>5, <3>1, <3>2
  <2> QED
    BY <1>2, <1>3, <1>4, <2>1 DEF Ids, ToSet
<1>8. Reached'
  BY <1>2, SameSucc DEF Reached
<1>9. Closed'
  <2>1. st' = order'[expanded'] /\ expanded' >= 1
    BY <1>2, <1>3, <1>4, <1>5 DEF Ids
  <2>2. ASSUME NEW j \in 1..expanded', NEW k \in 0..15, j < expanded' \/ k < nib'
        PROVE  FoundFrom(j, k)'
    <3>1. j \in 1..expanded
      BY <1>2, <1>5, <2>2
    <3>2. FoundFrom(j, k)
      BY <1>2, <3>1 DEF Closed
    <3> QED
      BY <1>2, <3>2, SameSucc DEF FoundFrom
  <2> QED
    BY <2>1, <2>2 DEF Closed
<1>10. Finished'
  BY <1>2 DEF Finished
<1> QED
  BY <1>6, <1>7, <1>8, <1>9, <1>10

(* A successor that is new gets the next id and a place in the queue. *)
LEMMA DiscoveryKeeps ==
    ASSUME Inv, Visit, NEW ns \in Live, succ[st][nib] = ns, ns.bits \notin seen,
           seen' = seen \cup {ns.bits},
           order' = Append(order, ns.bits), q' = Append(q, ns.bits)
    PROVE  Inv'
<1> USE DEF Inv
<1>1. order \in Seq(Seq(Bit)) /\ q \in Seq(Seq(Bit)) /\ ns.bits \in Seq(Bit)
  BY DEF TypeInv, Live
<1>2. nib < 16 /\ nib' = nib + 1 /\ UNCHANGED <<table, st, cells, accept, pc>>
      /\ pc = "search" /\ nib \in 0..15
  BY DEF Visit, TypeInv
<1>3. PICK N \in Nat : N = Len(order) /\ N >= 1
  BY <1>1 DEF Ids
<1>4. PICK M \in Nat : M = Len(q) /\ M <= N
  BY <1>1, <1>3 DEF Ids
<1>5. order' \in Seq(Seq(Bit)) /\ Len(order') = N + 1 /\ order'[N + 1] = ns.bits
      /\ \A j \in 1..N : order'[j] = order[j]
  BY <1>1, <1>3
<1>6. q' \in Seq(Seq(Bit)) /\ Len(q') = M + 1 /\ q'[M + 1] = ns.bits
      /\ \A j \in 1..M : q'[j] = q[j]
  BY <1>1, <1>4
<1>7. expanded = N - M /\ expanded' = expanded /\ expanded \in 1..N
      /\ st = order[expanded]
  BY <1>2, <1>3, <1>4, <1>5, <1>6 DEF expanded, Closed
<1>8. ns = State(ns.bits)
  BY DEF State, Live
<1>a. succ' = succ
  BY <1>2, SameSucc
<1>9. TypeInv'
  <2>1. IsFiniteSet(seen')
    BY FS_AddElement DEF TypeInv
  <2> QED
    <3>1. seen' \subseteq Seq(Bit)
      BY <1>1 DEF TypeInv
    <3>2. nib' \in 0..16 /\ table' \in Tables
      BY <1>2, SMTT(30) DEF TypeInv
    <3> QED
      BY <1>5, <1>6, <2>1, <3>1, <3>2 DEF TypeInv
<1>10. Ids'
  <2>1. Cardinality(seen') = N + 1
    BY <1>3, FS_AddElement, ZenonT(30) DEF TypeInv, Ids
  <2>2. seen' = ToSet(order')
    <3>1. DOMAIN order = 1..N /\ DOMAIN order' = 1..N + 1
      BY <1>1, <1>3, <1>5
    <3>2. seen = {order[j] : j \in 1..N}
      BY <3>1 DEF Ids, ToSet
    <3>3. {order'[j] : j \in 1..N + 1} = seen \cup {ns.bits}
      <4>1. ASSUME NEW j \in 1..N + 1 PROVE order'[j] \in seen \cup {ns.bits}
        <5>1. j \in 1..N \/ j = N + 1
          OBVIOUS
        <5> QED
          BY <1>5, <3>2, <5>1
      <4>2. ASSUME NEW x \in seen PROVE \E j \in 1..N + 1 : order'[j] = x
        <5>1. PICK j \in 1..N : order[j] = x
          BY <3>2
        <5>2. order'[j] = x /\ j \in 1..N + 1
          BY <1>5, <5>1
        <5> QED
          BY <5>2
      <4>3. order'[N + 1] = ns.bits /\ N + 1 \in 1..N + 1
        BY <1>5
      <4> QED
        BY <4>1, <4>2, <4>3
    <3> QED
      BY <3>1, <3>3 DEF ToSet
  <2>3. ASSUME NEW j \in 1..Len(q') PROVE q'[j] = order'[expanded' + j]
    <3>1. CASE j = M + 1
      <4>1. expanded' + j = N + 1
        BY <1>7, <3>1
      <4> QED
        BY <1>5, <1>6, <3>1, <4>1
    <3>2. CASE j # M + 1
      <4>1. j \in 1..M /\ expanded + j \in 1..N
        BY <1>6, <1>7, <3>2
      <4>2. q[j] = order[expanded + j]
        BY <1>4, <4>1 DEF Ids
      <4> QED
        BY <1>5, <1>6, <1>7, <4>1, <4>2
    <3> QED
      BY <3>1, <3>2
  <2>4. order'[1] = <<>>
    BY <1>3, <1>5 DEF Ids
  <2> QED
    <3>1. Len(order') >= 1 /\ Len(q') <= Len(order')
      BY <1>4, <1>5, <1>6
    <3>2. Cardinality(seen') = Len(order')
      BY <1>5, <2>1
    <3> QED
      BY <2>2, <2>3, <2>4, <3>1, <3>2 DEF Ids
<1>11. Reached'
  <2> SUFFICES ASSUME NEW i \in 2..N + 1
               PROVE  \E j \in 1..i - 1, k \in 0..15 :
                          succ[order'[j]][k] = State(order'[i])
    BY <1>5, <1>a DEF Reached
  <2>1. CASE i = N + 1
    <3>1. expanded \in 1..i - 1 /\ order'[expanded] = st
      BY <1>5, <1>7, <2>1
    <3>2. succ[order'[expanded]][nib] = State(order'[i])
      BY <1>5, <1>8, <2>1, <3>1
    <3> QED
      BY <1>2, <3>1, <3>2
  <2>2. CASE i # N + 1
    <3>1. i \in 2..N
      BY <2>2
    <3>2. PICK j \in 1..i - 1, k \in 0..15 : succ[order[j]][k] = State(order[i])
      BY <1>3, <3>1 DEF Reached
    <3>3. order'[j] = order[j] /\ order'[i] = order[i]
      BY <1>5, <3>1
    <3> QED
      BY <3>2, <3>3
  <2> QED
    BY <2>1, <2>2
<1>12. Closed'
  <2>1. expanded' >= 1 /\ st' = order'[expanded']
    BY <1>2, <1>5, <1>7
  <2>2. ASSUME NEW j \in 1..expanded', NEW k \in 0..15, j < expanded' \/ k < nib'
        PROVE  FoundFrom(j, k)'
    <3>1. j \in 1..expanded /\ j \in 1..N /\ order'[j] = order[j]
      BY <1>5, <1>7
    <3>2. CASE j < expanded \/ k < nib
      <4>1. FoundFrom(j, k)
        BY <1>2, <3>1, <3>2 DEF Closed
      <4> QED
        BY <1>a, <3>1, <4>1 DEF FoundFrom
    <3>3. CASE j = expanded /\ k = nib
      <4>1. succ[order'[j]][k] = ns
        BY <1>7, <3>1, <3>3
      <4> QED
        BY <1>a, <4>1 DEF FoundFrom
    <3> QED
      BY <1>2, <1>7, <2>2, <3>1, <3>2, <3>3
  <2> QED
    BY <2>1, <2>2 DEF Closed
<1>13. Finished'
  BY <1>2 DEF Finished
<1> QED
  BY <1>9, <1>10, <1>11, <1>12, <1>13

(* A successor that is dead or known leaves the search as it is. *)
LEMMA KnownKeeps ==
    ASSUME Inv, Visit, succ[st][nib].fail \/ succ[st][nib].bits \in seen,
           UNCHANGED <<seen, order, q>>
    PROVE  Inv'
<1> USE DEF Inv
<1>1. nib < 16 /\ nib' = nib + 1 /\ UNCHANGED <<table, st, cells, accept, pc>>
      /\ pc = "search" /\ nib \in 0..15
  BY DEF Visit, TypeInv
<1>2. succ' = succ
  BY <1>1, SameSucc
<1>3. Len(order) \in Nat /\ Len(q) \in Nat
  BY DEF TypeInv
<1>4. expanded \in Int /\ expanded' = expanded
  BY <1>3 DEF expanded
<1>5. TypeInv'
  BY <1>1 DEF TypeInv
<1>6. Ids'
  BY <1>4 DEF Ids, ToSet
<1>7. Reached'
  BY <1>2 DEF Reached
<1>8. Closed'
  <2>1. expanded >= 1 /\ st = order[expanded]
    BY <1>1 DEF Closed
  <2>2. ASSUME NEW j \in 1..expanded', NEW k \in 0..15, j < expanded' \/ k < nib'
        PROVE  FoundFrom(j, k)'
    <3>1. CASE j < expanded \/ k < nib
      <4>1. FoundFrom(j, k)
        BY <1>1, <1>4, <3>1 DEF Closed
      <4> QED
        BY <1>2, <4>1 DEF FoundFrom
    <3>2. CASE j = expanded /\ k = nib
      BY <1>2, <2>1, <3>2 DEF FoundFrom
    <3> QED
      BY <1>1, <1>4, <2>2, <3>1, <3>2
  <2> QED
    BY <1>1, <1>4, <2>1, <2>2 DEF Closed
<1>9. Finished'
  BY <1>1 DEF Finished
<1> QED
  BY <1>5, <1>6, <1>7, <1>8, <1>9

LEMMA VisitKeeps == Inv /\ Visit => Inv'
<1> SUFFICES ASSUME Inv, Visit PROVE Inv'
  OBVIOUS
<1> DEFINE ns == succ[st][nib]
<1>1. table \in Tables /\ nib \in 0..15
  BY DEF Visit, Inv, TypeInv
<1>2. expanded \in 1..Len(order) /\ st = order[expanded]
  BY <1>1 DEF Inv, TypeInv, Closed, expanded
<1>3. st \in Seq(Bit)
  BY <1>2 DEF Inv, TypeInv
<1>4. ns = step(st, nib).s
  BY <1>1, <1>3 DEF succ
<1>5. ns = None \/ ns \in Live
  BY <1>1, <1>3, SuccTyped
<1> HIDE DEF ns
<1>6. CASE ~ns.fail /\ ns.bits \notin seen
  <2>1. ns \in Live
    BY <1>5, <1>6 DEF None
  <2>2. seen' = seen \cup {ns.bits} /\ order' = Append(order, ns.bits)
        /\ q' = Append(q, ns.bits)
    BY <1>4, <1>6 DEF Visit, IsNew
  <2> QED
    BY <1>6, <2>1, <2>2, DiscoveryKeeps DEF ns
<1>7. CASE ns.fail \/ ns.bits \in seen
  <2>1. UNCHANGED <<seen, order, q>>
    BY <1>4, <1>7 DEF Visit, IsNew
  <2> QED
    BY <1>7, <2>1, KnownKeeps DEF ns
<1> QED
  BY <1>6, <1>7

LEMMA SearchUnchanged ==
    ASSUME Inv, UNCHANGED <<table, search>>,
           pc' \in {"pack", "printed"} =>
               pc \in {"pack", "printed"} \/ (q = <<>> /\ nib = 16)
    PROVE  Inv'
<1> USE DEF search
<1>1. succ' = succ
  BY SameSucc
<1>2. expanded' = expanded
  BY DEF expanded
<1> QED
  BY <1>1, <1>2 DEF Inv, TypeInv, Ids, Reached, Closed, Finished, FoundFrom, ToSet

LEMMA StepKeeps == Inv /\ [Next]_vars => Inv'
<1> SUFFICES ASSUME Inv, [Next]_vars PROVE Inv'
  OBVIOUS
<1>1. CASE Expand
  BY <1>1, ExpandKeeps
<1>2. CASE Visit
  BY <1>2, VisitKeeps
<1>3. CASE EndSearch
  BY <1>3, SearchUnchanged DEF EndSearch
<1>4. CASE Row
  BY <1>4, SearchUnchanged DEF Row
<1>5. CASE PrintModule
  BY <1>5, SearchUnchanged DEF PrintModule
<1>6. CASE UNCHANGED vars
  BY <1>6, SearchUnchanged DEF vars, search
<1> QED
  BY <1>1, <1>2, <1>3, <1>4, <1>5, <1>6 DEF Next, Running, Ended

LEMMA Invariance == Spec => []Inv
<1>1. Init => Inv
  BY Initially
<1>2. Inv /\ [Next]_vars => Inv'
  BY StepKeeps
<1> QED
  BY <1>1, <1>2, PTL DEF Spec

--------------------------------------------------------------------------
(* The rows, and the reasons to give up. *)

Flag(bits) == IF Len(bits) <= 7 /\ \A i \in 1..Len(bits) : bits[i] = 1 THEN 1 ELSE 0

RowOK(i) ==
    /\ OneSymbolEach(order[i])
    /\ accept[i] = Flag(order[i])
    /\ \A k \in 0..15 : cells[16 * (i - 1) + k + 1] = cell(order[i], k)

RowCount ==
    /\ cells \in Seq(Nat) /\ accept \in Seq({0, 1})
    /\ Len(accept) <= Len(order) /\ Len(cells) = 16 * Len(accept)

Rows == RowCount /\ \A i \in 1..Len(accept) : RowOK(i)

Phases ==
    /\ pc \in {"search", "pack", "printed", "exit"}
    /\ pc # "exit" => Len(table) = Entries
    /\ pc = "search" => accept = <<>> /\ cells = <<>>
    /\ pc = "printed" => Len(accept) = Len(order)

IInv == Inv /\ Phases /\ Rows /\ GivesUpWithCause

(* The symbols a nibble emits are bytes. *)
EmitsBytes(r) == \A j \in 1..Len(r.emitted) : r.emitted[j] \in 0..255

LEMMA TurnEmitsBytes ==
    ASSUME table \in Tables, Len(table) = Entries, NEW r \in Walk, NEW b \in Bit, EmitsBytes(r)
    PROVE  EmitsBytes(bit_step[b][r])
<1>1. CASE r.s.fail
  <2>1. bit_step[b][r] = r
    BY <1>1, TurnStays
  <2> QED
    BY <2>1
<1>2. CASE ~r.s.fail
  <2>1. r.s.bits \in Seq(Bit) /\ r.emitted \in Seq(Nat)
    BY <1>2, WalkState
  <2>2. PICK bits : bits = Append(r.s.bits, b)
    OBVIOUS
  <2> DEFINE r1 == bit_step[b][r]
  <2>3. CASE bits \notin ToSet(table)
    <3>1. Inside(r1, bits, r.emitted)
      BY <1>2, <2>2, <2>3, Turn
    <3> QED
      BY <3>1 DEF Inside, EmitsBytes
  <2>4. CASE bits \in ToSet(table) /\ bylen[bits] = EOS
    <3>1. Dead(r1, r.emitted)
      BY <1>2, <2>2, <2>4, Turn
    <3> QED
      BY <3>1 DEF Dead, EmitsBytes
  <2>5. CASE bits \in ToSet(table) /\ bylen[bits] # EOS
    <3>1. PICK y \in 0..255 : y = bylen[bits]
      <4>1. PICK E \in 1..257 : E = Entries
        BY GeneratorBounds
      <4>2. PICK y \in 0..E - 1 : y = bylen[bits]
        BY <2>5, <4>1, Dictionary
      <4>3. y # E - 1
        BY <2>5, <4>1, <4>2 DEF EOS
      <4>4. y \in 0..255
        BY <4>3
      <4> QED
        BY <4>2, <4>4
    <3>2. Inside(r1, <<>>, Append(r.emitted, y))
      BY <1>2, <2>2, <2>5, <3>1, Turn
    <3>3. PICK e \in Seq(Nat) : e = r.emitted
      BY <2>1
    <3>4. \A j \in 1..Len(e) : e[j] \in 0..255
      BY <3>3 DEF EmitsBytes
    <3>5. ASSUME NEW j \in 1..Len(Append(e, y)) PROVE Append(e, y)[j] \in 0..255
      <4>1. y \in Nat /\ Len(Append(e, y)) = Len(e) + 1 /\ Len(e) \in Nat
        OBVIOUS
      <4>2. CASE j = Len(e) + 1
        BY <4>2
      <4>3. CASE j # Len(e) + 1
        <5>1. j \in 1..Len(e)
          BY <4>1, <4>3
        <5>2. Append(e, y)[j] = e[j]
          BY <5>1
        <5> QED
          BY <3>4, <5>1, <5>2
      <4> QED
        BY <4>2, <4>3
    <3>6. r1.emitted = Append(e, y)
      BY <3>2, <3>3 DEF Inside
    <3> HIDE DEF r1
    <3>7. EmitsBytes(r1)
      BY <3>5, <3>6 DEF EmitsBytes
    <3> QED
      BY <3>7 DEF r1
  <2> QED
    BY <2>3, <2>4, <2>5
<1> QED
  BY <1>1, <1>2

LEMMA NibbleEmitsBytes ==
    ASSUME table \in Tables, Len(table) = Entries, NEW bits \in Seq(Bit), NEW k \in 0..15
    PROVE  EmitsBytes(step(bits, k)) /\ step(bits, k) \in Walk
<1>1. PICK r0, r1, r2, r3, r4 \in Walk : Turns(bits, k, r0, r1, r2, r3, r4)
  BY FourTurns
<1> DEFINE b1 == k \div 8
           b2 == (k \div 4) % 2
           b3 == (k \div 2) % 2
           b4 == k % 2
<1>2. b1 \in Bit /\ b2 \in Bit /\ b3 \in Bit /\ b4 \in Bit
  BY NibbleBits
<1>3. r1 = bit_step[b1][r0] /\ r2 = bit_step[b2][r1] /\ r3 = bit_step[b3][r2]
      /\ r4 = bit_step[b4][r3] /\ Inside(r0, bits, <<>>)
  BY <1>1 DEF Turns
<1>4. step(bits, k) = r4
  BY <1>1 DEF Turns
<1> HIDE DEF b1, b2, b3, b4
<1>5. EmitsBytes(r0)
  <2>1. r0.emitted = <<>>
    BY <1>3 DEF Inside
  <2> QED
    BY <2>1 DEF EmitsBytes
<1>6. EmitsBytes(r1)
  <2>1. r1 = bit_step[b1][r0] /\ b1 \in Bit
    BY <1>2, <1>3
  <2> QED
    BY <1>5, <2>1, TurnEmitsBytes
<1>7. EmitsBytes(r2)
  <2>1. r2 = bit_step[b2][r1] /\ b2 \in Bit
    BY <1>2, <1>3
  <2> QED
    BY <1>6, <2>1, TurnEmitsBytes
<1>8. EmitsBytes(r3)
  <2>1. r3 = bit_step[b3][r2] /\ b3 \in Bit
    BY <1>2, <1>3
  <2> QED
    BY <1>7, <2>1, TurnEmitsBytes
<1>9. EmitsBytes(r4)
  <2>1. r4 = bit_step[b4][r3] /\ b4 \in Bit
    BY <1>2, <1>3
  <2> QED
    BY <1>8, <2>1, TurnEmitsBytes
<1>10. step(bits, k) \in Walk
  BY <1>4
<1>11. EmitsBytes(step(bits, k))
  BY <1>4, <1>9
<1> QED
  BY <1>10, <1>11

(* What a cell packs: where the step leads, by id, and what it emits. *)
Packs(c, r, next, sym) ==
    /\ next \in 0..Len(order) /\ sym \in 0..255
    /\ r.s.fail => next = Len(order)
    /\ ~r.s.fail => next < Len(order) /\ order[next + 1] = r.s.bits
    /\ \/ r.emitted = <<>> /\ c = 65536 * next
       \/ r.emitted = <<sym>> /\ c = 65536 * next + 256 + sym

LEMMA SidFinds ==
    ASSUME Inv, NEW bits \in seen
    PROVE  sid(bits) \in 0..Len(order) - 1 /\ order[sid(bits) + 1] = bits
<1>1. PICK N \in Nat : N = Len(order)
  BY DEF Inv, TypeInv
<1>2. PICK j \in 1..N : order[j] = bits
  BY <1>1 DEF Inv, TypeInv, Ids, ToSet
<1>3. j - 1 \in 0..N - 1 /\ order[(j - 1) + 1] = bits
  BY <1>2
<1>4. sid(bits) = CHOOSE i \in 0..N - 1 : order[i + 1] = bits
  BY <1>1 DEF sid, n
<1> QED
  BY <1>1, <1>3, <1>4

(* When the search has ended every successor has been found. *)
LEMMA AllFound ==
    ASSUME Inv, q = <<>>, nib = 16, NEW bits \in seen, NEW k \in 0..15
    PROVE  step(bits, k).s.fail \/ step(bits, k).s.bits \in seen
<1>1. PICK N \in Nat : N = Len(order)
  BY DEF Inv, TypeInv
<1>2. PICK j \in 1..N : order[j] = bits
  BY <1>1 DEF Inv, TypeInv, Ids, ToSet
<1>3. expanded = N
  BY <1>1 DEF expanded
<1>4. FoundFrom(j, k)
  BY <1>2, <1>3 DEF Inv, Closed
<1>5. bits \in Seq(Bit)
  BY DEF Inv, TypeInv
<1>6. succ[bits][k] = step(bits, k).s
  BY <1>5 DEF succ
<1> QED
  BY <1>2, <1>4, <1>6 DEF FoundFrom

LEMMA OrderSeen ==
    ASSUME Inv, NEW i \in 1..Len(order)
    PROVE  order[i] \in seen /\ order[i] \in Seq(Bit)
<1>1. PICK N \in Nat : N = Len(order)
  BY DEF Inv, TypeInv
<1>2. order \in Seq(Seq(Bit)) /\ DOMAIN order = 1..N
  BY <1>1 DEF Inv, TypeInv
<1>3. i \in DOMAIN order
  BY <1>1, <1>2
<1>4. order[i] \in ToSet(order)
  BY <1>3 DEF ToSet
<1>5. order[i] \in seen
  BY <1>4 DEF Inv, Ids
<1> QED
  BY <1>5 DEF Inv, TypeInv

LEMMA CellPacks ==
    ASSUME Inv, q = <<>>, nib = 16, Len(table) = Entries, NEW bits \in seen, NEW k \in 0..15,
           OneSymbolEach(bits)
    PROVE  \E next, sym : Packs(cell(bits, k), step(bits, k), next, sym)
<1>1. PICK N \in Nat : N = Len(order) /\ n = N
  BY DEF Inv, TypeInv, n
<1>2. table \in Tables /\ bits \in Seq(Bit)
  BY DEF Inv, TypeInv
<1>3. PICK r \in Walk : r = step(bits, k) /\ EmitsBytes(r) /\ Len(r.emitted) <= 1
  BY <1>2, NibbleEmitsBytes DEF OneSymbolEach
<1>4. r.s.fail \/ r.s.bits \in seen
  BY <1>3, AllFound
<1> DEFINE nx == IF r.s.fail THEN n ELSE sid(r.s.bits)
<1>5. PICK next \in 0..N : /\ next = nx
                           /\ r.s.fail => next = N
                           /\ ~r.s.fail => next < N /\ order[next + 1] = r.s.bits
  <2>1. CASE r.s.fail
    BY <1>1, <2>1
  <2>2. CASE ~r.s.fail
    <3>1. PICK x \in 0..N - 1 : x = sid(r.s.bits) /\ order[x + 1] = r.s.bits
      BY <1>1, <1>4, <2>2, SidFinds
    <3>2. x = nx /\ x < N /\ x \in 0..N
      BY <2>2, <3>1
    <3> QED
      BY <2>2, <3>1, <3>2
  <2> QED
    BY <2>1, <2>2
<1>6. cell(bits, k) = nx * 65536 + (IF r.emitted = <<>> THEN 0 ELSE 256 + r.emitted[1])
  BY <1>3 DEF cell
<1> HIDE DEF nx
<1>7. PICK e \in Seq(Nat) : e = r.emitted
  BY WalkState
<1>8. CASE e = <<>>
  <2>1. cell(bits, k) = next * 65536 + 0
    BY <1>5, <1>6, <1>7, <1>8
  <2>2. cell(bits, k) = 65536 * next
    BY <2>1
  <2>3. 0 \in 0..255
    OBVIOUS
  <2>4. Packs(cell(bits, k), r, next, 0)
    BY <1>1, <1>5, <1>7, <1>8, <2>2, <2>3 DEF Packs
  <2> QED
    BY <1>3, <2>4
<1>9. CASE e # <<>>
  <2>1. Len(e) = 1
    <3>1. PICK L \in Nat : L = Len(e)
      OBVIOUS
    <3>2. L # 0
      BY <1>9, <3>1
    <3>3. L <= 1
      BY <1>3, <1>7, <3>1
    <3> QED
      BY <3>1, <3>2, <3>3
  <2>2. PICK sym \in 0..255 : sym = e[1]
    BY <1>3, <1>7, <2>1 DEF EmitsBytes
  <2>3. e = <<sym>>
    BY <2>1, <2>2
  <2>4. cell(bits, k) = next * 65536 + (256 + sym)
    BY <1>5, <1>6, <1>7, <1>9, <2>2
  <2>5. cell(bits, k) = 65536 * next + 256 + sym
    BY <2>4
  <2>6. Packs(cell(bits, k), r, next, sym)
    BY <1>1, <1>5, <1>7, <2>3, <2>5 DEF Packs
  <2> QED
    BY <1>3, <2>6
<1> QED
  BY <1>8, <1>9

LEMMA SameCell ==
    ASSUME table' = table, order' = order, NEW bits, NEW k
    PROVE  cell(bits, k)' = cell(bits, k) /\ step(bits, k)' = step(bits, k)
<1>1. bylen' = bylen
  BY DEF bylen
<1>2. \A r, b : reach(r, b)' = reach(r, b)
  BY <1>1 DEF reach
<1>3. bit_step' = bit_step
  BY <1>2 DEF bit_step
<1>4. step(bits, k)' = step(bits, k)
  BY <1>3 DEF step, walk4
<1>5. n' = n /\ \A b : sid(b)' = sid(b)
  BY DEF n, sid
<1> QED
  BY <1>4, <1>5 DEF cell

LEMMA SameRows ==
    ASSUME table' = table, order' = order, cells' = cells, accept' = accept, Rows
    PROVE  Rows'
<1>1. ASSUME NEW i \in 1..Len(accept') PROVE RowOK(i)'
  <2>1. RowOK(i)
    BY <1>1 DEF Rows
  <2>2. OneSymbolEach(order[i])'
    BY <2>1, SameCell DEF RowOK, OneSymbolEach
  <2> QED
    BY <2>1, <2>2, SameCell DEF RowOK, Flag
<1> QED
  BY <1>1 DEF Rows, RowCount

LEMMA NoRows ==
    ASSUME order \in Seq(Seq(Bit)), accept = <<>>, cells = <<>>
    PROVE  Rows
<1>1. Len(accept) = 0 /\ Len(cells) = 0 /\ Len(order) \in Nat
  OBVIOUS
<1>2. accept \in Seq({0, 1}) /\ cells \in Seq(Nat)
  OBVIOUS
<1> QED
  BY <1>1, <1>2 DEF Rows, RowCount

LEMMA RowsInitially == Init => IInv
<1> SUFFICES ASSUME Init PROVE IInv
  OBVIOUS
<1>1. Inv
  BY Initially
<1>2. Phases
  BY DEF Init, Phases
<1>3. Rows
  BY <1>1, NoRows DEF Init, Inv, TypeInv
<1>4. GivesUpWithCause
  BY DEF Init, GivesUpWithCause
<1> QED
  BY <1>1, <1>2, <1>3, <1>4 DEF IInv

(* While the script searches there are no rows. *)
LEMMA SearchingKeeps == IInv /\ (Expand \/ Visit) => IInv'
<1> SUFFICES ASSUME IInv, Expand \/ Visit PROVE IInv'
  OBVIOUS
<1>1. Inv'
  BY ExpandKeeps, VisitKeeps DEF IInv
<1>2. pc = "search" /\ pc' = "search" /\ UNCHANGED <<table, cells, accept>>
  BY DEF Expand, Visit
<1>3. Phases'
  BY <1>2 DEF IInv, Phases
<1>4. cells = <<>> /\ accept = <<>>
  BY <1>2 DEF IInv, Phases
<1>5. order' \in Seq(Seq(Bit))
  BY <1>1 DEF Inv, TypeInv
<1>6. Rows'
  <2>1. cells' = <<>> /\ accept' = <<>>
    BY <1>2, <1>4
  <2>2. Len(accept') = 0 /\ Len(cells') = 0 /\ Len(order') \in Nat
    BY <1>5, <2>1
  <2>3. accept' \in Seq({0, 1}) /\ cells' \in Seq(Nat)
    BY <2>1
  <2> QED
    BY <2>2, <2>3 DEF Rows, RowCount
<1>7. GivesUpWithCause'
  BY <1>2 DEF GivesUpWithCause
<1> QED
  BY <1>1, <1>3, <1>6, <1>7 DEF IInv

(* The longest state found has no successor as long as it would be, so a   *)
(* code goes beyond it.                                                    *)
LEMMA LongStateLongCode ==
    ASSUME Inv, q = <<>>, nib = 16, NEW bits \in seen
    PROVE  LongerCode(Len(bits))
<1>1. PICK N \in Nat : N = Len(order) /\ N >= 1
  BY DEF Inv, TypeInv, Ids
<1>2. order \in Seq(Seq(Bit)) /\ table \in Tables
  BY DEF Inv, TypeInv
<1>3. seen = {order[j] : j \in 1..N}
  <2>1. DOMAIN order = 1..N
    BY <1>1, <1>2
  <2> QED
    BY <2>1 DEF Inv, Ids, ToSet
<1> DEFINE f == [j \in 1..N |-> Len(order[j])]
<1>4. PICK i \in 1..N : \A j \in 1..N : f[j] <= f[i]
  <2>1. f \in [1..N -> Nat]
    BY <1>1, <1>2
  <2> HIDE DEF f
  <2> QED
    BY <1>1, <2>1, Largest
<1>5. PICK top \in Seq(Bit) : top = order[i] /\ top \in seen
  BY <1>1, <1>2, <1>3
<1>6. PICK m \in Nat : m = Len(top)
  OBVIOUS
<1>7. ASSUME NEW x \in seen PROVE Len(x) <= m
  BY <1>3, <1>4, <1>5, <1>6
<1>8. LongerCode(m)
  <2> SUFFICES ASSUME ~LongerCode(m) PROVE FALSE
    OBVIOUS
  <2>1. ~step(top, 0).s.fail /\ Len(step(top, 0).s.bits) = m + 4
    BY <1>2, <1>6, NibbleGrows, SMTT(30)
  <2>2. step(top, 0).s.bits \in seen
    <3>1. step(top, 0).s.fail \/ step(top, 0).s.bits \in seen
      <4>1. 0 \in 0..15
        OBVIOUS
      <4> QED
        BY <1>5, <4>1, AllFound
    <3> QED
      BY <2>1, <3>1
  <2>3. Len(step(top, 0).s.bits) <= m
    BY <1>7, <2>2
  <2> QED
    BY <2>1, <2>3
<1>9. PICK y \in 1..Len(table) : Len(table[y]) > m
  BY <1>8 DEF LongerCode
<1>10. Len(bits) <= m /\ bits \in Seq(Bit)
  BY <1>7 DEF Inv, TypeInv
<1>11. Len(table[y]) \in Nat
  BY <1>2, Dictionary
<1>12. Len(table[y]) > Len(bits)
  BY <1>9, <1>10, <1>11
<1> QED
  BY <1>12 DEF LongerCode

LEMMA EndSearchKeeps == IInv /\ EndSearch => IInv'
<1> SUFFICES ASSUME IInv, EndSearch PROVE IInv'
  OBVIOUS
<1>1. Inv'
  BY SearchUnchanged DEF EndSearch, IInv
<1>2. pc = "search" /\ nib = 16 /\ q = <<>> /\ UNCHANGED <<table, order, cells, accept>>
      /\ pc' = (IF \A bits \in seen : Len(bits) < MaxBits THEN "pack" ELSE "exit")
  BY DEF EndSearch, search
<1>3. Phases'
  BY <1>2 DEF IInv, Phases
<1>4. Rows'
  BY <1>2, SameRows DEF IInv
<1>5. GivesUpWithCause'
  <2> SUFFICES ASSUME pc' = "exit" PROVE \E y \in 1..Entries : Len(table'[y]) > MaxBits
    BY DEF GivesUpWithCause
  <2>1. PICK bits \in seen : ~(Len(bits) < MaxBits)
    BY <1>2
  <2>2. PICK y \in 1..Len(table) : Len(table[y]) > Len(bits)
    BY <1>2, LongStateLongCode DEF IInv, LongerCode
  <2>3. Len(table) = Entries
    BY <1>2 DEF IInv, Phases
  <2>4. Len(table[y]) \in Nat /\ Len(bits) \in Nat /\ MaxBits \in Nat
    BY Dictionary, GeneratorBounds DEF IInv, Inv, TypeInv
  <2>5. Len(table[y]) > MaxBits
    BY <2>1, <2>2, <2>4
  <2> QED
    BY <1>2, <2>3, <2>5
<1> QED
  BY <1>1, <1>3, <1>4, <1>5 DEF IInv

Joins(u, v, w, M, K) ==
    /\ w \in Seq(Nat) /\ Len(w) = M + K
    /\ \A p \in 1..M : w[p] = u[p]
    /\ \A p \in 1..K : w[M + p] = v[p]

LEMMA Joined ==
    ASSUME NEW u \in Seq(Nat), NEW v \in Seq(Nat), NEW M \in Nat, NEW K \in Nat,
           Len(u) = M, Len(v) = K
    PROVE  Joins(u, v, u \o v, M, K)
  BY SMTT(30) DEF Joins

(* The row of a state follows the rows of the states before it. *)
LEMMA RowAppends ==
    ASSUME IInv, Row, NEW L \in Nat, L = Len(accept), NEW bits, bits = order[L + 1],
           OneSymbolEach(bits)
    PROVE  Rows'
<1>1. pc = "pack" /\ L < Len(order) /\ q = <<>> /\ nib = 16 /\ Len(table) = Entries
  BY DEF Row, IInv, Inv, Finished, Phases, n
<1>2. /\ table' = table /\ order' = order
      /\ cells' = cells \o [k \in 1..16 |-> cell(bits, k - 1)]
      /\ accept' = Append(accept, Flag(bits))
  BY DEF Row, search, Flag
<1>3. PICK N \in Nat : N = Len(order) /\ L < N
  BY <1>1 DEF IInv, Inv, TypeInv
<1>4. bits \in seen
  BY <1>3 DEF IInv, Inv, TypeInv, Ids, ToSet
<1>5. ASSUME NEW k \in 0..15 PROVE cell(bits, k) \in Nat
  <2>1. PICK next, sym : Packs(cell(bits, k), step(bits, k), next, sym)
    BY <1>1, <1>4, CellPacks DEF IInv
  <2>2. next \in Nat /\ sym \in Nat
    BY <1>3, <2>1 DEF Packs
  <2>3. 65536 * next \in Nat /\ 65536 * next + 256 + sym \in Nat
    BY <2>2
  <2> QED
    BY <2>1, <2>3 DEF Packs
<1>6. PICK row \in Seq(Nat) : /\ row = [k \in 1..16 |-> cell(bits, k - 1)]
                              /\ Len(row) = 16 /\ \A k \in 0..15 : row[k + 1] = cell(bits, k)
  <2> DEFINE w == [k \in 1..16 |-> cell(bits, k - 1)]
  <2>1. \A k \in 1..16 : k - 1 \in 0..15
    OBVIOUS
  <2>2. w \in [1..16 -> Nat]
    BY <1>5, <2>1
  <2>3. \A k \in 0..15 : k + 1 \in 1..16 /\ (k + 1) - 1 = k
    OBVIOUS
  <2>4. \A k \in 0..15 : w[k + 1] = cell(bits, k)
    BY <2>3
  <2>5. w \in Seq(Nat) /\ Len(w) = 16
    BY <1>5, <2>1
  <2> HIDE DEF w
  <2> QED
    BY <2>4, <2>5 DEF w
<1>7. cells \in Seq(Nat) /\ Len(cells) = 16 * L /\ accept \in Seq({0, 1}) /\ L <= N
  BY <1>3 DEF IInv, Rows, RowCount
<1>a. cells' = cells \o row
  BY <1>2, <1>6
<1>b. Len(row) = 16
  BY <1>6
<1>8. /\ cells' \in Seq(Nat) /\ Len(cells') = 16 * L + 16
      /\ \A p \in 1..16 * L : cells'[p] = cells[p]
      /\ \A p \in 1..16 : cells'[16 * L + p] = row[p]
  <2>1. PICK M \in Nat : M = 16 * L
    OBVIOUS
  <2>2. /\ cells \o row \in Seq(Nat) /\ Len(cells \o row) = M + 16
        /\ \A p \in 1..M : (cells \o row)[p] = cells[p]
        /\ \A p \in 1..16 : (cells \o row)[M + p] = row[p]
    <3>1. PICK u \in Seq(Nat) : u = cells /\ Len(u) = M
      BY <1>7, <2>1
    <3>2. PICK K \in Nat : K = 16 /\ Len(row) = K
      BY <1>b
    <3>3. Joins(u, row, u \o row, M, K)
      BY <3>1, <3>2, Joined
    <3> QED
      BY <3>1, <3>2, <3>3 DEF Joins
  <2> QED
    BY <1>a, <2>1, <2>2
<1>9. Flag(bits) \in {0, 1}
  BY DEF Flag
<1>10. accept' \in Seq({0, 1}) /\ Len(accept') = L + 1 /\ accept'[L + 1] = Flag(bits)
       /\ \A i \in 1..L : accept'[i] = accept[i]
  BY <1>2, <1>7, <1>9
<1>12. \A k \in 0..15 : cells'[16 * L + k + 1] = cell(bits, k)
  <2> TAKE k \in 0..15
  <2>1. PICK p \in 1..16 : p = k + 1 /\ row[p] = cell(bits, k)
    BY <1>6
  <2>2. cells'[16 * L + p] = row[p]
    BY <1>8
  <2>3. 16 * L + p = 16 * L + k + 1
    BY <2>1
  <2> QED
    BY <2>1, <2>2, <2>3
<1>13. RowCount'
  <2>1. Len(cells') = 16 * (L + 1)
    <3>1. 16 * L + 16 = 16 * (L + 1)
      OBVIOUS
    <3> QED
      BY <1>8, <3>1
  <2>2. L + 1 <= Len(order')
    BY <1>2, <1>3
  <2>3. cells' \in Seq(Nat) /\ accept' \in Seq({0, 1}) /\ Len(accept') = L + 1
    BY <1>8, <1>10
  <2> QED
    BY <2>1, <2>2, <2>3 DEF RowCount
<1>14. ASSUME NEW i \in 1..L + 1 PROVE RowOK(i)'
  <2>1. CASE i = L + 1
    <3>1. order'[i] = bits /\ 16 * (i - 1) = 16 * L
      BY <1>2, <2>1
    <3>2. OneSymbolEach(order[i])'
      BY <1>2, <3>1, SameCell DEF OneSymbolEach
    <3>3. accept'[i] = Flag(order[i])'
      BY <1>10, <2>1, <3>1 DEF Flag
    <3>4. ASSUME NEW k \in 0..15 PROVE cells'[16 * (i - 1) + k + 1] = cell(order[i], k)'
      BY <1>2, <1>12, <3>1, SameCell
    <3> QED
      BY <3>2, <3>3, <3>4 DEF RowOK
  <2>2. CASE i # L + 1
    <3>1. i \in 1..L
      BY <2>2
    <3>2. RowOK(i)
      BY <1>7, <3>1 DEF IInv, Rows
    <3>3. OneSymbolEach(order[i])'
      BY <1>2, <3>2, SameCell DEF RowOK, OneSymbolEach
    <3>4. accept'[i] = Flag(order[i])'
      BY <1>2, <1>10, <3>1, <3>2 DEF RowOK, Flag
    <3>5. ASSUME NEW k \in 0..15 PROVE cells'[16 * (i - 1) + k + 1] = cell(order[i], k)'
      <4>1. 16 * (i - 1) + k + 1 \in 1..16 * L
        BY <3>1
      <4> QED
        BY <1>2, <1>8, <3>2, <4>1, SameCell DEF RowOK
    <3> QED
      BY <3>3, <3>4, <3>5 DEF RowOK
  <2> QED
    BY <2>1, <2>2
<1> QED
  BY <1>10, <1>13, <1>14 DEF Rows

LEMMA RowKeeps == IInv /\ Row => IInv'
<1> SUFFICES ASSUME IInv, Row PROVE IInv'
  OBVIOUS
<1>1. Inv'
  BY SearchUnchanged DEF Row, IInv
<1>2. pc = "pack" /\ UNCHANGED <<table, order>> /\ Len(table) = Entries
  BY DEF Row, search, IInv, Phases
<1>3. PICK L \in Nat : L = Len(accept) /\ L < Len(order)
  BY DEF IInv, Rows, RowCount, Row, n
<1>4. PICK bits : bits = order[L + 1]
  OBVIOUS
<1>5. CASE OneSymbolEach(bits)
  <2>1. pc' = "pack"
    BY <1>2, <1>3, <1>4, <1>5 DEF Row
  <2>2. Rows'
    BY <1>3, <1>4, <1>5, RowAppends
  <2>3. Phases'
    BY <1>2, <2>1 DEF Phases
  <2>4. GivesUpWithCause'
    BY <2>1 DEF GivesUpWithCause
  <2> QED
    BY <1>1, <2>2, <2>3, <2>4 DEF IInv
<1>6. CASE ~OneSymbolEach(bits)
  <2>1. pc' = "exit" /\ UNCHANGED <<cells, accept>>
    BY <1>3, <1>4, <1>6 DEF Row
  <2>2. Rows'
    BY <1>2, <2>1, SameRows DEF IInv
  <2>3. Phases'
    BY <2>1 DEF Phases
  <2>4. bits \in Seq(Bit) /\ table \in Tables
    BY <1>3, <1>4 DEF IInv, Inv, TypeInv
  <2>5. PICK k \in 0..15 : ~(Len(step(bits, k).emitted) <= 1)
    BY <1>6 DEF OneSymbolEach
  <2>6. ShortCode
    BY <1>2, <2>4, <2>5, NibbleEmits
  <2>7. GivesUpWithCause'
    BY <1>2, <2>6 DEF GivesUpWithCause, ShortCode
  <2> QED
    BY <1>1, <2>2, <2>3, <2>7 DEF IInv
<1> QED
  BY <1>5, <1>6

LEMMA DivMod ==
    ASSUME NEW a \in Nat
    PROVE  \E d \in Nat, k \in 0..15 : d = a \div 16 /\ k = a % 16 /\ a = 16 * d + k
  OBVIOUS

(* Where a cell stands: in the row of a state. *)
LEMMA PlaceOfCell ==
    ASSUME NEW N \in Nat, NEW p \in 1..16 * N
    PROVE  \E i \in 1..N, k \in 0..15 : p = 16 * (i - 1) + k + 1
<1>1. PICK a \in Nat : p = a + 1 /\ a < 16 * N
  <2>1. p - 1 \in Nat /\ p = (p - 1) + 1 /\ p - 1 < 16 * N
    OBVIOUS
  <2> QED
    BY <2>1
<1>2. PICK d \in Nat, k \in 0..15 : a = 16 * d + k
  BY DivMod
<1>3. d + 1 \in 1..N /\ (d + 1) - 1 = d
  BY <1>1, <1>2
<1>4. p = 16 * ((d + 1) - 1) + k + 1
  BY <1>1, <1>2
<1> QED
  BY <1>3, <1>4

LEMMA PrintKeeps == IInv /\ PrintModule => IInv'
<1> SUFFICES ASSUME IInv, PrintModule PROVE IInv'
  OBVIOUS
<1>1. Inv'
  BY SearchUnchanged DEF PrintModule, IInv
<1>2. pc = "pack" /\ UNCHANGED <<table, order, cells, accept>> /\ Len(table) = Entries
      /\ q = <<>> /\ nib = 16
  BY DEF PrintModule, search, IInv, Inv, Phases, Finished
<1>3. PICK N \in Nat : N = Len(order) /\ N = Len(accept) /\ n = N
  BY DEF PrintModule, IInv, Inv, TypeInv, n
<1>4. pc' = (IF /\ \A p \in 1..Len(cells) : cells[p] \div 65536 < 65536
                /\ Len(cells) % CHUNK = 0
             THEN "printed" ELSE "exit")
  BY DEF PrintModule
<1>5. Rows'
  BY <1>2, SameRows DEF IInv
<1>6. Phases'
  BY <1>2, <1>3, <1>4 DEF Phases
<1>7. Len(cells) = 16 * N
  BY <1>3 DEF IInv, Rows, RowCount
<1>8. n' = N
  BY <1>2, <1>3 DEF n
<1>9. GivesUpWithCause'
  <2> SUFFICES ASSUME pc' = "exit" PROVE N >= 65536 \/ (16 * N) % CHUNK # 0
    BY <1>8 DEF GivesUpWithCause
  <2>1. CASE Len(cells) % CHUNK # 0
    BY <1>7, <2>1
  <2>2. CASE Len(cells) % CHUNK = 0
    <3>1. PICK p \in 1..16 * N : ~(cells[p] \div 65536 < 65536)
      BY <1>4, <1>7, <2>2
    <3>2. PICK i \in 1..N, k \in 0..15 : p = 16 * (i - 1) + k + 1
      BY PlaceOfCell
    <3>3. cells[p] = cell(order[i], k) /\ OneSymbolEach(order[i])
      BY <1>3, <3>2 DEF IInv, Rows, RowOK
    <3>4. order[i] \in seen
      BY <1>3, <3>2, OrderSeen DEF IInv
    <3>5. PICK next, sym : Packs(cell(order[i], k), step(order[i], k), next, sym)
      BY <1>2, <3>3, <3>4, CellPacks DEF IInv
    <3>6. next \in 0..N /\ sym \in 0..255
          /\ (cells[p] = 65536 * next \/ cells[p] = 65536 * next + 256 + sym)
      BY <1>3, <3>3, <3>5 DEF Packs
    <3>7. cells[p] \div 65536 = next
      <4>1. (65536 * next) \div 65536 = next /\ (65536 * next + 256 + sym) \div 65536 = next
        BY <3>6
      <4> QED
        BY <3>6, <4>1
    <3> QED
      BY <3>1, <3>6, <3>7
  <2> QED
    BY <2>1, <2>2
<1> QED
  BY <1>1, <1>5, <1>6, <1>9 DEF IInv

LEMMA StutterKeeps == IInv /\ UNCHANGED vars => IInv'
<1> SUFFICES ASSUME IInv, UNCHANGED vars PROVE IInv'
  OBVIOUS
<1>1. UNCHANGED <<table, search, order, cells, accept, pc>>
  BY DEF vars, search
<1>2. Inv'
  BY <1>1, SearchUnchanged DEF IInv, Inv, Finished
<1>3. Rows'
  BY <1>1, SameRows DEF IInv
<1>4. Phases'
  BY <1>1 DEF IInv, Phases
<1>5. GivesUpWithCause'
  BY <1>1 DEF IInv, GivesUpWithCause, n
<1> QED
  BY <1>2, <1>3, <1>4, <1>5 DEF IInv

LEMMA RowsInvariance == Spec => []IInv
<1>1. Init => IInv
  BY RowsInitially
<1>2. IInv /\ [Next]_vars => IInv'
  BY SearchingKeeps, EndSearchKeeps, RowKeeps, PrintKeeps, StutterKeeps
     DEF Next, Running, Ended
<1> QED
  BY <1>1, <1>2, PTL DEF Spec

--------------------------------------------------------------------------
LEMMA SuffixByIndex ==
    ASSUME NEW S, NEW s \in Seq(S), NEW t \in Seq(S), Len(s) <= Len(t),
           \A j \in 1..Len(s) : s[j] = t[Len(t) - Len(s) + j]
    PROVE  IsSuffix(s, t)
<1>1. PICK A \in Nat, B \in Nat : A = Len(s) /\ B = Len(t) /\ A <= B
  OBVIOUS
<1> DEFINE rs == Reverse(s)
           rt == Reverse(t)
<1>2. rs = [i \in 1..A |-> s[A - i + 1]] /\ rt = [i \in 1..B |-> t[B - i + 1]]
  BY <1>1 DEF Reverse
<1>3. \A i \in 1..A : rs[i] \in S
  BY <1>1, <1>2
<1>4. \A i \in 1..A : rt[i] \in S
  BY <1>1, <1>2
<1>5. Len(rs) = A /\ Len(rt) = B
  BY <1>2
<1>6. ASSUME NEW i \in 1..A PROVE rs[i] = rt[i]
  <2>1. A - i + 1 \in 1..A /\ B - A + (A - i + 1) = B - i + 1
    BY <1>1
  <2> QED
    <3>1. rs[i] = s[A - i + 1] /\ rt[i] = t[B - i + 1]
      BY <1>1, <1>2
    <3>2. s[A - i + 1] = t[B - A + (A - i + 1)]
      BY <1>1, <2>1
    <3> HIDE DEF rs, rt
    <3> QED
      BY <2>1, <3>1, <3>2
<1> HIDE DEF rs, rt
<1>7. SubSeq(rs, 1, A) \in Seq(S) /\ SubSeq(rt, 1, A) \in Seq(S)
      /\ Len(SubSeq(rs, 1, A)) = A /\ Len(SubSeq(rt, 1, A)) = A
      /\ \A i \in 1..A : SubSeq(rs, 1, A)[i] = rs[i] /\ SubSeq(rt, 1, A)[i] = rt[i]
  BY <1>1, <1>3, <1>4, SubSeqProperties
<1>8. SubSeq(rs, 1, A) = SubSeq(rt, 1, A)
  BY <1>6, <1>7, SeqEqual
<1> QED
  BY <1>1, <1>5, <1>8 DEF IsSuffix, IsPrefix, rs, rt

(* Whatever table the script reads, no state gets two ids or is lost, and  *)
(* what waits to be expanded is the end of the order (the search loop).    *)
THEOREM IdsAreInOrder == Spec => []IdsInOrder
<1>1. Inv => IdsInOrder
  <2> SUFFICES ASSUME Inv PROVE IdsInOrder
    OBVIOUS
  <2>1. IsSuffix(q, order)
    BY SuffixByIndex DEF Inv, TypeInv, Ids, expanded
  <2> QED
    BY <2>1 DEF IdsInOrder, Inv, Ids, n
<1> QED
  BY <1>1, Invariance, PTL

(* Whatever table the script reads, the states it has found when the       *)
(* search loop ends are closed under its step and all of them reachable.   *)
THEOREM SearchComplete == Spec => []ClosedAndReached
<1>1. Inv => ClosedAndReached
  <2> SUFFICES ASSUME Inv, pc = "pack"
               PROVE  /\ order[1] = <<>>
                      /\ \A bits \in seen, k \in 0..15 :
                            LET s == step(bits, k).s IN s.fail \/ s.bits \in seen
                      /\ \A i \in 2..n : \E j \in 1..i - 1, k \in 0..15 :
                            step(order[j], k).s = State(order[i])
    BY DEF ClosedAndReached
  <2>1. q = <<>> /\ nib = 16 /\ Len(order) \in Nat /\ order \in Seq(Seq(Bit))
    BY DEF Inv, Finished, TypeInv
  <2>2. expanded = Len(order)
    BY <2>1 DEF expanded
  <2>3. \A j \in 1..Len(order), k \in 0..15 : succ[order[j]][k] = step(order[j], k).s
    BY <2>1, SMTT(30) DEF succ
  <2>4. ASSUME NEW bits \in seen, NEW k \in 0..15
        PROVE  step(bits, k).s.fail \/ step(bits, k).s.bits \in seen
    <3>1. PICK j \in 1..Len(order) : order[j] = bits
      BY <2>1 DEF Inv, Ids, ToSet
    <3>2. FoundFrom(j, k)
      BY <2>1, <2>2, SMTT(30) DEF Inv, Closed
    <3> QED
      BY <2>3, <3>1, <3>2 DEF FoundFrom
  <2>5. ASSUME NEW i \in 2..Len(order)
        PROVE  \E j \in 1..i - 1, k \in 0..15 : step(order[j], k).s = State(order[i])
    <3>1. PICK j \in 1..i - 1, k \in 0..15 : succ[order[j]][k] = State(order[i])
      BY DEF Inv, Reached
    <3>2. j \in 1..Len(order)
      BY <2>1
    <3> QED
      BY <2>3, <3>1, <3>2
  <2> QED
    BY <2>4, <2>5 DEF Inv, Ids, n
<1> QED
  BY <1>1, Invariance, PTL

(* The script exits without printing only for one of the reasons of its    *)
(* assertions: a table of the wrong size, a code too long or too short, or *)
(* too many or too few states for its cells and chunks.                    *)
THEOREM ExitsAreJustified == Spec => []GivesUpWithCause
<1>1. IInv => GivesUpWithCause
  BY DEF IInv
<1> QED
  BY <1>1, RowsInvariance, PTL

LEMMA DivMod256 ==
    ASSUME NEW a \in Nat
    PROVE  \E d \in Nat, o \in 0..255 : d = a \div 256 /\ o = a % 256 /\ a = 256 * d + o
  OBVIOUS

LEMMA SmallChunk ==
    ASSUME NEW d \in Nat, NEW o \in 0..255, 256 * d + o < 4096
    PROVE  d \in 0..15
  OBVIOUS

(* Cell p stands at place o of chunk d. *)
StandsAt(p, d, o) ==
    /\ d \in 0..15 /\ o \in 0..255
    /\ d = p \div 256 /\ o = p % 256 /\ p = 256 * d + o

LEMMA ChunkOf ==
    ASSUME NEW p \in Nat, p < 4096
    PROVE  \E d, o : StandsAt(p, d, o)
<1>1. PICK d \in Nat, o \in 0..255 : d = p \div 256 /\ o = p % 256 /\ p = 256 * d + o
  BY DivMod256
<1>2. d \in 0..15
  BY <1>1, SmallChunk
<1> QED
  BY <1>1, <1>2 DEF StandsAt

LEMMA PlaceInTable ==
    ASSUME NEW id \in 0..255, NEW k \in 0..15
    PROVE  \E p \in Nat : p = 16 * id + k /\ p = id * 16 + k /\ p < 4096
<1>1. 16 * id + k \in Nat /\ id * 16 = 16 * id /\ 16 * id + k < 4096
  OBVIOUS
<1> QED
  BY <1>1

LEMMA ElementOf ==
    ASSUME NEW S, NEW s \in Seq(S), NEW p \in Nat, 1 <= p, p <= Len(s)
    PROVE  s[p] \in S
  OBVIOUS

LEMMA ChunkBounds ==
    ASSUME NEW N \in Nat, 256 <= N, NEW k \in 0..15, NEW o \in 0..255
    PROVE  /\ 256 * k + o + 1 \in Nat
           /\ 1 <= 256 * k + o + 1 /\ 256 * k + o + 1 <= 16 * N
  OBVIOUS

CellAt(k, o) == cells[256 * k + o + 1]

(* Every place of every chunk holds a cell. *)
LEMMA ChunkCell ==
    ASSUME cells \in Seq(Nat), NEW N \in Nat, 256 <= N, Len(cells) = 16 * N,
           NEW k \in 0..15, NEW o \in 0..255
    PROVE  CellAt(k, o) \in Nat
<1>1. PICK p : p = 256 * k + o + 1
  OBVIOUS
<1>2. p \in Nat /\ 1 <= p /\ p <= Len(cells)
  BY <1>1, ChunkBounds
<1>3. cells[p] \in Nat
  BY <1>2, ElementOf
<1> QED
  BY <1>1, <1>3 DEF CellAt

(* A table of the size the decoder is made for has been printed. *)
FullSize == pc = "printed" /\ n = 256 /\ CHUNK = 256

(* The row printed for a state is the automaton's. *)
LEMMA PrintedRow ==
    ASSUME IInv, pc = "printed", NEW id \in 0..n - 1
    PROVE  PrintsRow(id)
<1>1. PICK N \in Nat : N = Len(order) /\ n = N /\ Len(accept) = N
  BY DEF IInv, Inv, TypeInv, Phases, n
<1>2. PICK i \in 1..N : i = id + 1 /\ i - 1 = id
  BY <1>1
<1>3. PICK bits \in Seq(Bit) : bits = order[i] /\ bits \in seen
  <2>1. seen = ToSet(order) /\ order \in Seq(Seq(Bit))
    BY DEF IInv, Inv, TypeInv, Ids
  <2>2. order[i] \in Seq(Bit)
    BY <1>1, <2>1
  <2>3. order[i] \in ToSet(order)
    BY <1>1 DEF ToSet
  <2> QED
    BY <2>1, <2>2, <2>3
<1>4. RowOK(i)
  BY <1>1 DEF IInv, Rows
<1>5. accept[id + 1] = IF Dfa!is_accepting(Dfa!Live(bits)) THEN 1 ELSE 0
  <2>1. Dfa!is_accepting(Dfa!Live(bits)) <=>
          Len(bits) <= 7 /\ \A j \in 1..Len(bits) : bits[j] = 1
    BY DEF Dfa!is_accepting, Dfa!Live, Dfa!valid_padding_v
  <2> QED
    BY <1>2, <1>3, <1>4, <2>1 DEF RowOK, Flag
<1>6. ASSUME NEW k \in 0..15, NEW s, s = Dfa!step(Dfa!Live(bits), k),
             NEW c, c = Printed(k, id)
      PROVE  Packed(c, s)
  <2>1. q = <<>> /\ nib = 16 /\ Len(table) = Entries /\ table \in Tables /\ Inv
    BY DEF IInv, Inv, Finished, Phases, TypeInv
  <2>2. c = cell(bits, k) /\ OneSymbolEach(bits)
    BY <1>2, <1>3, <1>4, <1>6 DEF RowOK, Printed
  <2>3. PICK r \in Walk : r = step(bits, k) /\ Matches(r, s)
    BY <1>6, <2>1, NibbleEmitsBytes, AutomatonStep
  <2>4. PICK next, sym : Packs(c, r, next, sym)
    BY <1>3, <2>1, <2>2, <2>3, CellPacks
  <2>5. next \in 0..N /\ sym \in 0..255
    BY <1>1, <2>4 DEF Packs
  <2>6. /\ (65536 * next) \div 65536 = next
        /\ (65536 * next + 256 + sym) \div 65536 = next
        /\ ((65536 * next) \div 256) % 256 = 0
        /\ ((65536 * next + 256 + sym) \div 256) % 256 = 1
        /\ (65536 * next + 256 + sym) % 256 = sym
    BY <2>5
  <2>7. c \div 65536 = next
    BY <2>4, <2>6, SMTT(30) DEF Packs
  <2>8. r.s.fail \in BOOLEAN
    <3>1. r.s \in Live \cup {None}
      BY DEF Walk, Live
    <3>2. None.fail = TRUE
      BY DEF None
    <3> QED
      BY <3>1, <3>2 DEF Live
  <2>9. s.live = (next # N)
    BY <1>1, <2>3, <2>4, <2>5, <2>8 DEF Packs, Matches
  <2>10. s.live => s.bits = order[next + 1]
    <3> SUFFICES ASSUME s.live PROVE s.bits = order[next + 1]
      OBVIOUS
    <3>1. next # N
      BY <2>9
    <3>2. ~r.s.fail
      BY <1>1, <2>4, <3>1 DEF Packs
    <3> QED
      BY <2>3, <2>4, <3>2 DEF Packs, Matches
  <2>11. s.out = IF (c \div 256) % 256 = 1 THEN <<c % 256>> ELSE <<>>
    <3>1. CASE r.emitted = <<>> /\ c = 65536 * next
      BY <2>3, <2>6, <3>1 DEF Matches
    <3>2. CASE r.emitted = <<sym>> /\ c = 65536 * next + 256 + sym
      BY <2>3, <2>6, <3>2 DEF Matches
    <3> QED
      BY <2>4, <3>1, <3>2 DEF Packs
  <2> QED
    BY <1>1, <2>5, <2>7, <2>9, <2>10, <2>11 DEF Packed
<1>7. order[id + 1] = bits
  BY <1>2, <1>3
<1> QED
  BY <1>5, <1>6, <1>7 DEF PrintsRow

(* Whatever table of distinct codes the script reads, what it prints is    *)
(* the nibble automaton of Spec.Dfa: each accept flag, and of each cell    *)
(* the state it leads to and the symbol it emits.                          *)
THEOREM PrintedIsAutomaton == Spec => []PrintsAutomaton
<1>1. IInv => PrintsAutomaton
  BY PrintedRow DEF PrintsAutomaton
<1> QED
  BY <1>1, RowsInvariance, PTL

(* With 256 states in chunks of 256 cells it meets what the proofs of the  *)
(* decoder assume of a table: dfa_loop is right on whatever the script     *)
(* prints, of any table of distinct codes.                                 *)
THEOREM PrintedServesDecoder == Spec => []ServesDecoder
<1>1. IInv => ServesDecoder
  <2> SUFFICES ASSUME IInv, FullSize
               PROVE  /\ chunks \in [0..15 -> Dfa!Chunk]
                      /\ keys \in [Dfa!StateId -> Seq(Dfa!Bit)] /\ keys[0] = <<>>
                      /\ \A id \in Dfa!StateId : Dfa!AcceptOK(id)
                      /\ \A id \in Dfa!StateId, nibble \in Dfa!Nibble : Dfa!CellOK(id, nibble)
    BY DEF ServesDecoder, FullSize
  <2>1. /\ cells \in Seq(Nat) /\ order \in Seq(Seq(Bit)) /\ order[1] = <<>>
        /\ table \in Tables /\ Len(table) = Entries
    BY DEF IInv, Inv, TypeInv, Ids, Phases, Rows, RowCount, FullSize
  <2>2. PICK N \in Nat : N = Len(order) /\ n = N /\ Len(cells) = 16 * N
    <3>1. pc = "printed"
      BY DEF FullSize
    <3> QED
      BY <2>1, <3>1 DEF IInv, Rows, RowCount, Phases, n
  <2>3. 256 <= N
    <3>1. n = 256
      BY DEF FullSize
    <3> QED
      BY <2>2, <3>1
  <2>4. ASSUME NEW id \in 0..255 PROVE order[id + 1] \in Seq(Bit)
    <3>1. id + 1 \in Nat /\ 1 <= id + 1 /\ id + 1 <= N
      BY <2>3
    <3> QED
      BY <2>1, <2>2, <3>1, ElementOf
  <2>5. /\ chunks = [k \in 0..15 |-> [off \in 0..255 |-> cells[256 * k + off + 1]]]
        /\ keys = [i \in 0..255 |-> order[i + 1]]
        /\ accept_list = [i \in 0..255 |-> accept[i + 1]]
    BY DEF FullSize, chunks, keys, accept_list
  <2>6. ASSUME NEW k \in 0..15, NEW o \in 0..255
        PROVE  chunks[k][o] = CellAt(k, o) /\ CellAt(k, o) \in Nat
    <3>1. chunks[k] = [off \in 0..255 |-> cells[256 * k + off + 1]]
      BY <2>5
    <3>2. chunks[k][o] = CellAt(k, o)
      BY <3>1 DEF CellAt
    <3>3. CellAt(k, o) \in Nat
      BY <2>1, <2>2, <2>3, ChunkCell
    <3> QED
      BY <3>2, <3>3
  <2>7. ASSUME NEW p \in Nat, NEW d, NEW o, StandsAt(p, d, o)
        PROVE  chunks[d][o] = cells[p + 1]
    <3>1. d \in 0..15 /\ o \in 0..255 /\ 256 * d + o + 1 = p + 1
      BY <2>7 DEF StandsAt
    <3>2. chunks[d][o] = CellAt(d, o)
      BY <2>6, <3>1
    <3>3. CellAt(d, o) = cells[p + 1]
      BY <3>1 DEF CellAt
    <3> QED
      BY <3>2, <3>3
  <2>8. chunks \in [0..15 -> Dfa!Chunk]
    <3>1. ASSUME NEW k \in 0..15 PROVE chunks[k] \in [0..255 -> Nat]
      <4>1. chunks[k] = [o \in 0..255 |-> cells[256 * k + o + 1]]
        BY <2>5
      <4>2. \A o \in 0..255 : cells[256 * k + o + 1] \in Nat
        BY <2>6, ZenonT(30) DEF CellAt
      <4> QED
        <5> DEFINE row == [o \in 0..255 |-> cells[256 * k + o + 1]]
        <5>1. row \in [0..255 -> Nat]
          BY <4>2
        <5> HIDE DEF row
        <5> QED
          BY <4>1, <5>1 DEF row
    <3> QED
      BY <2>5, <3>1 DEF Dfa!Chunk
  <2>9. \A id \in 0..255 : keys[id] = order[id + 1] /\ keys[id] \in Seq(Bit)
                            /\ accept_list[id] = accept[id + 1]
    <3> TAKE id \in 0..255
    <3> QED
      BY <2>4, <2>5
  <2>10. keys \in [Dfa!StateId -> Seq(Dfa!Bit)] /\ keys[0] = <<>>
    <3>1. keys \in [0..255 -> Seq(Bit)]
      BY <2>4, <2>5
    <3>2. keys[0] = <<>>
      <4>1. 0 \in 0..255 /\ 0 + 1 = 1
        OBVIOUS
      <4>2. PICK i : i = 0 /\ i \in 0..255 /\ i + 1 = 1
        BY <4>1
      <4>3. keys[i] = order[i + 1]
        BY <2>9, <4>2
      <4> QED
        BY <2>1, <4>2, <4>3
    <3> QED
      BY <3>1, <3>2 DEF Dfa!StateId, Dfa!Bit, Bit
  <2>11. \A id \in 0..255 : PrintsRow(id) /\ Dfa!state_of(id) = Dfa!Live(order[id + 1])
    <3> TAKE id \in 0..255
    <3>1. PrintsRow(id)
      <4>1. pc = "printed" /\ id \in 0..n - 1
        BY DEF FullSize
      <4> QED
        BY <4>1, PrintedRow
    <3>2. Dfa!state_of(id) = Dfa!Live(keys[id])
      BY DEF Dfa!state_of, Dfa!FailId
    <3> QED
      BY <2>9, <3>1, <3>2
  <2>12. ASSUME NEW id \in 0..255 PROVE Dfa!AcceptOK(id)
    BY <2>9, <2>11 DEF Dfa!AcceptOK, PrintsRow
  <2>13. ASSUME NEW id \in 0..255, NEW k \in 0..15 PROVE Dfa!CellOK(id, k)
    <3>1. PICK s : s = Dfa!step(Dfa!Live(order[id + 1]), k) /\ (~s.live => s.bits = <<>>)
      <4>1. PICK bits \in Seq(Bit) : bits = order[id + 1]
        BY <2>4
      <4>2. Matches(step(bits, k), Dfa!step(Dfa!Live(bits), k))
        BY <2>1, AutomatonStep
      <4>3. PICK s : s = Dfa!step(Dfa!Live(bits), k)
        OBVIOUS
      <4>4. ~s.live => s.bits = <<>>
        BY <4>2, <4>3 DEF Matches
      <4> QED
        BY <4>1, <4>3, <4>4
    <3>2. PICK c : c = Printed(k, id) /\ Packed(c, s)
      BY <2>11, <3>1 DEF PrintsRow
    <3>3. n = 256
      BY DEF FullSize
    <3>4. Dfa!read_cell(id, k) = c
      <4>1. PICK p \in Nat : p = 16 * id + k /\ p = id * 16 + k /\ p < 4096
        BY PlaceInTable
      <4>2. PICK d, o : StandsAt(p, d, o)
        BY <4>1, ChunkOf
      <4>3. Dfa!read_cell(id, k) = chunks[d][o]
        <5>1. (IF d < 15 THEN d ELSE 15) = d /\ d = p \div 256 /\ o = p % 256
          BY <4>2 DEF StandsAt
        <5> QED
          BY <4>1, <5>1 DEF Dfa!read_cell, Dfa!read_chunk
      <4>4. chunks[d][o] = cells[p + 1]
        BY <2>7, <4>2
      <4> QED
        BY <3>2, <4>1, <4>3, <4>4 DEF Printed
    <3>5. PICK next \in 0..256 : next = c \div 65536 /\ next = Dfa!cell_next(c)
      BY <3>2, <3>3 DEF Packed, Dfa!cell_next
    <3>6. s.live = (next # 256) /\ (s.live => s.bits = order[next + 1])
          /\ s.out = IF Dfa!cell_emits(c) THEN <<Dfa!cell_sym(c)>> ELSE <<>>
      BY <3>2, <3>5, <3>3 DEF Packed, Dfa!cell_emits, Dfa!cell_sym
    <3>7. Dfa!step(Dfa!state_of(id), k) = s
      BY <2>11, <3>1
    <3>8. s.live = Dfa!state_of(next).live /\ s.bits = Dfa!state_of(next).bits
      <4>1. CASE next = 256
        <5>1. Dfa!state_of(next) = Dfa!Fail
          BY <4>1 DEF Dfa!state_of, Dfa!FailId
        <5>2. Dfa!Fail.live = FALSE /\ Dfa!Fail.bits = <<>>
          BY DEF Dfa!Fail
        <5>3. s.live = FALSE /\ s.bits = <<>>
          BY <3>1, <3>6, <4>1
        <5> QED
          BY <5>1, <5>2, <5>3
      <4>2. CASE next # 256
        <5>1. next \in 0..255
          BY <4>2
        <5>2. Dfa!state_of(next) = Dfa!Live(order[next + 1])
          BY <2>11, <5>1
        <5>3. Dfa!Live(order[next + 1]).live = TRUE
              /\ Dfa!Live(order[next + 1]).bits = order[next + 1]
          BY DEF Dfa!Live
        <5>4. s.live = TRUE /\ s.bits = order[next + 1]
          BY <3>6, <4>2
        <5> QED
          BY <5>2, <5>3, <5>4
      <4> QED
        BY <4>1, <4>2
    <3>9. next <= 256
      OBVIOUS
    <3> QED
      BY <3>4, <3>5, <3>6, <3>7, <3>8, <3>9 DEF Dfa!CellOK, Dfa!FailId
  <2> QED
    BY <2>8, <2>10, <2>12, <2>13 DEF Dfa!StateId, Dfa!Nibble
<1> QED
  BY <1>1, RowsInvariance, PTL
====
