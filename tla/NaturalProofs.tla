---- MODULE NaturalProofs ----
(***************************************************************************)
(* Lemmas on natural numbers that the proofs about the modules share:      *)
(* induction in the form the provers take, division, powers and            *)
(* positional notation.                                                    *)
(***************************************************************************)
EXTENDS Radix, WellFoundedInduction, TLAPS

(* The library's induction theorem takes a predicate, which the provers    *)
(* cannot instantiate; this one takes the set of the numbers that have it. *)
LEMMA NatSetInduction ==
    ASSUME NEW S, 0 \in S, \A n \in Nat : n \in S => n + 1 \in S
    PROVE  Nat \subseteq S
<1> SUFFICES ASSUME NEW m \in Nat, m \notin S PROVE FALSE
  OBVIOUS
<1> DEFINE R == {ss \in Nat \X Nat : ss[1] < ss[2]}
           T == {k \in Nat : k \notin S}
<1>1. IsWellFoundedOn(R, Nat)
  BY NatLessThanWellFounded DEF OpToRel
<1>2. PICK x \in T : \A y \in T : <<y, x>> \notin R
  <2>1. T \subseteq Nat /\ T # {}
    OBVIOUS
  <2> HIDE DEF R, T
  <2> QED
    BY <1>1, <2>1, WFMin
<1>3. x \in Nat /\ x # 0 /\ x - 1 \in Nat /\ (x - 1) + 1 = x
  OBVIOUS
<1>4. <<x - 1, x>> \in R
  BY <1>3
<1>5. x - 1 \in S
  BY <1>2, <1>3, <1>4
<1> QED
  BY <1>2, <1>3, <1>5

(* A value that changes at each of N steps: all its stages, as a function. *)
IsStages(S, base, N, next, h) ==
    h \in [0..N -> S] /\ h[0] = base /\ \A k \in 1..N : h[k] = next[k][h[k - 1]]

LEMMA Stages ==
    ASSUME NEW S, NEW base \in S, NEW N \in Nat, NEW next \in [1..N -> [S -> S]]
    PROVE  \E h : IsStages(S, base, N, next, h)
<1> DEFINE IsUpTo(h, n) == /\ h \in [0..n -> S] /\ h[0] = base
                           /\ \A k \in 1..n : h[k] = next[k][h[k - 1]]
           Done == {n \in Nat : n <= N => \E h : IsUpTo(h, n)}
<1>1. 0 \in Done
  <2>1. IsUpTo([k \in 0..0 |-> base], 0)
    OBVIOUS
  <2> QED
    BY <2>1
<1>2. ASSUME NEW n \in Nat, n \in Done PROVE n + 1 \in Done
  <2> SUFFICES ASSUME n + 1 <= N PROVE \E h : IsUpTo(h, n + 1)
    OBVIOUS
  <2>1. PICK h : IsUpTo(h, n)
    BY <1>2
  <2> DEFINE h2 == [k \in 0..n + 1 |-> IF k = n + 1 THEN next[n + 1][h[n]] ELSE h[k]]
  <2>2. h[n] \in S /\ next[n + 1] \in [S -> S]
    BY <2>1
  <2>3. h2 \in [0..n + 1 -> S]
    BY <2>1, <2>2
  <2>4. h2[0] = base
    BY <2>1
  <2>5. ASSUME NEW k \in 1..n + 1 PROVE h2[k] = next[k][h2[k - 1]]
    <3>1. k - 1 \in 0..n /\ h2[k - 1] = h[k - 1]
      OBVIOUS
    <3>2. CASE k = n + 1
      <4>1. h2[k] = next[n + 1][h[n]] /\ k - 1 = n
        BY <3>2
      <4> QED
        BY <3>1, <3>2, <4>1
    <3>3. CASE k \in 1..n
      BY <2>1, <3>1, <3>3
    <3> QED
      BY <3>2, <3>3
  <2> QED
    BY <2>3, <2>4, <2>5
<1>3. N \in Done
  <2> HIDE DEF Done
  <2> QED
    BY <1>1, <1>2, NatSetInduction
<1> QED
  BY <1>3 DEF IsStages

--------------------------------------------------------------------------
LEMMA DivMod ==
    ASSUME NEW x \in Nat, NEW d \in Nat \ {0}
    PROVE  \E q \in Nat, r \in Nat : x = d * q + r /\ r < d /\ x \div d = q /\ x % d = r
  OBVIOUS
LEMMA MulLess == ASSUME NEW d \in Nat, NEW p \in Nat, NEW q \in Nat, p < q PROVE d*p + d <= d * q
<1>1. PICK e \in Nat : q = p + 1 + e 
  <2>1. q - p - 1 \in Nat OBVIOUS
  <2> QED BY <2>1
<1>2. d*q = d*p + d + d*e
  BY <1>1
<1>3. d*e \in Nat /\ d * p \in Nat /\ d * q \in Nat
  OBVIOUS
<1> QED BY <1>2, <1>3
LEMMA DivUnique ==
    ASSUME NEW x \in Nat, NEW d \in Nat \ {0}, NEW q \in Nat, NEW r \in Nat, x = d * q + r, r < d
    PROVE  x \div d = q /\ x % d = r
<1>1. PICK p \in Nat, s \in Nat : x = d * p + s /\ s < d /\ x \div d = p /\ x % d = s
  BY DivMod
<1>0. d * p \in Nat /\ d * q \in Nat OBVIOUS
<1>2. ~(p < q)
  BY <1>0, <1>1, MulLess
<1>3. ~(q < p)
  BY <1>0, <1>1, MulLess
<1>4. p = q BY <1>2, <1>3
<1>5. d * p = d * q BY <1>4
<1>6. s = r BY <1>1, <1>5, <1>0
<1> QED BY <1>1, <1>4, <1>6
LEMMA ModDiv == ASSUME NEW x \in Nat, NEW p \in Nat \ {0}, NEW b \in Nat \ {0}
  PROVE x % (p * b) = (x % p) + p * ((x \div p) % b) /\ x \div (p * b) = (x \div p) \div b
<1>1. PICK q \in Nat, r \in Nat : x = p * q + r /\ r < p /\ x \div p = q /\ x % p = r
  BY DivMod
<1>2. PICK s \in Nat, t \in Nat : q = b * s + t /\ t < b /\ q \div b = s /\ q % b = t
  BY DivMod
<1>3. p * b \in Nat \ {0} OBVIOUS
<1>4. p * q = (p * b) * s + p * t
  BY <1>2
<1>5. p * t + p <= p * b BY <1>2, MulLess
<1>6. p * t \in Nat /\ (p * b) * s \in Nat /\ p * q \in Nat
  OBVIOUS
<1>7. x = (p * b) * s + (p * t + r)
  BY <1>1, <1>4, <1>6
<1>8. p * t + r \in Nat /\ p * t + r < p * b
  BY <1>1, <1>3, <1>5, <1>6
<1>9. x \div (p * b) = s /\ x % (p * b) = p * t + r
  BY <1>3, <1>7, <1>8, DivUnique
<1> QED BY <1>1, <1>2, <1>6, <1>9

LEMMA ModOfSmall ==
    ASSUME NEW x \in Nat, NEW d \in Nat \ {0}, x < d
    PROVE  x \div d = 0 /\ x % d = x
<1>1. x = d * 0 + x /\ 0 \in Nat
  OBVIOUS
<1> QED
  BY <1>1, DivUnique

--------------------------------------------------------------------------
(* Powers. *)

IsPower(b, n, f) == f = [k \in 0..n |-> IF k = 0 THEN 1 ELSE b * f[k - 1]]

LEMMA PowersAgree ==
    ASSUME NEW b \in Nat, NEW m \in Nat, NEW n \in Nat, m <= n,
           NEW f, IsPower(b, n, f), NEW g, IsPower(b, m, g)
    PROVE  f[m] = g[m]
<1> DEFINE Same == {k \in Nat : k <= m => f[k] = g[k]}
<1>0. /\ \A k \in 0..n : f[k] = IF k = 0 THEN 1 ELSE b * f[k - 1]
      /\ \A k \in 0..m : g[k] = IF k = 0 THEN 1 ELSE b * g[k - 1]
  <2>1. f = [k \in 0..n |-> IF k = 0 THEN 1 ELSE b * f[k - 1]]
    BY DEF IsPower
  <2>2. g = [k \in 0..m |-> IF k = 0 THEN 1 ELSE b * g[k - 1]]
    BY DEF IsPower
  <2> QED
    BY <2>1, <2>2, Zenon
<1>1. 0 \in Same
  BY <1>0
<1>2. ASSUME NEW k \in Nat, k \in Same PROVE k + 1 \in Same
  <2> SUFFICES ASSUME k + 1 <= m PROVE f[k + 1] = g[k + 1]
    OBVIOUS
  <2>1. k + 1 \in 0..n /\ k + 1 \in 0..m /\ (k + 1) - 1 = k /\ k + 1 # 0
    OBVIOUS
  <2>2. f[k] = g[k]
    BY <1>2
  <2>3. f[k + 1] = b * f[k] /\ g[k + 1] = b * g[k]
    BY <1>0, <2>1
  <2> QED
    BY <2>2, <2>3
<1> HIDE DEF Same
<1>3. Nat \subseteq Same
  BY <1>1, <1>2, NatSetInduction
<1> QED
  BY <1>3 DEF Same

LEMMA NatStages ==
    ASSUME NEW base \in Nat, NEW n \in Nat, NEW next \in [1..n -> [Nat -> Nat]]
    PROVE  \E h \in [0..n -> Nat] :
              h[0] = base /\ \A k \in 1..n : h[k] = next[k][h[k - 1]]
<1>1. \E h : IsStages(Nat, base, n, next, h)
  BY Stages, Zenon
<1> QED
  BY <1>1 DEF IsStages

LEMMA PowerIs ==
    ASSUME NEW b \in Nat, NEW n \in Nat
    PROVE  \E f \in [0..n -> Nat] : IsPower(b, n, f) /\ Power(b, n) = f[n]
<1> DEFINE next == [k \in 1..n |-> [v \in Nat |-> b * v]]
<1>1. next \in [1..n -> [Nat -> Nat]]
  OBVIOUS
<1>2. PICK h \in [0..n -> Nat] : h[0] = 1 /\ \A k \in 1..n : h[k] = next[k][h[k - 1]]
  <2> HIDE DEF next
  <2>1. 1 \in Nat
    OBVIOUS
  <2> QED
    BY <1>1, <2>1, NatStages, ZenonT(30)
<1>3. ASSUME NEW k \in 0..n PROVE h[k] = IF k = 0 THEN 1 ELSE b * h[k - 1]
  <2>1. CASE k = 0
    BY <1>2, <2>1
  <2>2. CASE k # 0
    <3>1. k \in 1..n /\ h[k - 1] \in Nat
      BY <2>2
    <3> QED
      BY <1>2, <2>2, <3>1
  <2> QED
    BY <2>1, <2>2
<1>4. IsPower(b, n, h)
  BY <1>3 DEF IsPower
<1>5. PICK f : IsPower(b, n, f) /\ Power(b, n) = f[n]
  <2>1. IsPower(b, n, CHOOSE f : IsPower(b, n, f))
    BY <1>4, Zenon
  <2>2. Power(b, n) = (CHOOSE f : IsPower(b, n, f))[n]
    BY DEF Power, IsPower
  <2> QED
    BY <2>1, <2>2, Zenon
<1>6. f[n] = h[n]
  BY <1>4, <1>5, PowersAgree
<1> QED
  BY <1>4, <1>5, <1>6

LEMMA PowerNat ==
    ASSUME NEW b \in Nat, NEW n \in Nat
    PROVE  Power(b, n) \in Nat
<1>1. PICK f \in [0..n -> Nat] : Power(b, n) = f[n]
  BY PowerIs, Zenon
<1> QED
  BY <1>1

LEMMA PowerZero == ASSUME NEW b \in Nat PROVE Power(b, 0) = 1
<1>1. PICK f : IsPower(b, 0, f) /\ Power(b, 0) = f[0]
  <2>1. 0 \in Nat
    OBVIOUS
  <2> QED
    BY <2>1, PowerIs, Zenon
<1>2. f = [k \in 0..0 |-> IF k = 0 THEN 1 ELSE b * f[k - 1]]
  BY <1>1 DEF IsPower
<1> QED
  BY <1>1, <1>2

LEMMA PowerNext ==
    ASSUME NEW b \in Nat, NEW n \in Nat
    PROVE  Power(b, n + 1) = b * Power(b, n)
<1>1. PICK f : IsPower(b, n + 1, f) /\ Power(b, n + 1) = f[n + 1]
  <2>1. n + 1 \in Nat
    OBVIOUS
  <2> QED
    BY <2>1, PowerIs, Zenon
<1>2. PICK g : IsPower(b, n, g) /\ Power(b, n) = g[n]
  BY PowerIs, Zenon
<1>3. f[n] = g[n]
  BY <1>1, <1>2, PowersAgree
<1>4. f = [k \in 0..n + 1 |-> IF k = 0 THEN 1 ELSE b * f[k - 1]]
  BY <1>1 DEF IsPower
<1>5. f[n + 1] = b * f[n]
  <2>1. n + 1 \in 0..n + 1 /\ n + 1 # 0 /\ (n + 1) - 1 = n
    OBVIOUS
  <2> QED
    BY <1>4, <2>1
<1> QED
  BY <1>1, <1>2, <1>3, <1>5

LEMMA PowerPositive ==
    ASSUME NEW b \in Nat \ {0}, NEW n \in Nat
    PROVE  Power(b, n) \in Nat \ {0}
<1> DEFINE P == {k \in Nat : Power(b, k) # 0}
<1>1. 0 \in P
  BY PowerZero
<1>2. ASSUME NEW k \in Nat, k \in P PROVE k + 1 \in P
  <2>1. Power(b, k) \in Nat /\ Power(b, k) # 0 /\ Power(b, k + 1) = b * Power(b, k)
    BY <1>2, PowerNat, PowerNext
  <2> QED
    BY <2>1
<1> HIDE DEF P
<1>3. n \in P
  BY <1>1, <1>2, NatSetInduction
<1> QED
  BY <1>3, PowerNat DEF P

LEMMA PowerSum ==
    ASSUME NEW b \in Nat, NEW m \in Nat, NEW n \in Nat
    PROVE  Power(b, m + n) = Power(b, m) * Power(b, n)
<1> DEFINE P == {k \in Nat : Power(b, m + k) = Power(b, m) * Power(b, k)}
<1>1. 0 \in P
  BY PowerZero, PowerNat
<1>2. ASSUME NEW k \in Nat, k \in P PROVE k + 1 \in P
  <2>1. Power(b, m + k) = Power(b, m) * Power(b, k)
    BY <1>2
  <2>2. Power(b, (m + k) + 1) = b * Power(b, m + k)
    BY PowerNext
  <2>3. Power(b, k + 1) = b * Power(b, k)
    BY PowerNext
  <2>4. Power(b, m) \in Nat /\ Power(b, k) \in Nat
    BY PowerNat
  <2>5. m + (k + 1) = (m + k) + 1
    OBVIOUS
  <2> QED
    BY <2>1, <2>2, <2>3, <2>4, <2>5
<1> HIDE DEF P
<1>3. n \in P
  BY <1>1, <1>2, NatSetInduction
<1> QED
  BY <1>3 DEF P

--------------------------------------------------------------------------
(* Positional notation. *)

IsValue(b, digits, n, v) ==
    v = [k \in 0..n |-> IF k = 0 THEN 0 ELSE v[k - 1] + digits[k] * Power(b, k - 1)]

(* The values of a number's first digits. *)
RunningValues(b, digits, n, v) ==
    v[0] = 0 /\ \A k \in 1..n : v[k] = v[k - 1] + digits[k] * Power(b, k - 1)

LEMMA RunningValuesHold ==
    ASSUME NEW b, NEW digits, NEW n \in Nat, NEW v, IsValue(b, digits, n, v)
    PROVE  RunningValues(b, digits, n, v)
<1>1. v = [k \in 0..n |-> IF k = 0 THEN 0 ELSE v[k - 1] + digits[k] * Power(b, k - 1)]
  BY DEF IsValue
<1>2. \A k \in 0..n : v[k] = IF k = 0 THEN 0 ELSE v[k - 1] + digits[k] * Power(b, k - 1)
  BY <1>1, Zenon
<1>3. v[0] = 0
  BY <1>2
<1>4. ASSUME NEW k \in 1..n PROVE v[k] = v[k - 1] + digits[k] * Power(b, k - 1)
  <2>1. k \in 0..n /\ k # 0
    OBVIOUS
  <2> QED
    BY <1>2, <2>1
<1> QED
  BY <1>3, <1>4 DEF RunningValues

LEMMA ValuesAgree ==
    ASSUME NEW b, NEW digits, NEW n \in Nat,
           NEW v, RunningValues(b, digits, n, v), NEW w, RunningValues(b, digits, n, w)
    PROVE  v[n] = w[n]
<1> DEFINE Same == {k \in Nat : k <= n => v[k] = w[k]}
<1>1. 0 \in Same
  BY DEF RunningValues
<1>2. ASSUME NEW k \in Nat, k \in Same PROVE k + 1 \in Same
  <2> SUFFICES ASSUME k + 1 <= n PROVE v[k + 1] = w[k + 1]
    OBVIOUS
  <2>1. k + 1 \in 1..n /\ (k + 1) - 1 = k
    OBVIOUS
  <2>2. v[k] = w[k]
    BY <1>2
  <2>3. /\ v[k + 1] = v[k] + digits[k + 1] * Power(b, k)
        /\ w[k + 1] = w[k] + digits[k + 1] * Power(b, k)
    BY <2>1 DEF RunningValues
  <2> QED
    BY <2>2, <2>3
<1> HIDE DEF Same
<1>3. Nat \subseteq Same
  BY <1>1, <1>2, NatSetInduction
<1> QED
  BY <1>3 DEF Same

LEMMA LenOfString ==
    ASSUME NEW S, NEW n \in Nat, NEW d \in [1..n -> S]
    PROVE  d \in Seq(S) /\ Len(d) = n
  OBVIOUS

LEMMA NumberIs ==
    ASSUME NEW b \in Nat \ {0}, NEW n \in Nat, NEW d \in [1..n -> 0..b - 1]
    PROVE  \E v \in [0..n -> Nat] : RunningValues(b, d, n, v) /\ Number(b, d) = v[n]
<1>0. ASSUME NEW k \in 1..n PROVE d[k] \in Nat /\ Power(b, k - 1) \in Nat
  <2>1. k - 1 \in Nat /\ b \in Nat /\ d[k] \in 0..b - 1
    OBVIOUS
  <2>2. Power(b, k - 1) \in Nat
    BY <2>1, PowerNat, Zenon
  <2> QED
    BY <2>1, <2>2
<1> DEFINE next == [k \in 1..n |-> [x \in Nat |-> x + d[k] * Power(b, k - 1)]]
<1>1. next \in [1..n -> [Nat -> Nat]]
  <2>1. ASSUME NEW k \in 1..n PROVE [x \in Nat |-> x + d[k] * Power(b, k - 1)] \in [Nat -> Nat]
    <3>1. PICK y \in Nat, p \in Nat : y = d[k] /\ p = Power(b, k - 1)
      BY <1>0
    <3>2. [x \in Nat |-> x + y * p] \in [Nat -> Nat]
      OBVIOUS
    <3> QED
      BY <3>1, <3>2
  <2> QED
    BY <2>1, Zenon
<1>2. PICK h \in [0..n -> Nat] : h[0] = 0 /\ \A k \in 1..n : h[k] = next[k][h[k - 1]]
  <2> HIDE DEF next
  <2>1. 0 \in Nat
    OBVIOUS
  <2> QED
    BY <1>1, <2>1, NatStages, ZenonT(30)
<1>3. ASSUME NEW k \in 0..n
      PROVE  h[k] = IF k = 0 THEN 0 ELSE h[k - 1] + d[k] * Power(b, k - 1)
  <2>1. CASE k = 0
    BY <1>2, <2>1
  <2>2. CASE k # 0
    <3>1. k \in 1..n /\ k - 1 \in 0..n
      BY <2>2
    <3>2. h[k - 1] \in Nat
      BY <3>1
    <3>3. h[k] = next[k][h[k - 1]]
      BY <1>2, <3>1
    <3>4. next[k] = [x \in Nat |-> x + d[k] * Power(b, k - 1)]
      BY <3>1, Zenon
    <3>5. h[k] = h[k - 1] + d[k] * Power(b, k - 1)
      BY <3>2, <3>3, <3>4, Zenon
    <3> QED
      BY <2>2, <3>5
  <2> QED
    BY <2>1, <2>2
<1>4. IsValue(b, d, n, h)
  BY <1>3, Zenon DEF IsValue
<1>5. Len(d) = n
  BY LenOfString
<1>6. PICK v : IsValue(b, d, n, v) /\ Number(b, d) = v[n]
  <2>1. IsValue(b, d, n, CHOOSE f : IsValue(b, d, n, f))
    BY <1>4, Zenon
  <2>2. Number(b, d) = (CHOOSE f : IsValue(b, d, n, f))[n]
    BY <1>5, Zenon DEF Number, IsValue
  <2> QED
    BY <2>1, <2>2, Zenon
<1>7. RunningValues(b, d, n, h) /\ RunningValues(b, d, n, v)
  BY <1>4, <1>6, RunningValuesHold
<1>8. v[n] = h[n]
  BY <1>7, ValuesAgree
<1> QED
  BY <1>6, <1>7, <1>8

LEMMA NumberFrom ==
    ASSUME NEW b \in Nat \ {0}, NEW n \in Nat, NEW d \in [1..n -> 0..b - 1],
           NEW v, RunningValues(b, d, n, v)
    PROVE  Number(b, d) = v[n]
<1>1. PICK w : RunningValues(b, d, n, w) /\ Number(b, d) = w[n]
  BY NumberIs, Zenon
<1>2. w[n] = v[n]
  BY <1>1, ValuesAgree
<1> QED
  BY <1>1, <1>2

LEMMA DigitTyped ==
    ASSUME NEW b \in Nat \ {0}, NEW x \in Nat, NEW k \in Nat
    PROVE  Digit(b, x, k) \in 0..b - 1
<1>1. PICK p \in Nat \ {0} : p = Power(b, k)
  BY PowerPositive
<1>2. x \div p \in Nat
  OBVIOUS
<1> QED
  BY <1>1, <1>2 DEF Digit

LEMMA DigitsTyped ==
    ASSUME NEW b \in Nat \ {0}, NEW x \in Nat, NEW n \in Nat
    PROVE  /\ Digits(b, x, n) \in [1..n -> 0..b - 1]
           /\ \A k \in 1..n : Digits(b, x, n)[k] = Digit(b, x, k - 1)
<1>1. ASSUME NEW k \in 1..n PROVE Digit(b, x, k - 1) \in 0..b - 1
  <2>1. k - 1 \in Nat
    OBVIOUS
  <2> QED
    BY <2>1, DigitTyped
<1> QED
  BY <1>1 DEF Digits

(* The digits below b^n make up the remainder by b^n. *)
LEMMA ModNext ==
    ASSUME NEW b \in Nat \ {0}, NEW x \in Nat, NEW k \in Nat
    PROVE  x % Power(b, k + 1) = (x % Power(b, k)) + Digit(b, x, k) * Power(b, k)
<1>1. PICK p \in Nat \ {0} : p = Power(b, k)
  BY PowerPositive
<1>2. Power(b, k + 1) = p * b
  BY <1>1, PowerNext
<1>3. x % (p * b) = (x % p) + p * ((x \div p) % b)
  BY ModDiv
<1>4. (x \div p) % b \in Nat
  OBVIOUS
<1>5. p * ((x \div p) % b) = ((x \div p) % b) * p
  BY <1>4
<1> QED
  BY <1>1, <1>2, <1>3, <1>5 DEF Digit

LEMMA NumberOfDigits ==
    ASSUME NEW b \in Nat \ {0}, NEW x \in Nat, NEW n \in Nat
    PROVE  Number(b, Digits(b, x, n)) = x % Power(b, n)
<1> DEFINE v == [k \in 0..n |-> x % Power(b, k)]
<1>1. v[0] = 0
  <2>1. Power(b, 0) = 1
    BY PowerZero
  <2>2. x % 1 = 0
    OBVIOUS
  <2> QED
    BY <2>1, <2>2
<1>2. ASSUME NEW k \in 1..n
      PROVE  v[k] = v[k - 1] + Digits(b, x, n)[k] * Power(b, k - 1)
  <2>1. k - 1 \in Nat /\ k \in 0..n /\ k - 1 \in 0..n /\ (k - 1) + 1 = k
    OBVIOUS
  <2>2. x % Power(b, k) = (x % Power(b, k - 1)) + Digit(b, x, k - 1) * Power(b, k - 1)
    BY <2>1, ModNext
  <2>3. Digits(b, x, n)[k] = Digit(b, x, k - 1)
    BY DigitsTyped
  <2> QED
    BY <2>1, <2>2, <2>3
<1>3. RunningValues(b, Digits(b, x, n), n, v)
  BY <1>1, <1>2 DEF RunningValues
<1>4. v[n] = x % Power(b, n)
  OBVIOUS
<1> HIDE DEF v
<1> QED
  BY <1>3, <1>4, DigitsTyped, NumberFrom

(* What the digits below and above the m-th are. *)
LEMMA DigitBelow ==
    ASSUME NEW b \in Nat \ {0}, NEW x \in Nat, NEW m \in Nat, NEW k \in Nat, k < m
    PROVE  Digit(b, x % Power(b, m), k) = Digit(b, x, k)
<1>1. PICK j \in Nat : m = (k + 1) + j
  <2>1. m - (k + 1) \in Nat
    OBVIOUS
  <2> QED
    BY <2>1
<1>2. PICK p \in Nat \ {0} : p = Power(b, k)
  BY PowerPositive
<1>3. PICK r \in Nat \ {0} : r = Power(b, j)
  BY PowerPositive
<1>4. Power(b, m) = (p * b) * r
  <2>1. Power(b, m) = Power(b, k + 1) * Power(b, j)
    BY <1>1, PowerSum
  <2>2. Power(b, k + 1) = b * Power(b, k)
    BY PowerNext
  <2> QED
    BY <1>2, <1>3, <2>1, <2>2
<1>5. (p * b) * r \in Nat \ {0} /\ p * b \in Nat \ {0} /\ b * r \in Nat \ {0}
  OBVIOUS
<1>6. PICK q \in Nat, s \in Nat : x = ((p * b) * r) * q + s /\ s = x % ((p * b) * r)
  BY <1>5, DivMod
<1>7. PICK e \in Nat, f \in Nat : s = p * e + f /\ f < p /\ s \div p = e
  BY DivMod
<1>9. r * q \in Nat /\ b * (r * q) \in Nat /\ b * (r * q) + e \in Nat
  OBVIOUS
<1>8. x = p * (b * (r * q) + e) + f
  <2>1. ((p * b) * r) * q = p * (b * (r * q))
    OBVIOUS
  <2>2. PICK u \in Nat : u = b * (r * q)
    BY <1>9
  <2>3. p * u + p * e = p * (u + e)
    OBVIOUS
  <2>4. p * u \in Nat /\ p * e \in Nat
    OBVIOUS
  <2>5. x = p * u + (p * e + f)
    BY <1>6, <1>7, <2>1, <2>2
  <2>6. x = p * (u + e) + f
    BY <2>3, <2>4, <2>5
  <2> QED
    BY <2>2, <2>6
<1>10. x \div p = b * (r * q) + e
  BY <1>7, <1>8, <1>9, DivUnique
<1>11. PICK g \in Nat, h \in Nat : e = b * g + h /\ h < b /\ e % b = h
  BY DivMod
<1>12. b * (r * q) + e = b * (r * q + g) + h
  BY <1>9, <1>11
<1>13. (b * (r * q) + e) % b = h
  BY <1>9, <1>11, <1>12, DivUnique
<1> QED
  BY <1>2, <1>4, <1>6, <1>7, <1>10, <1>11, <1>13 DEF Digit

LEMMA DigitAbove ==
    ASSUME NEW b \in Nat \ {0}, NEW x \in Nat, NEW m \in Nat, NEW k \in Nat
    PROVE  Digit(b, x \div Power(b, m), k) = Digit(b, x, m + k)
<1>1. PICK p \in Nat \ {0}, r \in Nat \ {0} : p = Power(b, m) /\ r = Power(b, k)
  BY PowerPositive
<1>2. x \div (p * r) = (x \div p) \div r
  BY ModDiv
<1>3. Power(b, m + k) = p * r
  BY <1>1, PowerSum
<1> QED
  BY <1>1, <1>2, <1>3 DEF Digit

LEMMA DigitsOfNumber ==
    ASSUME NEW b \in Nat \ {0}, NEW n \in Nat, NEW d \in [1..n -> 0..b - 1]
    PROVE  /\ Number(b, d) \in Nat /\ Number(b, d) < Power(b, n)
           /\ Digits(b, Number(b, d), n) = d
<1>1. PICK v \in [0..n -> Nat] : RunningValues(b, d, n, v) /\ Number(b, d) = v[n]
  BY NumberIs
<1> DEFINE Good(k) == v[k] < Power(b, k) /\ \A j \in 0..k - 1 : Digit(b, v[k], j) = d[j + 1]
           P == {k \in Nat : k <= n => Good(k)}
<1>2. 0 \in P
  BY <1>1, PowerZero DEF RunningValues
<1>3. ASSUME NEW k \in Nat, k \in P PROVE k + 1 \in P
  <2> SUFFICES ASSUME k + 1 <= n PROVE Good(k + 1)
    OBVIOUS
  <2>1. k \in 0..n /\ k + 1 \in 0..n /\ k + 1 \in 1..n /\ (k + 1) - 1 = k
    OBVIOUS
  <2>a. v[k] \in Nat /\ v[k + 1] \in Nat /\ d[k + 1] \in Nat
    BY <2>1
  <2>b. Power(b, k) \in Nat \ {0}
    BY PowerPositive, Zenon
  <2>2. PICK y \in Nat, z \in Nat, c \in Nat, p \in Nat \ {0} :
           y = v[k] /\ z = v[k + 1] /\ c = d[k + 1] /\ p = Power(b, k)
    BY <2>a, <2>b, Zenon
  <2>3. c < b /\ z = p * c + y /\ y < p
    <3>1. y < p
      BY <1>3, <2>1, <2>2
    <3>2. z = y + c * p
      BY <1>1, <2>1, <2>2 DEF RunningValues
    <3>3. c < b
      BY <2>1, <2>2
    <3> QED
      BY <3>1, <3>2, <3>3
  <2>4. z \div p = c /\ z % p = y
    BY <2>3, DivUnique
  <2>5. z < Power(b, k + 1)
    <3>1. p * c + p <= p * b
      BY <2>3, MulLess
    <3>2. p * c \in Nat /\ p * b \in Nat
      OBVIOUS
    <3>3. Power(b, k + 1) = b * p
      <4>1. b \in Nat
        OBVIOUS
      <4> QED
        BY <2>2, <4>1, PowerNext, Zenon
    <3>4. b * p = p * b
      OBVIOUS
    <3>5. z < p * b
      <4>1. PICK e \in Nat, f \in Nat : e = p * c /\ f = p * b
        BY <3>2
      <4> QED
        BY <2>3, <3>1, <4>1
    <3> QED
      BY <3>3, <3>4, <3>5
  <2>6. ASSUME NEW j \in 0..k PROVE Digit(b, z, j) = d[j + 1]
    <3>1. CASE j = k
      <4>1. c % b = c
        BY <2>3, ModOfSmall
      <4> QED
        BY <2>2, <2>4, <3>1, <4>1 DEF Digit
    <3>2. CASE j < k
      <4>1. Digit(b, z % Power(b, k), j) = Digit(b, z, j)
        BY <3>2, DigitBelow
      <4>2. Digit(b, y, j) = d[j + 1]
        BY <1>3, <2>1, <2>2, <3>2
      <4> QED
        BY <2>2, <2>4, <4>1, <4>2
    <3> QED
      BY <3>1, <3>2
  <2> QED
    BY <2>1, <2>2, <2>5, <2>6
<1>4. n \in P
  <2> HIDE DEF P
  <2> QED
    BY <1>2, <1>3, NatSetInduction
<1>5. v[n] \in Nat /\ Good(n)
  BY <1>4
<1>6. Digits(b, v[n], n) = d
  <2>1. ASSUME NEW k \in 1..n PROVE Digit(b, v[n], k - 1) = d[k]
    BY <1>5
  <2> QED
    BY <2>1 DEF Digits
<1> QED
  BY <1>1, <1>5, <1>6

(* Numbers of n digits with the same digits are the same. *)
LEMMA SameDigits ==
    ASSUME NEW b \in Nat \ {0}, NEW n \in Nat,
           NEW x \in Nat, x < Power(b, n), NEW y \in Nat, y < Power(b, n),
           \A k \in 1..n : Digit(b, x, k - 1) = Digit(b, y, k - 1)
    PROVE  x = y
<1>1. Digits(b, x, n) = Digits(b, y, n)
  BY DEF Digits
<1>2. PICK p \in Nat \ {0} : p = Power(b, n)
  BY PowerPositive
<1>3. Number(b, Digits(b, x, n)) = x % p /\ Number(b, Digits(b, y, n)) = y % p
  BY <1>2, NumberOfDigits
<1>4. x % p = x /\ y % p = y
  BY <1>2, ModOfSmall
<1> QED
  BY <1>1, <1>3, <1>4

(* A number of 2n digits is two of n, and any two of n make one of 2n. *)
LEMMA TwoHalves ==
    ASSUME NEW b \in Nat \ {0}, NEW n \in Nat, NEW x \in Nat, x < Power(b, n + n)
    PROVE  /\ x % Power(b, n) \in Nat /\ x % Power(b, n) < Power(b, n)
           /\ x \div Power(b, n) \in Nat /\ x \div Power(b, n) < Power(b, n)
           /\ x = (x \div Power(b, n)) * Power(b, n) + (x % Power(b, n))
<1>1. PICK p \in Nat \ {0} : p = Power(b, n)
  BY PowerPositive
<1>2. x < p * p
  BY <1>1, PowerSum
<1>3. PICK q \in Nat, r \in Nat : x = p * q + r /\ r < p /\ x \div p = q /\ x % p = r
  BY DivMod
<1>4. q < p
  <2> SUFFICES ASSUME p <= q PROVE FALSE
    OBVIOUS
  <2>1. CASE p = q
    BY <1>2, <1>3, <2>1
  <2>2. CASE p < q
    <3>1. p * p + p <= p * q
      BY <2>2, MulLess
    <3>2. p * p \in Nat /\ p * q \in Nat
      OBVIOUS
    <3> QED
      BY <1>2, <1>3, <3>1, <3>2
  <2> QED
    BY <2>1, <2>2
<1>5. x = q * p + r
  BY <1>3
<1> QED
  BY <1>1, <1>3, <1>4, <1>5

LEMMA HalvesJoined ==
    ASSUME NEW b \in Nat \ {0}, NEW n \in Nat,
           NEW u \in Nat, u < Power(b, n), NEW w \in Nat, w < Power(b, n)
    PROVE  /\ u * Power(b, n) + w \in Nat /\ u * Power(b, n) + w < Power(b, n + n)
           /\ (u * Power(b, n) + w) \div Power(b, n) = u
           /\ (u * Power(b, n) + w) % Power(b, n) = w
<1>1. PICK p \in Nat \ {0} : p = Power(b, n)
  BY PowerPositive
<1>2. u < p /\ w < p
  BY <1>1
<1>3. p * u + p <= p * p
  BY <1>2, MulLess
<1>4. p * u \in Nat /\ p * p \in Nat /\ u * p = p * u
  OBVIOUS
<1>5. u * p + w \in Nat /\ u * p + w < p * p
  BY <1>2, <1>3, <1>4
<1>6. Power(b, n + n) = p * p
  BY <1>1, PowerSum
<1>7. (u * p + w) \div p = u /\ (u * p + w) % p = w
  BY <1>2, <1>4, <1>5, DivUnique
<1> QED
  BY <1>1, <1>5, <1>6, <1>7
====
