---------------------------- MODULE DigitalLemmas ----------------------------
(***************************************************************************)
(* What each operator of Digital returns, for every base and any length of *)
(* the digits: the natural number that a row of digits stands for, padding *)
(* and trimming, carries, sums, negation, shifts, comparison and products. *)
(***************************************************************************)
EXTENDS Digital, FiniteSetTheorems, SequenceTheorems, TLAPS

-------------------------------------------------------------------------------
(* Induction *)

(* A set of naturals has a least one. *)
LEMMA LeastNatural ==
    ASSUME NEW S \in SUBSET Nat, S # {}
    PROVE  \E c \in S : \A d \in S : c <= d
<1> DEFINE T == {0..c : c \in S}
<1>1. \A c \in S : IsFiniteSet(0..c) /\ 0..c \in SUBSET Nat
    BY FS_Interval
<1>2. T \in SUBSET FiniteSubsetsOf(Nat) /\ T # {}
    BY <1>1 DEF FiniteSubsetsOf
<1>3. PICK y \in T : \A z \in T : ~(<<z, y>> \in StrictSubsetOrdering(Nat))
    BY <1>2, FS_StrictSubsetOrderingWellFounded, WFMin
<1>4. PICK c \in S : y = 0..c
    OBVIOUS
<1>5. ASSUME NEW d \in S PROVE c <= d
    <2>1. SUFFICES ASSUME d < c PROVE FALSE
        OBVIOUS
    <2>2. 0..d \in SUBSET Nat /\ 0..c \in SUBSET Nat /\ 0..d \subseteq 0..c /\ 0..d # 0..c
        BY <2>1
    <2>3. <<0..d, y>> \in StrictSubsetOrdering(Nat)
        BY <2>2, <1>4 DEF StrictSubsetOrdering
    <2>. QED BY <2>3, <1>3
<1>. QED BY <1>5

(* Induction, over a set in the place of a predicate. *)
LEMMA AllNaturals ==
    ASSUME NEW S \in SUBSET Nat, 0 \in S, \A n \in S : n + 1 \in S
    PROVE  S = Nat
<1>1. SUFFICES ASSUME Nat \ S # {} PROVE FALSE
    OBVIOUS
<1>2. PICK c \in Nat \ S : \A d \in Nat \ S : c <= d
    BY <1>1, LeastNatural
<1>3. c # 0 /\ c - 1 \in Nat
    BY <1>2
<1>4. c - 1 \in S
    BY <1>2, <1>3
<1>5. (c - 1) + 1 \in S
    BY <1>4
<1>. QED BY <1>5, <1>2

(* A function that is defined by what it is before exists. *)
Unrolls(h, m, V, a, g) ==
    h \in [0..m -> V] /\ h[0] = a /\ \A i \in 1..m : h[i] = g[i][h[i - 1]]

(* There is such a function for any rule. *)
LEMMA Unrolled ==
    ASSUME NEW m \in Nat, NEW V, NEW a \in V, NEW g \in [1..m -> [V -> V]]
    PROVE  \E h : Unrolls(h, m, V, a, g)
<1>. DEFINE Is(n, h) == h \in [0..n -> V] /\ h[0] = a /\ \A i \in 1..n : h[i] = g[i][h[i - 1]]
            N == {n \in Nat : n <= m => \E h : Is(n, h)}
<1>1. 0 \in N
    <2>1. Is(0, [i \in 0..0 |-> a])
        OBVIOUS
    <2>. QED BY <2>1
<1>2. ASSUME NEW n \in N PROVE n + 1 \in N
    <2>1. SUFFICES ASSUME n + 1 <= m PROVE \E h : Is(n + 1, h)
        OBVIOUS
    <2>2. PICK h : Is(n, h)
        BY <2>1
    <2>. DEFINE u == [i \in 0..(n + 1) |-> IF i = n + 1 THEN g[i][h[n]] ELSE h[i]]
    <2>3. h[n] \in V /\ g[n + 1] \in [V -> V]
        BY <2>1, <2>2
    <2>4. u \in [0..(n + 1) -> V] /\ u[0] = a
        BY <2>2, <2>3
    <2>5. ASSUME NEW i \in 1..(n + 1) PROVE u[i] = g[i][u[i - 1]]
        <3>1. CASE i = n + 1
            BY <3>1
        <3>2. CASE i # n + 1
            <4>1. i \in 1..n /\ i \in 0..(n + 1) /\ i - 1 \in 0..(n + 1) /\ i - 1 # n + 1
                BY <3>2
            <4>2. u[i] = h[i] /\ u[i - 1] = h[i - 1]
                BY <4>1, <3>2
            <4>. QED BY <4>1, <4>2, <2>2
        <3>. QED BY <3>1, <3>2
    <2>. HIDE DEF u
    <2>. QED BY <2>4, <2>5
<1>3. N = Nat
    <2>. HIDE DEF N
    <2>1. N \in SUBSET Nat
        BY DEF N
    <2>. QED BY <1>1, <1>2, <2>1, AllNaturals
<1>4. m \in N
    BY <1>3
<1>5. PICK h : Is(m, h)
    BY <1>4
<1>. QED BY <1>5 DEF Unrolls

-------------------------------------------------------------------------------
(* Powers *)

(* Power is computed factor by factor. *)
LEMMA PowerUnrolled ==
    ASSUME NEW b \in Int, NEW n \in Nat
    PROVE  \E p \in [0..n -> Int] :
              /\ p[0] = 1 /\ \A i \in 1..n : p[i] = b * p[i - 1]
              /\ Power(b, n) = p[n]
<1>. DEFINE g == [i \in 1..n |-> [v \in Int |-> b * v]]
<1>2. g \in [1..n -> [Int -> Int]] /\ 1 \in Int
    OBVIOUS
<1>. HIDE DEF g
<1>3. PICK h \in [0..n -> Int] : h[0] = 1 /\ \A i \in 1..n : h[i] = g[i][h[i - 1]]
    <2>1. \E h : Unrolls(h, n, Int, 1, g)
        BY <1>2, Unrolled
    <2>. QED BY <2>1 DEF Unrolls
<1>4. ASSUME NEW i \in 1..n PROVE h[i] = b * h[i - 1]
    <2>1. h[i - 1] \in Int /\ g[i] = [v \in Int |-> b * v]
        BY DEF g
    <2>. QED BY <2>1, <1>3
<1>5. h = [i \in 0..n |-> IF i = 0 THEN 1 ELSE b * h[i - 1]]
    BY <1>3, <1>4
<1>. DEFINE q == CHOOSE q : q = [i \in 0..n |-> IF i = 0 THEN 1 ELSE b * q[i - 1]]
<1>1. Power(b, n) = q[n]
    BY DEF Power
<1>6. q = [i \in 0..n |-> IF i = 0 THEN 1 ELSE b * q[i - 1]]
    BY <1>5
<1>. HIDE DEF q
<1>. DEFINE N == {i \in Nat : i <= n => q[i] = h[i]}
<1>7. 0 \in N
    BY <1>6, <1>3
<1>8. ASSUME NEW i \in N PROVE i + 1 \in N
    BY <1>6, <1>4
<1>9. N = Nat
    <2>. HIDE DEF N
    <2>1. N \in SUBSET Nat
        BY DEF N
    <2>. QED BY <1>7, <1>8, <2>1, AllNaturals
<1>10. q[n] = h[n]
    <2>1. n \in N
        BY <1>9
    <2>. QED BY <2>1
<1>. QED BY <1>1, <1>3, <1>4, <1>10

(* Its first value. *)
LEMMA PowerZero ==
    ASSUME NEW b \in Int
    PROVE  Power(b, 0) = 1
BY PowerUnrolled

(* Each next one is the base times as much. *)
LEMMA PowerNext ==
    ASSUME NEW b \in Int, NEW n \in Nat
    PROVE  Power(b, n) \in Int /\ Power(b, n + 1) = b * Power(b, n)
<1>1. PICK p \in [0..n -> Int] :
          p[0] = 1 /\ (\A i \in 1..n : p[i] = b * p[i - 1]) /\ Power(b, n) = p[n]
    BY PowerUnrolled
<1>2. n + 1 \in Nat
    OBVIOUS
<1>3. PICK q \in [0..(n + 1) -> Int] :
          q[0] = 1 /\ (\A i \in 1..(n + 1) : q[i] = b * q[i - 1]) /\ Power(b, n + 1) = q[n + 1]
    BY <1>2, PowerUnrolled
<1>. DEFINE N == {i \in Nat : i <= n => q[i] = p[i]}
<1>4. N = Nat
    <2>1. 0 \in N
        BY <1>1, <1>3
    <2>2. ASSUME NEW i \in N PROVE i + 1 \in N
        <3>1. SUFFICES ASSUME i + 1 <= n PROVE q[i + 1] = p[i + 1]
            OBVIOUS
        <3>2. i + 1 \in 1..n /\ i + 1 \in 1..(n + 1) /\ (i + 1) - 1 = i
            BY <3>1
        <3>3. q[i + 1] = b * q[i] /\ p[i + 1] = b * p[i]
            BY <1>1, <1>3, <3>2
        <3>. QED BY <3>1, <3>3
    <2>3. N \in SUBSET Nat
        OBVIOUS
    <2>. HIDE DEF N
    <2>. QED BY <2>1, <2>2, <2>3, AllNaturals
<1>5. q[n] = p[n]
    BY <1>4
<1>6. n + 1 \in 1..(n + 1) /\ (n + 1) - 1 = n /\ n \in 0..n
    OBVIOUS
<1>. QED BY <1>1, <1>3, <1>5, <1>6

(* Exponents add up. *)
LEMMA PowerSum ==
    ASSUME NEW b \in Int, NEW m \in Nat, NEW n \in Nat
    PROVE  Power(b, m + n) = Power(b, m) * Power(b, n)
<1>. DEFINE N == {i \in Nat : Power(b, m + i) = Power(b, m) * Power(b, i)}
<1>0. Power(b, m) \in Int
    BY PowerNext
<1>1. 0 \in N
    BY <1>0, PowerZero
<1>2. ASSUME NEW i \in N PROVE i + 1 \in N
    <2>1. Power(b, i) \in Int /\ Power(b, i + 1) = b * Power(b, i)
        BY PowerNext
    <2>2. m + i \in Nat /\ m + (i + 1) = (m + i) + 1
        OBVIOUS
    <2>3. Power(b, m + (i + 1)) = b * Power(b, m + i)
        BY <2>2, PowerNext
    <2>4. b * (Power(b, m) * Power(b, i)) = Power(b, m) * (b * Power(b, i))
        BY <1>0, <2>1
    <2>. QED BY <2>1, <2>3, <2>4
<1>3. N = Nat
    <2>. HIDE DEF N
    <2>1. N \in SUBSET Nat
        BY DEF N
    <2>. QED BY <1>1, <1>2, <2>1, AllNaturals
<1>. QED BY <1>3

(* Powers of a base that is not 0 are not 0. *)
LEMMA PowerPositive ==
    ASSUME NEW b \in Nat \ {0}, NEW n \in Nat
    PROVE  Power(b, n) \in Nat \ {0}
<1>. DEFINE N == {i \in Nat : Power(b, i) \in Nat \ {0}}
<1>1. 0 \in N
    BY PowerZero
<1>2. ASSUME NEW i \in N PROVE i + 1 \in N
    <2>1. Power(b, i + 1) = b * Power(b, i)
        BY PowerNext
    <2>. QED BY <2>1
<1>3. N = Nat
    <2>. HIDE DEF N
    <2>1. N \in SUBSET Nat
        BY DEF N
    <2>. QED BY <1>1, <1>2, <2>1, AllNaturals
<1>. QED BY <1>3

(* Digits have at least two bits, so the base is at least 4. *)
LEMMA BaseIs == Base \in Nat /\ Base > 3 /\ MAX \in Nat /\ MAX = Base - 1 /\ Digit = 0..MAX
<1>1. Bits - 2 \in Nat
    BY DigitalAssumption
<1>2. Power(2, Bits - 2) \in Nat \ {0}
    BY <1>1, PowerPositive
<1>3. (Bits - 2) + 1 \in Nat /\ ((Bits - 2) + 1) + 1 = Bits
    BY <1>1, DigitalAssumption
<1>4. Power(2, (Bits - 2) + 1) = 2 * Power(2, Bits - 2)
    BY <1>1, PowerNext
<1>5. Power(2, ((Bits - 2) + 1) + 1) = 2 * Power(2, (Bits - 2) + 1)
    BY <1>3, PowerNext
<1>6. Power(2, Bits) = 2 * Power(2, (Bits - 2) + 1)
    BY <1>3, <1>5
<1>. QED BY <1>2, <1>4, <1>6 DEF Base, MAX, Digit

(* The powers of the base. *)
Rank(n) == Power(Base, n)

(* A digit of rank 0 counts once. *)
LEMMA Ranks0 == Rank(0) = 1
BY BaseIs, PowerZero DEF Rank

(* A digit of the next rank counts Base times as much. *)
LEMMA RankNext ==
    ASSUME NEW n \in Nat
    PROVE  Rank(n) \in Nat /\ Rank(n) > 0 /\ Rank(n + 1) = Base * Rank(n)
<1>1. Base \in Nat \ {0} /\ Base \in Int
    BY BaseIs
<1>2. Power(Base, n) \in Nat \ {0}
    BY <1>1, PowerPositive
<1>3. Power(Base, n + 1) = Base * Power(Base, n)
    BY <1>1, PowerNext
<1>. QED BY <1>2, <1>3 DEF Rank

(* Ranks add up. *)
LEMMA RankSum ==
    ASSUME NEW m \in Nat, NEW n \in Nat
    PROVE  Rank(m + n) = Rank(m) * Rank(n)
BY BaseIs, PowerSum DEF Rank

-------------------------------------------------------------------------------
(* What digits are read as *)

Row(d, n) == \A i \in 1..n : d[i] \in Int

(* A row of digits is read from its front, digit by digit. *)
LEMMA ReadUnrolled ==
    ASSUME NEW d, NEW n \in Nat, Row(d, n)
    PROVE  \E r \in [0..n -> Int] :
              /\ r[0] = 0 /\ \A i \in 1..n : r[i] = r[i - 1] * Base + d[i]
              /\ Read(d, n) = r[n]
<1>. DEFINE g == [i \in 1..n |-> [v \in Int |-> v * Base + d[i]]]
<1>1. Base \in Int
    BY BaseIs
<1>2. g \in [1..n -> [Int -> Int]] /\ 0 \in Int
    BY <1>1 DEF Row
<1>. HIDE DEF g
<1>3. PICK h \in [0..n -> Int] : h[0] = 0 /\ \A i \in 1..n : h[i] = g[i][h[i - 1]]
    <2>1. \E h : Unrolls(h, n, Int, 0, g)
        BY <1>2, Unrolled
    <2>. QED BY <2>1 DEF Unrolls
<1>4. ASSUME NEW i \in 1..n PROVE h[i] = h[i - 1] * Base + d[i]
    <2>1. h[i - 1] \in Int /\ g[i] = [v \in Int |-> v * Base + d[i]]
        BY DEF g
    <2>. QED BY <2>1, <1>3
<1>5. h = [i \in 0..n |-> IF i = 0 THEN 0 ELSE h[i - 1] * Base + d[i]]
    BY <1>3, <1>4
<1>. DEFINE q == CHOOSE q : q = [i \in 0..n |-> IF i = 0 THEN 0 ELSE q[i - 1] * Base + d[i]]
<1>6. Read(d, n) = q[n]
    BY DEF Read
<1>7. q = [i \in 0..n |-> IF i = 0 THEN 0 ELSE q[i - 1] * Base + d[i]]
    BY <1>5
<1>. HIDE DEF q
<1>. DEFINE N == {i \in Nat : i <= n => q[i] = h[i]}
<1>8. 0 \in N
    BY <1>7, <1>3
<1>9. ASSUME NEW i \in N PROVE i + 1 \in N
    BY <1>7, <1>4
<1>10. N = Nat
    <2>1. N \in SUBSET Nat
        OBVIOUS
    <2>. HIDE DEF N
    <2>. QED BY <1>8, <1>9, <2>1, AllNaturals
<1>11. q[n] = h[n]
    <2>1. n \in N
        BY <1>10
    <2>. QED BY <2>1
<1>. QED BY <1>3, <1>4, <1>6, <1>11

(* No digits stand for 0. *)
LEMMA ReadZero ==
    ASSUME NEW d
    PROVE  Read(d, 0) = 0
<1>1. 0 \in Nat /\ Row(d, 0)
    BY DEF Row
<1>. QED BY <1>1, ReadUnrolled

(* A row stands for an integer. *)
LEMMA ReadInt ==
    ASSUME NEW d, NEW n \in Nat, Row(d, n)
    PROVE  Read(d, n) \in Int
BY ReadUnrolled

(* Only the digits before a place count. *)
LEMMA ReadSame ==
    ASSUME NEW d, NEW e, NEW n \in Nat, Row(d, n), \A i \in 1..n : e[i] = d[i]
    PROVE  Read(e, n) = Read(d, n)
<1>1. PICK r \in [0..n -> Int] :
          r[0] = 0 /\ (\A i \in 1..n : r[i] = r[i - 1] * Base + d[i]) /\ Read(d, n) = r[n]
    BY ReadUnrolled
<1>2. Row(e, n)
    BY DEF Row
<1>3. PICK q \in [0..n -> Int] :
          q[0] = 0 /\ (\A i \in 1..n : q[i] = q[i - 1] * Base + e[i]) /\ Read(e, n) = q[n]
    BY <1>2, ReadUnrolled
<1>. DEFINE N == {i \in Nat : i <= n => q[i] = r[i]}
<1>4. 0 \in N
    BY <1>1, <1>3
<1>5. ASSUME NEW i \in N PROVE i + 1 \in N
    <2>1. SUFFICES ASSUME i + 1 <= n PROVE q[i + 1] = r[i + 1]
        OBVIOUS
    <2>2. i + 1 \in 1..n /\ (i + 1) - 1 = i /\ q[i] = r[i]
        BY <2>1
    <2>. QED BY <1>1, <1>3, <2>2
<1>6. N = Nat
    <2>1. N \in SUBSET Nat
        OBVIOUS
    <2>. HIDE DEF N
    <2>. QED BY <1>4, <1>5, <2>1, AllNaturals
<1>7. q[n] = r[n]
    BY <1>6
<1>. QED BY <1>1, <1>3, <1>7

(* One more digit behind. *)
LEMMA ReadNext ==
    ASSUME NEW d, NEW n \in Nat, Row(d, n + 1)
    PROVE  Read(d, n) \in Int /\ Read(d, n + 1) = Read(d, n) * Base + d[n + 1]
<1>1. n + 1 \in Nat
    OBVIOUS
<1>2. PICK r \in [0..(n + 1) -> Int] :
          /\ r[0] = 0 /\ \A i \in 1..(n + 1) : r[i] = r[i - 1] * Base + d[i]
          /\ Read(d, n + 1) = r[n + 1]
    BY <1>1, ReadUnrolled
<1>3. Row(d, n)
    BY DEF Row
<1>4. PICK q \in [0..n -> Int] :
          q[0] = 0 /\ (\A i \in 1..n : q[i] = q[i - 1] * Base + d[i]) /\ Read(d, n) = q[n]
    BY <1>3, ReadUnrolled
<1>. DEFINE N == {i \in Nat : i <= n => q[i] = r[i]}
<1>5. 0 \in N
    BY <1>2, <1>4
<1>6. ASSUME NEW i \in N PROVE i + 1 \in N
    <2>1. SUFFICES ASSUME i + 1 <= n PROVE q[i + 1] = r[i + 1]
        OBVIOUS
    <2>2. i + 1 \in 1..n /\ i + 1 \in 1..(n + 1) /\ (i + 1) - 1 = i /\ q[i] = r[i]
        BY <2>1
    <2>. QED BY <1>2, <1>4, <2>2
<1>7. N = Nat
    <2>1. N \in SUBSET Nat
        OBVIOUS
    <2>. HIDE DEF N
    <2>. QED BY <1>5, <1>6, <2>1, AllNaturals
<1>8. q[n] = r[n]
    BY <1>7
<1>9. n + 1 \in 1..(n + 1) /\ (n + 1) - 1 = n
    OBVIOUS
<1>. QED BY <1>2, <1>4, <1>8, <1>9

(* Digits that follow others. *)
Follows(e, d, m, n) == \A i \in 1..n : e[i] = d[m + i]
ReadsOn(e, d, m, n) == Read(d, m + n) = Read(d, m) * Rank(n) + Read(e, n)

(* A row and another behind it. *)
LEMMA ReadOn ==
    ASSUME NEW d, NEW e, NEW m \in Nat, NEW n \in Nat, Row(d, m + n), Follows(e, d, m, n)
    PROVE  ReadsOn(e, d, m, n)
<1>. DEFINE N == {i \in Nat : i <= n => Read(d, m + i) = Read(d, m) * Rank(i) + Read(e, i)}
<1>0. Read(d, m) \in Int
    <2>1. Row(d, m)
        BY DEF Row
    <2>. QED BY <2>1, ReadInt
<1>1. 0 \in N
    BY <1>0, ReadZero, Ranks0
<1>2. ASSUME NEW i \in N PROVE i + 1 \in N
    <2>1. SUFFICES ASSUME i + 1 <= n
                   PROVE  Read(d, m + (i + 1)) = Read(d, m) * Rank(i + 1) + Read(e, i + 1)
        OBVIOUS
    <2>2. Row(e, i + 1) /\ Row(d, (m + i) + 1) /\ m + i \in Nat /\ m + (i + 1) = (m + i) + 1
        BY <2>1 DEF Row, Follows
    <2>3. Read(d, (m + i) + 1) = Read(d, m + i) * Base + d[(m + i) + 1]
        BY <2>2, ReadNext
    <2>4. Read(e, i) \in Int /\ Read(e, i + 1) = Read(e, i) * Base + e[i + 1]
        BY <2>2, ReadNext
    <2>5. e[i + 1] = d[(m + i) + 1] /\ e[i + 1] \in Int
        <3>1. i + 1 \in 1..n /\ i + 1 \in 1..(i + 1)
            BY <2>1
        <3>. QED BY <3>1, <2>2 DEF Row, Follows
    <2>6. Rank(i) \in Nat /\ Rank(i + 1) = Base * Rank(i) /\ Base \in Nat
        BY RankNext, BaseIs
    <2>7. Read(d, m + i) = Read(d, m) * Rank(i) + Read(e, i)
        BY <2>1
    <2>8. (Read(d, m) * Rank(i) + Read(e, i)) * Base
          = Read(d, m) * (Base * Rank(i)) + Read(e, i) * Base
        BY <1>0, <2>4, <2>6
    <2>9. Read(d, m) * (Base * Rank(i)) \in Int /\ Read(e, i) * Base \in Int
        BY <1>0, <2>4, <2>6
    <2>. HIDE DEF N
    <2>. QED BY <2>2, <2>3, <2>4, <2>5, <2>6, <2>7, <2>8, <2>9
<1>3. N = Nat
    <2>1. N \in SUBSET Nat
        OBVIOUS
    <2>. HIDE DEF N
    <2>. QED BY <1>1, <1>2, <2>1, AllNaturals
<1>. QED BY <1>3 DEF ReadsOn

Digits(d, n) == \A i \in 1..n : d[i] \in Digit

(* Digits are a row of integers. *)
LEMMA DigitsRow ==
    ASSUME NEW d, NEW n \in Nat, Digits(d, n)
    PROVE  Row(d, n)
BY BaseIs DEF Digits, Row

(* n digits stand for less than the rank n. *)
LEMMA ReadBound ==
    ASSUME NEW d, NEW n \in Nat, Digits(d, n)
    PROVE  Read(d, n) \in Nat /\ Read(d, n) < Rank(n)
<1>. DEFINE N == {i \in Nat : i <= n => Read(d, i) \in Nat /\ Read(d, i) < Rank(i)}
<1>1. 0 \in N
    BY ReadZero, Ranks0
<1>2. ASSUME NEW i \in N PROVE i + 1 \in N
    <2>1. SUFFICES ASSUME i + 1 <= n
                   PROVE  Read(d, i + 1) \in Nat /\ Read(d, i + 1) < Rank(i + 1)
        OBVIOUS
    <2>2. Row(d, i + 1)
        BY <2>1, BaseIs DEF Digits, Row
    <2>3. Read(d, i + 1) = Read(d, i) * Base + d[i + 1]
        BY <2>2, ReadNext
    <2>4. Rank(i) \in Nat /\ Rank(i + 1) = Base * Rank(i)
        BY RankNext
    <2>5. d[i + 1] \in Nat /\ d[i + 1] < Base /\ Base \in Nat
        BY <2>1, BaseIs DEF Digits
    <2>6. Read(d, i) \in Nat /\ Read(d, i) <= Rank(i) - 1
        BY <2>1, <2>4
    <2>7. Read(d, i) * Base <= (Rank(i) - 1) * Base /\ Read(d, i) * Base \in Nat
        BY <2>4, <2>5, <2>6
    <2>8. (Rank(i) - 1) * Base = Base * Rank(i) - Base /\ Base * Rank(i) \in Nat
        BY <2>4, <2>5
    <2>. HIDE DEF N
    <2>. QED BY <2>3, <2>4, <2>5, <2>7, <2>8
<1>3. N = Nat
    <2>1. N \in SUBSET Nat
        OBVIOUS
    <2>. HIDE DEF N
    <2>. QED BY <1>1, <1>2, <2>1, AllNaturals
<1>. QED BY <1>3

(* A row of zeros, and one of the highest digit. *)
LEMMA ReadZeros ==
    ASSUME NEW d, NEW n \in Nat, \A i \in 1..n : d[i] = 0
    PROVE  Read(d, n) = 0
<1>. DEFINE N == {i \in Nat : i <= n => Read(d, i) = 0}
<1>1. 0 \in N
    BY ReadZero
<1>2. ASSUME NEW i \in N PROVE i + 1 \in N
    <2>1. SUFFICES ASSUME i + 1 <= n PROVE Read(d, i + 1) = 0
        OBVIOUS
    <2>2. Row(d, i + 1) /\ d[i + 1] = 0
        BY <2>1 DEF Row
    <2>3. Read(d, i + 1) = Read(d, i) * Base + d[i + 1]
        BY <2>2, ReadNext
    <2>4. Read(d, i) = 0 /\ Base \in Nat
        BY <2>1, BaseIs
    <2>. QED BY <2>2, <2>3, <2>4
<1>3. N = Nat
    <2>1. N \in SUBSET Nat
        OBVIOUS
    <2>. HIDE DEF N
    <2>. QED BY <1>1, <1>2, <2>1, AllNaturals
<1>. QED BY <1>3

(* Digits that are all full stand for one less than the rank. *)
LEMMA ReadFull ==
    ASSUME NEW d, NEW n \in Nat, \A i \in 1..n : d[i] = MAX
    PROVE  Read(d, n) = Rank(n) - 1
<1>. DEFINE N == {i \in Nat : i <= n => Read(d, i) = Rank(i) - 1}
<1>1. 0 \in N
    BY ReadZero, Ranks0
<1>2. ASSUME NEW i \in N PROVE i + 1 \in N
    <2>1. SUFFICES ASSUME i + 1 <= n PROVE Read(d, i + 1) = Rank(i + 1) - 1
        OBVIOUS
    <2>2. Row(d, i + 1) /\ d[i + 1] = MAX
        BY <2>1, BaseIs DEF Row
    <2>3. Read(d, i + 1) = Read(d, i) * Base + d[i + 1]
        BY <2>2, ReadNext
    <2>4. Read(d, i) = Rank(i) - 1
        BY <2>1
    <2>5. Rank(i) \in Nat /\ Rank(i + 1) = Base * Rank(i)
        BY RankNext
    <2>6. (Rank(i) - 1) * Base = Base * Rank(i) - Base /\ Base * Rank(i) \in Nat
        BY <2>5, BaseIs
    <2>. HIDE DEF N
    <2>. QED BY <2>2, <2>3, <2>4, <2>5, <2>6, BaseIs
<1>3. N = Nat
    <2>1. N \in SUBSET Nat
        OBVIOUS
    <2>. HIDE DEF N
    <2>. QED BY <1>1, <1>2, <2>1, AllNaturals
<1>. QED BY <1>3

-------------------------------------------------------------------------------
(* Numbers, and how they are padded and trimmed *)

Numbers == [neg : BOOLEAN, exp : Int, digits : Seq(Digit)]

(* The rank of the lowest digit, and what the digits and the sign amount    *)
(* to in units of it.                                                       *)
Bottom(a) == a.exp - Len(a.digits) + 1
Amount(a) == Read(a.digits, Len(a.digits)) - (IF a.neg THEN Rank(Len(a.digits)) ELSE 0)

(* The larger of two. *)
LEMMA LargerOf ==
    ASSUME NEW m \in Int, NEW n \in Int
    PROVE  Max({m, n}) = IF m > n THEN m ELSE n
BY DEF Max

Upto(S, n) == S # {} /\ \A y \in S : y \in Int /\ y <= n
Highest(m, S) == m \in S /\ \A y \in S : y <= m

(* A bounded set of integers has a highest. *)
LEMMA MaxIn ==
    ASSUME NEW n \in Int, NEW S, Upto(S, n)
    PROVE  Highest(Max(S), S)
<1>0. S # {} /\ \A y \in S : y \in Int /\ y <= n
    BY DEF Upto
<1>. DEFINE T == {n - y : y \in S}
<1>1. T \in SUBSET Nat /\ T # {}
    <2>1. ASSUME NEW y \in S PROVE n - y \in Nat
        BY <1>0
    <2>2. PICK y \in S : TRUE
        BY <1>0
    <2>3. n - y \in T
        OBVIOUS
    <2>. QED BY <2>1, <2>3
<1>2. PICK c \in T : \A d \in T : c <= d
    BY <1>1, LeastNatural
<1>3. n - c \in S /\ \A y \in S : n - c >= y
    <2>1. PICK y \in S : c = n - y
        BY <1>2
    <2>2. y \in Int /\ n - c = y
        BY <2>1, <1>0
    <2>3. ASSUME NEW z \in S PROVE n - c >= z
        <3>1. n - z \in T /\ z \in Int
            BY <1>0
        <3>2. c <= n - z
            BY <1>2, <3>1
        <3>. QED BY <2>2, <2>1, <3>1, <3>2
    <2>. QED BY <2>2, <2>3
<1>. HIDE DEF T
<1>4. \E y \in S : \A z \in S : y >= z
    BY <1>3
<1>5. Max(S) \in S /\ \A z \in S : Max(S) >= z
    BY <1>4 DEF Max
<1>. QED BY <1>5, <1>0 DEF Highest

(* The parts of a number. *)
LEMMA NumberIs ==
    ASSUME NEW a \in Numbers
    PROVE  /\ a.neg \in BOOLEAN /\ a.exp \in Int /\ a.digits \in Seq(Digit)
           /\ Len(a.digits) \in Nat /\ Digits(a.digits, Len(a.digits))
           /\ Row(a.digits, Len(a.digits)) /\ Bottom(a) \in Int /\ Amount(a) \in Int
<1>1. a.neg \in BOOLEAN /\ a.exp \in Int /\ a.digits \in Seq(Digit) /\ Len(a.digits) \in Nat
    BY DEF Numbers
<1>2. Digits(a.digits, Len(a.digits))
    BY <1>1 DEF Digits
<1>3. Row(a.digits, Len(a.digits))
    BY <1>1, <1>2, DigitsRow
<1>4. Rank(Len(a.digits)) \in Nat /\ Read(a.digits, Len(a.digits)) \in Nat
    BY <1>1, <1>2, RankNext, ReadBound
<1>. QED BY <1>1, <1>2, <1>3, <1>4 DEF Bottom, Amount

(* A value is an amount and the rank of its lowest digit. *)
LEMMA ValueIs ==
    ASSUME NEW a \in Numbers, NEW s \in Int
    PROVE  Value(a, s) = Amount(a) * Rank(Bottom(a) + s)
<1>1. a.exp \in Int /\ Len(a.digits) \in Nat
    BY NumberIs
<1>2. a.exp - Len(a.digits) + 1 + s = Bottom(a) + s
    BY <1>1 DEF Bottom
<1>. QED BY <1>2 DEF Value, Amount, Rank

(* The digits of a number that is not negative are its amount. *)
LEMMA Positive ==
    ASSUME NEW a \in Numbers, ~a.neg
    PROVE  Amount(a) = Read(a.digits, Len(a.digits)) /\ Amount(a) \in Nat
<1>1. Read(a.digits, Len(a.digits)) \in Nat
    BY NumberIs, ReadBound
<1>. QED BY <1>1 DEF Amount

(* Those of a negative number are the two's complement. *)
LEMMA Negative ==
    ASSUME NEW a \in Numbers, a.neg
    PROVE  /\ Amount(a) = Read(a.digits, Len(a.digits)) - Rank(Len(a.digits))
           /\ Amount(a) < 0
<1>1. Read(a.digits, Len(a.digits)) \in Nat /\ Read(a.digits, Len(a.digits)) < Rank(Len(a.digits))
    BY NumberIs, ReadBound
<1>2. Rank(Len(a.digits)) \in Nat
    BY NumberIs, RankNext
<1>. QED BY <1>1, <1>2 DEF Amount

(* Digits d before those of e before those of f. *)
Joins(w, d, e, f) ==
    /\ w \in Seq(Digit) /\ Len(w) = Len(d) + Len(e) + Len(f)
    /\ \A i \in 1..Len(d) : w[i] = d[i]
    /\ \A i \in 1..Len(e) : w[Len(d) + i] = e[i]
    /\ \A i \in 1..Len(f) : w[Len(d) + Len(e) + i] = f[i]

(* Digits in front and behind leave those between in their order. *)
LEMMA ThreeRows ==
    ASSUME NEW d \in Seq(Digit), NEW e \in Seq(Digit), NEW f \in Seq(Digit)
    PROVE  Joins(d \o e \o f, d, e, f)
<1>. DEFINE g == d \o e
            w == g \o f
<1>0. Len(d) \in Nat /\ Len(e) \in Nat /\ Len(f) \in Nat
    OBVIOUS
<1>1. /\ g \in Seq(Digit) /\ Len(g) = Len(d) + Len(e)
      /\ \A i \in 1..(Len(d) + Len(e)) : g[i] = IF i <= Len(d) THEN d[i] ELSE e[i - Len(d)]
    BY ConcatProperties
<1>2. d \o e \o f = w
    OBVIOUS
<1>. HIDE DEF g
<1>3. /\ w \in Seq(Digit) /\ Len(w) = Len(g) + Len(f)
      /\ \A i \in 1..(Len(g) + Len(f)) : w[i] = IF i <= Len(g) THEN g[i] ELSE f[i - Len(g)]
    <2>1. g \in Seq(Digit) /\ f \in Seq(Digit)
        BY <1>1
    <2>. QED BY <2>1, ConcatProperties
<1>. HIDE DEF w
<1>4. ASSUME NEW i \in 1..Len(d) PROVE w[i] = d[i]
    BY <1>0, <1>1, <1>3
<1>5. ASSUME NEW i \in 1..Len(e) PROVE w[Len(d) + i] = e[i]
    <2>1. /\ Len(d) + i \in 1..(Len(g) + Len(f)) /\ Len(d) + i <= Len(g)
          /\ Len(d) + i \in 1..(Len(d) + Len(e)) /\ ~(Len(d) + i <= Len(d))
          /\ (Len(d) + i) - Len(d) = i
        BY <1>0, <1>1
    <2>. QED BY <2>1, <1>1, <1>3
<1>6. ASSUME NEW i \in 1..Len(f) PROVE w[Len(d) + Len(e) + i] = f[i]
    <2>1. /\ Len(d) + Len(e) + i \in 1..(Len(g) + Len(f)) /\ ~(Len(d) + Len(e) + i <= Len(g))
          /\ (Len(d) + Len(e) + i) - Len(g) = i
        BY <1>0, <1>1
    <2>. QED BY <2>1, <1>3
<1>7. Joins(w, d, e, f)
    BY <1>1, <1>3, <1>4, <1>5, <1>6 DEF Joins
<1>. QED BY <1>2, <1>7, Zenon

(* A digit repeated. *)
LEMMA RepeatIs ==
    ASSUME NEW n \in Nat, NEW d \in Digit
    PROVE  /\ Repeat(n, d) \in Seq(Digit) /\ Len(Repeat(n, d)) = n
           /\ \A i \in 1..n : Repeat(n, d)[i] = d
BY DEF Repeat

(* How many digits are put in front and behind, and what they are.          *)
Front(a, e) == IF e > a.exp THEN e - a.exp ELSE 0
Back(a, end) == IF Bottom(a) > end THEN Bottom(a) - end ELSE 0
Sign(a) == IF a.neg /\ Last(a.digits) > 0 THEN MAX ELSE 0

Pads(w, a, e, end) ==
    /\ w \in Numbers /\ w.neg = a.neg /\ w.exp = a.exp + Front(a, e)
    /\ Front(a, e) \in Nat /\ Back(a, end) \in Nat
    /\ Len(w.digits) = Front(a, e) + Len(a.digits) + Back(a, end)
    /\ Bottom(w) = Bottom(a) - Back(a, end)
    /\ \A i \in 1..Front(a, e) : w.digits[i] = Sign(a)
    /\ \A i \in 1..Len(a.digits) : w.digits[Front(a, e) + i] = a.digits[i]
    /\ \A i \in 1..Back(a, end) : w.digits[Front(a, e) + Len(a.digits) + i] = 0

(* What pad() puts in front and behind. *)
LEMMA Paddings ==
    ASSUME NEW a \in Numbers, NEW e \in Int, NEW end \in Int
    PROVE  Pads(pad(a, e, end), a, e, end)
<1>. DEFINE w == pad(a, e, end)
<1>0. w = pad(a, e, end)
    OBVIOUS
<1>1. /\ a.neg \in BOOLEAN /\ a.exp \in Int /\ a.digits \in Seq(Digit) /\ Len(a.digits) \in Nat
      /\ Bottom(a) \in Int
    BY NumberIs
<1>2. Max({0, e - a.exp}) = Front(a, e) /\ Front(a, e) \in Nat
    <2>1. e - a.exp \in Int /\ 0 \in Int
        BY <1>1
    <2>2. Max({0, e - a.exp}) = IF 0 > e - a.exp THEN 0 ELSE e - a.exp
        BY <2>1, LargerOf
    <2>. QED BY <2>2, <1>1 DEF Front
<1>3. Max({0, a.exp - end + 1 - Len(a.digits)}) = Back(a, end) /\ Back(a, end) \in Nat
    <2>1. a.exp - end + 1 - Len(a.digits) \in Int /\ 0 \in Int
        BY <1>1
    <2>2. Max({0, a.exp - end + 1 - Len(a.digits)})
          = IF 0 > a.exp - end + 1 - Len(a.digits) THEN 0 ELSE a.exp - end + 1 - Len(a.digits)
        BY <2>1, LargerOf
    <2>. QED BY <2>2, <1>1, SMTT(30) DEF Back, Bottom
<1>4. Sign(a) \in Digit /\ 0 \in Digit
    BY BaseIs DEF Sign
<1>. DEFINE f == Repeat(Front(a, e), Sign(a))
            b == Repeat(Back(a, end), 0)
<1>5. /\ f \in Seq(Digit) /\ Len(f) = Front(a, e)
      /\ \A i \in 1..Front(a, e) : f[i] = Sign(a)
    BY <1>2, <1>4, RepeatIs
<1>6. /\ b \in Seq(Digit) /\ Len(b) = Back(a, end)
      /\ \A i \in 1..Back(a, end) : b[i] = 0
    BY <1>3, <1>4, RepeatIs
<1>7. w = [a EXCEPT !.exp = a.exp + Front(a, e), !.digits = f \o a.digits \o b]
    BY <1>2, <1>3, Zenon DEF pad, Sign
<1>. HIDE DEF f, b, w
<1>. DEFINE row == f \o a.digits \o b
<1>11. row = f \o a.digits \o b
    OBVIOUS
<1>12. w = [a EXCEPT !.exp = a.exp + Front(a, e), !.digits = row]
    BY <1>7
<1>. HIDE DEF row
<1>8. /\ row \in Seq(Digit) /\ Len(row) = Len(f) + Len(a.digits) + Len(b)
      /\ \A i \in 1..Len(f) : row[i] = f[i]
      /\ \A i \in 1..Len(a.digits) : row[Len(f) + i] = a.digits[i]
      /\ \A i \in 1..Len(b) : row[Len(f) + Len(a.digits) + i] = b[i]
    <2>1. Joins(f \o a.digits \o b, f, a.digits, b)
        BY <1>1, <1>5, <1>6, ThreeRows
    <2>2. Joins(row, f, a.digits, b)
        BY <2>1, <1>11, Zenon
    <2>. QED BY <2>2 DEF Joins
<1>9. w \in Numbers /\ w.neg = a.neg /\ w.exp = a.exp + Front(a, e) /\ w.digits = row
    <2>1. a.exp + Front(a, e) \in Int
        BY <1>1, <1>2
    <2>2. a = [neg |-> a.neg, exp |-> a.exp, digits |-> a.digits]
        BY DEF Numbers
    <2>3. w = [neg |-> a.neg, exp |-> a.exp + Front(a, e), digits |-> row]
        BY <1>12, <2>2
    <2>. QED BY <2>1, <2>3, <1>1, <1>8 DEF Numbers
<1>10. Len(w.digits) = Front(a, e) + Len(a.digits) + Back(a, end)
    BY <1>5, <1>6, <1>8, <1>9
<1>13. Bottom(w) = Bottom(a) - Back(a, end)
    <2>1. w.exp = a.exp + Front(a, e)
        BY <1>9
    <2>2. w.exp - Len(w.digits) + 1 = (a.exp - Len(a.digits) + 1) - Back(a, end)
        BY <1>1, <1>2, <1>3, <2>1, <1>10
    <2>. QED BY <2>2 DEF Bottom
<1>14. Pads(w, a, e, end)
    BY <1>2, <1>3, <1>5, <1>6, <1>8, <1>9, <1>10, <1>13 DEF Pads
<1>. QED BY <1>14 DEF w

(* Only the digits up to place i are others. *)
LEMMA ReadChanged ==
    ASSUME NEW d, NEW e, NEW i \in Nat, NEW n \in Nat, i <= n, Row(d, n), Row(e, n),
           \A j \in (i + 1)..n : e[j] = d[j]
    PROVE  Read(e, n) = Read(d, n) + (Read(e, i) - Read(d, i)) * Rank(n - i)
<1>. DEFINE m == n - i
            f == [j \in 1..m |-> d[i + j]]
<1>1. m \in Nat /\ i + m = n
    OBVIOUS
<1>2. \A j \in 1..m : f[j] = d[i + j] /\ f[j] = e[i + j]
    <2>1. ASSUME NEW j \in 1..m PROVE d[i + j] = e[i + j]
        BY <1>1
    <2>. QED BY <2>1
<1>3. Row(f, m)
    <2>1. ASSUME NEW j \in 1..m PROVE f[j] \in Int
        <3>1. i + j \in 1..n
            BY <1>1
        <3>. QED BY <3>1, <1>2 DEF Row
    <2>. QED BY <2>1 DEF Row
<1>. HIDE DEF f, m
<1>4. Read(d, i + m) = Read(d, i) * Rank(m) + Read(f, m)
    <2>1. Row(d, i + m) /\ Follows(f, d, i, m)
        BY <1>1, <1>2 DEF Follows
    <2>2. ReadsOn(f, d, i, m)
        BY <2>1, <1>1, ReadOn
    <2>. QED BY <2>2 DEF ReadsOn
<1>5. Read(e, i + m) = Read(e, i) * Rank(m) + Read(f, m)
    <2>1. Row(e, i + m) /\ Follows(f, e, i, m)
        BY <1>1, <1>2 DEF Follows
    <2>2. ReadsOn(f, e, i, m)
        BY <2>1, <1>1, ReadOn
    <2>. QED BY <2>2 DEF ReadsOn
<1>6. Read(d, i) \in Int /\ Read(e, i) \in Int /\ Read(f, m) \in Int /\ Rank(m) \in Int
    <2>1. Row(d, i) /\ Row(e, i)
        BY DEF Row
    <2>. QED BY <2>1, <1>1, <1>3, ReadInt, RankNext
<1>7. (Read(e, i) - Read(d, i)) * Rank(m) = Read(e, i) * Rank(m) - Read(d, i) * Rank(m)
    BY <1>6
<1>8. Read(d, i) * Rank(m) \in Int /\ Read(e, i) * Rank(m) \in Int
    BY <1>6
<1>9. Read(e, n) = Read(d, n) + (Read(e, i) - Read(d, i)) * Rank(m)
    BY <1>1, <1>4, <1>5, <1>6, <1>7, <1>8
<1>. QED BY <1>9 DEF m

(* w is a with f digits of its sign in front and b zeros behind. *)
Widens(w, a, f, b) ==
    /\ w \in Numbers /\ a \in Numbers /\ f \in Nat /\ b \in Nat
    /\ w.neg = a.neg /\ w.exp = a.exp + f
    /\ Len(w.digits) = f + Len(a.digits) + b
    /\ \A i \in 1..f : w.digits[i] = IF a.neg THEN MAX ELSE 0
    /\ \A i \in 1..Len(a.digits) : w.digits[f + i] = a.digits[i]
    /\ \A i \in 1..b : w.digits[f + Len(a.digits) + i] = 0

(* The sign repeated in front and zeros behind change the amount by a rank   *)
(* only.                                                                     *)
LEMMA Widened ==
    ASSUME NEW w, NEW a, NEW f, NEW b, Widens(w, a, f, b)
    PROVE  Bottom(w) = Bottom(a) - b /\ Amount(w) = Amount(a) * Rank(b)
<1>. DEFINE m == Len(a.digits)
            r == Read(a.digits, m)
            z == [i \in 1..b |-> 0]
<1>1. /\ m \in Nat /\ f \in Nat /\ b \in Nat /\ a.exp \in Int /\ a.neg \in BOOLEAN
      /\ w.neg = a.neg /\ w.exp = a.exp + f /\ Len(w.digits) = f + m + b
      /\ Row(w.digits, f + m + b) /\ Digits(a.digits, m) /\ r \in Int
    <2>1. a \in Numbers /\ w \in Numbers /\ Len(w.digits) = f + m + b
        BY DEF Widens
    <2>2. Row(w.digits, Len(w.digits))
        BY <2>1, NumberIs
    <2>3. m \in Nat /\ Digits(a.digits, m) /\ Row(a.digits, m) /\ a.exp \in Int /\ a.neg \in BOOLEAN
        BY <2>1, NumberIs
    <2>4. r \in Int
        BY <2>3, ReadInt
    <2>. QED BY <2>1, <2>2, <2>3, <2>4 DEF Widens
<1>2. Bottom(w) = Bottom(a) - b
    BY <1>1 DEF Bottom
<1>3. f + m \in Nat /\ Row(w.digits, f + m) /\ Row(w.digits, f)
    BY <1>1 DEF Row
<1>4. Read(w.digits, (f + m) + b) = Read(w.digits, f + m) * Rank(b) + Read(z, b)
    <2>1. Follows(z, w.digits, f + m, b)
        BY DEF Widens, Follows
    <2>2. Row(w.digits, (f + m) + b)
        BY <1>1
    <2>. HIDE DEF z, m
    <2>3. ReadsOn(z, w.digits, f + m, b)
        BY <2>1, <2>2, <1>1, <1>3, ReadOn
    <2>. QED BY <2>3 DEF ReadsOn
<1>5. Read(z, b) = 0
    <2>1. \A i \in 1..b : z[i] = 0
        OBVIOUS
    <2>. HIDE DEF z
    <2>. QED BY <2>1, <1>1, ReadZeros
<1>6. Read(w.digits, f + m) = Read(w.digits, f) * Rank(m) + r
    <2>1. Follows(a.digits, w.digits, f, m)
        BY DEF Widens, Follows
    <2>2. ReadsOn(a.digits, w.digits, f, m)
        BY <2>1, <1>1, <1>3, ReadOn
    <2>. QED BY <2>2 DEF ReadsOn
<1>7. Read(w.digits, f) = IF a.neg THEN Rank(f) - 1 ELSE 0
    <2>1. CASE a.neg
        <3>1. \A i \in 1..f : w.digits[i] = MAX
            BY <2>1 DEF Widens
        <3>. QED BY <2>1, <3>1, <1>1, ReadFull
    <2>2. CASE ~a.neg
        <3>1. \A i \in 1..f : w.digits[i] = 0
            BY <2>2 DEF Widens
        <3>. QED BY <2>2, <3>1, <1>1, ReadZeros
    <2>. QED BY <2>1, <2>2, <1>1
<1>8. /\ Rank(f) \in Nat /\ Rank(m) \in Nat /\ Rank(b) \in Nat
      /\ Rank(f + m) = Rank(f) * Rank(m) /\ Rank((f + m) + b) = Rank(f + m) * Rank(b)
    <2>1. Rank(f) \in Nat /\ Rank(m) \in Nat /\ Rank(b) \in Nat
        BY <1>1, RankNext
    <2>2. Rank(f + m) = Rank(f) * Rank(m)
        BY <1>1, RankSum
    <2>3. Rank((f + m) + b) = Rank(f + m) * Rank(b)
        BY <1>1, <1>3, RankSum
    <2>. QED BY <2>1, <2>2, <2>3
<1>9. Amount(w) = Read(w.digits, (f + m) + b) - (IF a.neg THEN Rank((f + m) + b) ELSE 0)
    BY <1>1 DEF Amount
<1>10. Amount(a) = r - (IF a.neg THEN Rank(m) ELSE 0)
    BY DEF Amount
<1>. HIDE DEF m, r, z
<1>11. CASE a.neg
    <2>1. Read(w.digits, f + m) = (Rank(f) - 1) * Rank(m) + r
        BY <1>6, <1>7, <1>11
    <2>2. (Rank(f) - 1) * Rank(m) = Rank(f) * Rank(m) - Rank(m) /\ Rank(f) * Rank(m) \in Int
        BY <1>8
    <2>3. Read(w.digits, f + m) = Rank(f + m) - Rank(m) + r /\ Rank(f + m) \in Int
        BY <2>1, <2>2, <1>8, <1>1
    <2>4. (Rank(f + m) - Rank(m) + r) * Rank(b) = Rank(f + m) * Rank(b) + (r - Rank(m)) * Rank(b)
        BY <2>3, <1>8, <1>1, SMTT(30)
    <2>5. (r - Rank(m)) * Rank(b) \in Int /\ Rank(f + m) * Rank(b) \in Int
        <3>1. r - Rank(m) \in Int /\ Rank(b) \in Int /\ Rank(f + m) \in Int
            BY <2>3, <1>8, <1>1
        <3>. QED BY <3>1
    <2>6. Amount(w) = (r - Rank(m)) * Rank(b)
        BY <1>4, <1>5, <1>8, <1>9, <1>11, <2>3, <2>4, <2>5
    <2>. QED BY <1>2, <1>10, <1>11, <2>6
<1>12. CASE ~a.neg
    <2>1. Read(w.digits, f + m) = r
        BY <1>1, <1>6, <1>7, <1>8, <1>12
    <2>2. r * Rank(b) \in Int
        BY <1>1, <1>8
    <2>3. Amount(w) = r * Rank(b)
        BY <1>4, <1>5, <1>9, <1>12, <2>1, <2>2
    <2>4. Amount(a) = r
        BY <1>1, <1>10, <1>12
    <2>. QED BY <1>2, <2>3, <2>4
<1>. QED BY <1>11, <1>12, <1>1

(* So the value stays. *)
LEMMA SameValue ==
    ASSUME NEW w, NEW a, NEW f, NEW b, Widens(w, a, f, b),
           NEW s \in Int, Bottom(w) + s >= 0
    PROVE  Bottom(a) + s >= 0 /\ Value(w, s) = Value(a, s)
<1>1. w \in Numbers /\ a \in Numbers /\ b \in Nat
    BY DEF Widens
<1>2. Bottom(w) = Bottom(a) - b /\ Amount(w) = Amount(a) * Rank(b)
    BY Widened
<1>3. Bottom(w) \in Int /\ Bottom(a) \in Int /\ Amount(a) \in Int
    BY <1>1, NumberIs
<1>4. Value(w, s) = Amount(w) * Rank(Bottom(w) + s) /\ Value(a, s) = Amount(a) * Rank(Bottom(a) + s)
    BY <1>1, ValueIs
<1>5. Bottom(w) + s \in Nat /\ b + (Bottom(w) + s) = Bottom(a) + s
    BY <1>1, <1>2, <1>3
<1>6. Rank(b + (Bottom(w) + s)) = Rank(b) * Rank(Bottom(w) + s)
    BY <1>1, <1>5, RankSum
<1>7. Rank(b) \in Nat /\ Rank(Bottom(w) + s) \in Nat
    BY <1>1, <1>5, RankNext
<1>8. (Amount(a) * Rank(b)) * Rank(Bottom(w) + s) = Amount(a) * (Rank(b) * Rank(Bottom(w) + s))
    BY <1>3, <1>7
<1>. QED BY <1>1, <1>2, <1>3, <1>4, <1>5, <1>6, <1>8

(* pad() widens every number but a sign alone (numeric.cpp:23). *)
LEMMA PadWidens ==
    ASSUME NEW a \in Numbers, NEW e \in Int, NEW end \in Int,
           a.neg => Len(a.digits) > 0, ~(SignAlone(a) /\ a.exp < e)
    PROVE  Widens(pad(a, e, end), a, Front(a, e), Back(a, end))
<1>. DEFINE w == pad(a, e, end)
<1>1. /\ w \in Numbers /\ w.neg = a.neg /\ w.exp = a.exp + Front(a, e)
      /\ Front(a, e) \in Nat /\ Back(a, end) \in Nat
      /\ Len(w.digits) = Front(a, e) + Len(a.digits) + Back(a, end)
      /\ \A i \in 1..Front(a, e) : w.digits[i] = Sign(a)
      /\ \A i \in 1..Len(a.digits) : w.digits[Front(a, e) + i] = a.digits[i]
      /\ \A i \in 1..Back(a, end) : w.digits[Front(a, e) + Len(a.digits) + i] = 0
    <2>1. Pads(w, a, e, end)
        BY Paddings
    <2>. HIDE DEF w
    <2>. QED BY <2>1 DEF Pads
<1>. HIDE DEF w
<1>2. ASSUME NEW i \in 1..Front(a, e) PROVE Sign(a) = IF a.neg THEN MAX ELSE 0
    <2>1. CASE a.neg
        <3>1. a.exp < e
            BY NumberIs, <1>1 DEF Front
        <3>2. Last(a.digits) # 0
            BY <2>1, <3>1 DEF SignAlone
        <3>3. Last(a.digits) \in Digit
            BY <2>1, NumberIs DEF Last, Digits
        <3>4. Last(a.digits) > 0
            BY <3>2, <3>3, BaseIs
        <3>. QED BY <2>1, <3>4 DEF Sign
    <2>2. CASE ~a.neg
        BY <2>2 DEF Sign
    <2>. QED BY <2>1, <2>2
<1>3. \A i \in 1..Front(a, e) : w.digits[i] = IF a.neg THEN MAX ELSE 0
    BY <1>1, <1>2
<1>4. Widens(w, a, Front(a, e), Back(a, end))
    BY <1>1, <1>3 DEF Widens
<1>. QED BY <1>4 DEF w

(* What trim() finds in front. *)
LEMMA LeadingIs ==
    ASSUME NEW a \in Numbers, Len(a.digits) > 0
    PROVE  /\ Leading(a) \in 0..(Len(a.digits) - 1)
           /\ \A i \in 1..Leading(a) : a.digits[i] = IF a.neg THEN MAX ELSE 0
           /\ Leading(a) + 1 < Len(a.digits) => a.digits[Leading(a) + 1] # IF a.neg THEN MAX ELSE 0
<1>. DEFINE S == {n \in 0..(Len(a.digits) - 1) :
                     \A i \in 1..n : a.digits[i] = IF a.neg THEN MAX ELSE 0}
<1>1. Len(a.digits) \in Nat /\ Len(a.digits) - 1 \in Int
    BY NumberIs
<1>2. S \in SUBSET (0..(Len(a.digits) - 1)) /\ S # {}
    <2>1. 0 \in S
        BY <1>1
    <2>. QED BY <2>1
<1>3. Leading(a) = Max(S)
    BY DEF Leading
<1>. HIDE DEF S
<1>4. Max(S) \in S /\ \A y \in S : y <= Max(S)
    <2>1. Upto(S, Len(a.digits) - 1)
        BY <1>1, <1>2 DEF Upto
    <2>2. Highest(Max(S), S)
        BY <2>1, <1>1, MaxIn
    <2>. QED BY <2>2 DEF Highest
<1>5. Leading(a) \in 0..(Len(a.digits) - 1)
    BY <1>2, <1>3, <1>4
<1>6. \A i \in 1..Leading(a) : a.digits[i] = IF a.neg THEN MAX ELSE 0
    BY <1>3, <1>4 DEF S
<1>7. ASSUME Leading(a) + 1 < Len(a.digits), a.digits[Leading(a) + 1] = IF a.neg THEN MAX ELSE 0
      PROVE  FALSE
    <2>1. Leading(a) + 1 \in 0..(Len(a.digits) - 1)
        BY <1>1, <1>5, <1>7
    <2>2. \A i \in 1..(Leading(a) + 1) : a.digits[i] = IF a.neg THEN MAX ELSE 0
        BY <1>5, <1>6, <1>7
    <2>3. Leading(a) + 1 \in S
        BY <2>1, <2>2 DEF S
    <2>. QED BY <1>3, <1>4, <1>5, <2>3
<1>. QED BY <1>5, <1>6, <1>7

(* What trim() finds behind. *)
LEMMA EndingIs ==
    ASSUME NEW d \in Seq(Digit), NEW from \in 1..Len(d)
    PROVE  /\ Ending(d, from) \in from..Len(d)
           /\ \A i \in (Ending(d, from) + 1)..Len(d) : d[i] = 0
           /\ Ending(d, from) > from => d[Ending(d, from)] # 0
<1>. DEFINE S == {from} \cup {i \in from..Len(d) : d[i] # 0}
<1>1. Len(d) \in Nat /\ from \in Nat
    OBVIOUS
<1>2. S \in SUBSET (from..Len(d)) /\ S # {}
    BY <1>1
<1>3. Ending(d, from) = Max(S)
    BY DEF Ending
<1>. HIDE DEF S
<1>4. Max(S) \in S /\ \A y \in S : y <= Max(S)
    <2>1. Upto(S, Len(d))
        BY <1>1, <1>2 DEF Upto
    <2>2. Highest(Max(S), S)
        BY <2>1, <1>1, MaxIn
    <2>. QED BY <2>2 DEF Highest
<1>5. Ending(d, from) \in from..Len(d)
    BY <1>2, <1>3, <1>4
<1>6. ASSUME NEW i \in (Ending(d, from) + 1)..Len(d) PROVE d[i] = 0
    <2>1. SUFFICES ASSUME d[i] # 0 PROVE FALSE
        OBVIOUS
    <2>2. i \in from..Len(d) /\ i > Ending(d, from)
        BY <1>1, <1>5
    <2>3. i \in S
        BY <2>1, <2>2 DEF S
    <2>. QED BY <1>1, <1>3, <1>4, <1>5, <2>2, <2>3
<1>7. ASSUME Ending(d, from) > from PROVE d[Ending(d, from)] # 0
    BY <1>1, <1>3, <1>4, <1>5, <1>7 DEF S
<1>. QED BY <1>5, <1>6, <1>7

(* What trim leaves out in front and behind. *)
Behind(a) == Len(a.digits) - Ending(a.digits, Leading(a) + 1)

(* trim() undoes a widening, and leaves a trimmed number. *)
LEMMA TrimIs ==
    ASSUME NEW a \in Numbers, Len(a.digits) > 0
    PROVE  /\ Widens(a, trim(a), Leading(a), Behind(a))
           /\ Trimmed(trim(a))
<1>. DEFINE m == Len(a.digits)
            f == Leading(a)
            l == Ending(a.digits, f + 1)
            t == trim(a)
            r == SubSeq(a.digits, f + 1, l)
<1>1. /\ a.neg \in BOOLEAN /\ a.exp \in Int /\ a.digits \in Seq(Digit) /\ m \in Nat
    BY NumberIs
<1>2. /\ f \in 0..(m - 1)
      /\ \A i \in 1..f : a.digits[i] = IF a.neg THEN MAX ELSE 0
      /\ f + 1 < m => a.digits[f + 1] # IF a.neg THEN MAX ELSE 0
    BY LeadingIs
<1>3. f + 1 \in 1..m
    BY <1>1, <1>2
<1>4. l \in (f + 1)..m /\ (\A i \in (l + 1)..m : a.digits[i] = 0) /\ (l > f + 1 => a.digits[l] # 0)
    BY <1>1, <1>3, EndingIs
<1>5. t = [neg |-> a.neg, exp |-> a.exp - f, digits |-> r]
    <2>1. a = [neg |-> a.neg, exp |-> a.exp, digits |-> a.digits]
        BY DEF Numbers
    <2>2. t = [a EXCEPT !.exp = a.exp - f, !.digits = r]
        BY DEF trim
    <2>. HIDE DEF r, t, f
    <2>. QED BY <2>1, <2>2
<1>6. Behind(a) = m - l
    BY DEF Behind
<1>. HIDE DEF f, l, t
<1>7. Len(r) = l - f /\ r \in Seq(Digit) /\ \A i \in 1..(l - f) : r[i] = a.digits[f + i]
    <2>1. f \in Int /\ l \in Int /\ f + 1 <= l + 1
        BY <1>1, <1>2, <1>4
    <2>2. \A i \in (f + 1)..l : a.digits[i] \in Digit
        BY <1>1, <1>2, <1>4
    <2>3. /\ r \in Seq(Digit)
          /\ Len(r) = IF f + 1 <= l THEN l - (f + 1) + 1 ELSE 0
          /\ \A i \in 1..(l - (f + 1) + 1) : r[i] = a.digits[(f + 1) + i - 1]
        BY <1>1, <2>1, <2>2, SubSeqProperties
    <2>4. l - (f + 1) + 1 = l - f /\ f + 1 <= l /\ \A i \in Int : (f + 1) + i - 1 = f + i
        BY <1>1, <1>2, <1>4
    <2>. HIDE DEF r
    <2>5. ASSUME NEW i \in 1..(l - f) PROVE r[i] = a.digits[f + i]
        <3>1. i \in 1..(l - (f + 1) + 1) /\ (f + 1) + i - 1 = f + i
            BY <2>1, <2>4
        <3>. QED BY <2>3, <3>1
    <2>. QED BY <2>3, <2>4, <2>5
<1>. HIDE DEF r
<1>8. t \in Numbers /\ t.neg = a.neg /\ t.exp = a.exp - f /\ t.digits = r
    <2>1. a.exp - f \in Int
        BY <1>1, <1>2
    <2>. QED BY <1>1, <1>5, <1>7, <2>1 DEF Numbers
<1>9. Widens(a, t, f, m - l)
    <2>1. f \in Nat /\ m - l \in Nat
        BY <1>1, <1>2, <1>4
    <2>2. a.exp = (a.exp - f) + f /\ m = f + (l - f) + (m - l)
        BY <1>1, <1>2, <1>4
    <2>3. \A i \in 1..Len(r) : a.digits[f + i] = r[i]
        BY <1>7
    <2>4. ASSUME NEW i \in 1..(m - l) PROVE a.digits[f + Len(r) + i] = 0
        <3>1. f + Len(r) + i = l + i /\ l + i \in (l + 1)..m
            BY <1>1, <1>2, <1>4, <1>7
        <3>. QED BY <1>4, <3>1
    <2>. QED BY <1>2, <1>7, <1>8, <2>1, <2>2, <2>3, <2>4 DEF Widens
<1>10. Trimmed(t)
    <2>1. t \in [neg : BOOLEAN, exp : Int, digits : Seq(Digit)]
        BY <1>8 DEF Numbers
    <2>2. Len(t.digits) > 0
        BY <1>1, <1>2, <1>4, <1>7, <1>8
    <2>3. ASSUME Len(t.digits) > 1
          PROVE  Last(t.digits) # 0 /\ t.digits[1] # IF a.neg THEN MAX ELSE 0
        <3>1. l > f + 1 /\ f + 1 < m /\ l - f \in 1..(l - f) /\ f + (l - f) = l /\ 1 \in 1..(l - f)
            BY <1>1, <1>2, <1>4, <1>7, <1>8, <2>3, SMTT(30)
        <3>2. r[l - f] = a.digits[l] /\ r[1] = a.digits[f + 1]
            BY <1>7, <3>1
        <3>. QED BY <1>2, <1>4, <1>7, <1>8, <3>1, <3>2 DEF Last
    <2>. QED BY <2>1, <2>2, <2>3, <1>8 DEF Trimmed
<1>. QED BY <1>6, <1>9, <1>10 DEF f, t

(* A trimmed number has a digit. *)
LEMMA TrimmedIs ==
    ASSUME NEW a, Trimmed(a)
    PROVE  a \in Numbers /\ Len(a.digits) > 0
BY DEF Trimmed, Numbers

(* trim() does not make room. *)
LEMMA TrimFits ==
    ASSUME NEW a \in Numbers, Len(a.digits) > 0
    PROVE  /\ trim(a) \in Numbers /\ trim(a).neg = a.neg /\ trim(a).exp <= a.exp
           /\ Bottom(trim(a)) >= Bottom(a)
<1>1. Widens(a, trim(a), Leading(a), Behind(a))
    BY TrimIs
<1>2. Bottom(a) = Bottom(trim(a)) - Behind(a)
    BY <1>1, Widened
<1>3. trim(a) \in Numbers /\ Behind(a) \in Nat /\ Leading(a) \in Nat
    BY <1>1 DEF Widens
<1>4. Bottom(trim(a)) \in Int /\ trim(a).exp \in Int
    BY <1>3, NumberIs
<1>5. trim(a).neg = a.neg /\ a.exp = trim(a).exp + Leading(a)
    BY <1>1 DEF Widens
<1>. QED BY <1>2, <1>3, <1>4, <1>5

(* trim() leaves the value. *)
LEMMA TrimValue ==
    ASSUME NEW a \in Numbers, Len(a.digits) > 0, NEW s \in Int, Bottom(a) + s >= 0
    PROVE  Value(trim(a), s) = Value(a, s)
BY TrimIs, SameValue

-------------------------------------------------------------------------------
(* A carry, or a borrow, into the digits above a place *)

Carries(full, one) == (full = MAX /\ one = 1) \/ (full = 0 /\ one = -1)

(* A carry changes a full digit to the other end, and any other by one. *)
LEMMA CarryIs ==
    ASSUME NEW full, NEW one, Carries(full, one)
    PROVE  /\ full \in Digit /\ one \in Int /\ (full + one) % Base = full + one - one * Base
           /\ \A d \in Digit : /\ (d + one) % Base \in Digit
                               /\ d # full => (d + one) % Base = d + one
<1>1. Base \in Nat /\ Base > 3 /\ MAX = Base - 1 /\ Digit = 0..MAX
    BY BaseIs
<1>2. \A n \in Int : n % Base \in 0..(Base - 1)
    BY <1>1
<1>3. \A n \in 0..(Base - 1) : n % Base = n
    BY <1>1
<1>4. CASE full = MAX /\ one = 1
    <2>1. full + one = Base /\ Base % Base = 0 /\ full + one - one * Base = 0
        BY <1>1, <1>4
    <2>2. (full + one) % Base = full + one - one * Base
        BY <2>1
    <2>3. ASSUME NEW d \in Digit
          PROVE (d + one) % Base \in Digit /\ (d # full => (d + one) % Base = d + one)
        <3>1. d + one \in Int /\ (d # full => d + one \in 0..(Base - 1))
            BY <1>1, <1>4
        <3>. QED BY <3>1, <1>1, <1>2, <1>3
    <2>. QED BY <1>1, <1>4, <2>2, <2>3
<1>5. CASE full = 0 /\ one = -1
    <2>1. full + one = -1 /\ (-1) % Base = Base - 1 /\ full + one - one * Base = Base - 1
        BY <1>1, <1>5
    <2>2. (full + one) % Base = full + one - one * Base
        BY <2>1
    <2>3. ASSUME NEW d \in Digit
          PROVE (d + one) % Base \in Digit /\ (d # full => (d + one) % Base = d + one)
        <3>1. d + one \in Int /\ (d # full => d + one \in 0..(Base - 1))
            BY <1>1, <1>5
        <3>. QED BY <3>1, <1>1, <1>2, <1>3
    <2>. QED BY <1>1, <1>5, <2>2, <2>3
<1>. QED BY <1>4, <1>5 DEF Carries

(* A function from places to digits is a sequence. *)
LEMMA MadeSeq ==
    ASSUME NEW n \in Nat, NEW f \in [1..n -> Digit]
    PROVE  f \in Seq(Digit) /\ Len(f) = n
OBVIOUS

(* The first digits of a sequence. *)
LEMMA SeqRow ==
    ASSUME NEW d \in Seq(Digit), NEW n \in Nat, n <= Len(d)
    PROVE  Row(d, n) /\ Digits(d, n)
<1>1. \A i \in 1..n : d[i] \in Digit
    OBVIOUS
<1>. QED BY <1>1, BaseIs DEF Row, Digits

(* PlusOne digit by digit. *)
LEMMA PlusOneIs ==
    ASSUME NEW d \in Seq(Digit), NEW i \in Int, NEW full, NEW one, Carries(full, one)
    PROVE  /\ PlusOne(d, i, full, one) \in Seq(Digit)
           /\ Len(PlusOne(d, i, full, one)) = Len(d)
           /\ \A j \in 1..Len(d) : PlusOne(d, i, full, one)[j] =
                  IF j < i /\ Reaches(d, full, j, i) THEN (d[j] + one) % Base ELSE d[j]
<1>1. \A n \in Digit : (n + one) % Base \in Digit
    BY CarryIs
<1>2. DOMAIN d = 1..Len(d) /\ Len(d) \in Nat /\ \A j \in 1..Len(d) : d[j] \in Digit
    OBVIOUS
<1>. DEFINE u == [j \in 1..Len(d) |-> IF j < i /\ Reaches(d, full, j, i)
                                      THEN (d[j] + one) % Base ELSE d[j]]
<1>3. PlusOne(d, i, full, one) = u
    BY <1>2 DEF PlusOne
<1>4. \A j \in 1..Len(d) : u[j] \in Digit
    BY <1>1, <1>2
<1>5. u \in Seq(Digit) /\ Len(u) = Len(d)
    BY <1>2, <1>4
<1>. QED BY <1>3, <1>5

(* Where the carry does not go out, the digits above stand for one more;     *)
(* where it does, for one more less the rank above.                          *)
LEMMA CarryRead ==
    ASSUME NEW d \in Seq(Digit), NEW i \in 1..Len(d), NEW full, NEW one, Carries(full, one)
    PROVE  Read(PlusOne(d, i, full, one), i - 1)
           = Read(d, i - 1) + one - (IF Out(d, i, full) THEN one * Rank(i - 1) ELSE 0)
<1>. DEFINE P(k) == PlusOne(d, k, full, one)
            Right(k) == Read(P(k + 1), k)
                        = Read(d, k) + one - (IF Out(d, k + 1, full) THEN one * Rank(k) ELSE 0)
            N == {k \in Nat : k < Len(d) => Right(k)}
<1>0. /\ full \in Digit /\ one \in Int /\ (full + one) % Base = full + one - one * Base
      /\ \A n \in Digit : n # full => (n + one) % Base = n + one
    BY CarryIs
<1>1. /\ Len(d) \in Nat /\ (\A j \in 1..Len(d) : d[j] \in Digit /\ d[j] \in Int)
      /\ Base \in Nat /\ full \in Int
    BY BaseIs, <1>0
<1>2. 0 \in N
    <2>1. Out(d, 1, full)
        BY DEF Out, Reaches
    <2>. QED BY <2>1, <1>0, ReadZero, Ranks0
<1>3. ASSUME NEW k \in N PROVE k + 1 \in N
    <2>1. SUFFICES ASSUME k + 1 < Len(d) PROVE Right(k + 1)
        OBVIOUS
    <2>2. k \in Nat /\ Right(k)
        BY <2>1, <1>1
    <2>. DEFINE u == P(k + 2)
                v == P(k + 1)
    <2>3. k + 1 \in 1..Len(d) /\ k + 2 \in Int
        BY <2>1, <2>2
    <2>4. /\ u \in Seq(Digit) /\ Len(u) = Len(d)
          /\ \A j \in 1..Len(d) : u[j] =
                 IF j < k + 2 /\ Reaches(d, full, j, k + 2) THEN (d[j] + one) % Base ELSE d[j]
        BY <2>3, PlusOneIs
    <2>5. /\ v \in Seq(Digit) /\ Len(v) = Len(d)
          /\ \A j \in 1..Len(d) : v[j] =
                 IF j < k + 1 /\ Reaches(d, full, j, k + 1) THEN (d[j] + one) % Base ELSE d[j]
        BY <2>3, PlusOneIs
    <2>6. Row(d, k) /\ Row(d, k + 1)
        BY <1>1, <2>3 DEF Row
    <2>. HIDE DEF u, v
    <2>7. Row(u, k + 1) /\ Row(v, k)
        BY <2>2, <2>3, <2>4, <2>5, SeqRow
    <2>8. Read(d, k) \in Int /\ Read(d, k + 1) = Read(d, k) * Base + d[k + 1] /\ d[k + 1] \in Digit
        BY <2>2, <2>3, <2>6, <1>1, ReadNext
    <2>9. Read(u, k + 1) = Read(u, k) * Base + u[k + 1]
        BY <2>2, <2>7, ReadNext
    <2>10. Rank(k) \in Nat /\ Rank(k + 1) = Base * Rank(k)
        BY <2>2, RankNext
    <2>11. u[k + 1] = (d[k + 1] + one) % Base
        <3>1. k + 1 < k + 2 /\ Reaches(d, full, k + 1, k + 2)
            BY <2>2 DEF Reaches
        <3>. QED BY <2>3, <2>4, <3>1
    <2>12. Read(v, k) = Read(d, k) + one - (IF Out(d, k + 1, full) THEN one * Rank(k) ELSE 0)
        BY <2>2 DEF v
    <2>13. CASE d[k + 1] = full
        <3>1. ASSUME NEW j \in 0..k
              PROVE  Reaches(d, full, j, k + 2) <=> Reaches(d, full, j, k + 1)
            <4>1. (j + 1)..((k + 2) - 1) = ((j + 1)..((k + 1) - 1)) \cup {k + 1}
                BY <2>2
            <4>. QED BY <4>1, <2>13 DEF Reaches
        <3>2. ASSUME NEW j \in 1..k PROVE u[j] = v[j]
            <4>1. j \in 1..Len(d) /\ j < k + 2 /\ j < k + 1 /\ j \in 0..k
                BY <2>2, <2>3
            <4>. QED BY <4>1, <3>1, <2>4, <2>5
        <3>3. Read(u, k) = Read(v, k)
            BY <3>2, <2>2, <2>7, ReadSame
        <3>4. Out(d, k + 2, full) <=> Out(d, k + 1, full)
            <4>1. 0 \in 0..k
                BY <2>2
            <4>. QED BY <4>1, <3>1 DEF Out
        <3>5. u[k + 1] = full + one - one * Base
            BY <2>11, <2>13, <1>0
        <3>. DEFINE o == IF Out(d, k + 1, full) THEN one * Rank(k) ELSE 0
                    q == IF Out(d, k + 2, full) THEN one * Rank(k + 1) ELSE 0
        <3>6. o \in Int /\ q = o * Base
            <4>1. one * Rank(k) \in Int /\ (one * Rank(k)) * Base = one * (Base * Rank(k))
                BY <2>10, <1>0, <1>1
            <4>. QED BY <4>1, <3>4, <2>10, <1>1
        <3>7. Read(v, k) = Read(d, k) + one - o
            BY <2>12
        <3>. HIDE DEF o, q
        <3>8. (Read(d, k) + one - o) * Base = Read(d, k) * Base + one * Base - o * Base
            BY <3>6, <2>8, <1>0, <1>1
        <3>9. Read(d, k) * Base \in Int /\ one * Base \in Int /\ o * Base \in Int
            BY <3>6, <2>8, <1>0, <1>1
        <3>10. Read(u, k + 1) = Read(d, k + 1) + one - q
            BY <3>3, <3>5, <3>6, <3>7, <3>8, <3>9, <2>8, <2>9, <2>13, <1>0, <1>1
        <3>11. (k + 1) + 1 = k + 2
            BY <2>2
        <3>. QED BY <3>10, <3>11 DEF q, u
    <2>14. CASE d[k + 1] # full
        <3>1. ASSUME NEW j \in 0..k PROVE ~Reaches(d, full, j, k + 2)
            <4>1. k + 1 \in (j + 1)..((k + 2) - 1)
                BY <2>2
            <4>. QED BY <4>1, <2>14 DEF Reaches
        <3>2. ASSUME NEW j \in 1..k PROVE u[j] = d[j]
            <4>1. j \in 1..Len(d) /\ j \in 0..k
                BY <2>2, <2>3
            <4>. QED BY <4>1, <3>1, <2>4
        <3>3. Read(u, k) = Read(d, k)
            BY <3>2, <2>2, <2>6, ReadSame
        <3>4. ~Out(d, k + 2, full)
            <4>1. 0 \in 0..k
                BY <2>2
            <4>. QED BY <4>1, <3>1 DEF Out
        <3>5. u[k + 1] = d[k + 1] + one
            BY <2>8, <2>11, <2>14, <1>0
        <3>6. Read(d, k) * Base \in Int /\ d[k + 1] \in Int
            BY <2>8, <2>3, <1>1
        <3>7. Read(u, k + 1) = Read(d, k + 1) + one
            BY <3>3, <3>5, <3>6, <2>8, <2>9, <1>0
        <3>8. (k + 1) + 1 = k + 2 /\ Read(d, k + 1) \in Int
            BY <2>2, <2>8, <3>6
        <3>. QED BY <3>4, <3>7, <3>8, <1>0 DEF u
    <2>. QED BY <2>13, <2>14
<1>4. N = Nat
    <2>1. N \in SUBSET Nat
        OBVIOUS
    <2>. HIDE DEF N
    <2>. QED BY <1>2, <1>3, <2>1, AllNaturals
<1>5. i - 1 \in Nat /\ i - 1 < Len(d) /\ (i - 1) + 1 = i
    OBVIOUS
<1>6. Right(i - 1)
    <2>1. i - 1 \in N
        BY <1>4, <1>5
    <2>. QED BY <2>1, <1>5
<1>. QED BY <1>5, <1>6

(* A digit is put at place i of d. *)
Placed(e, d, i, v) ==
    /\ e \in Seq(Digit) /\ Len(e) = Len(d) /\ e[i] = v
    /\ \A j \in 1..Len(d) : j # i => e[j] = d[j]
    /\ Read(e, i - 1) = Read(d, i - 1)
    /\ Read(e, Len(d)) = Read(d, Len(d)) + (v - d[i]) * Rank(Len(d) - i)

(* One digit is written. *)
LEMMA PlaceRead ==
    ASSUME NEW d \in Seq(Digit), NEW i \in 1..Len(d), NEW v \in Digit
    PROVE  Placed([d EXCEPT ![i] = v], d, i, v)
<1>. DEFINE e == [d EXCEPT ![i] = v]
<1>1. /\ e \in Seq(Digit) /\ Len(e) = Len(d) /\ e[i] = v
      /\ \A j \in 1..Len(d) : j # i => e[j] = d[j]
    OBVIOUS
<1>. HIDE DEF e
<1>2. i - 1 \in Nat /\ (i - 1) + 1 = i /\ i - 1 <= Len(d) /\ Len(d) \in Nat /\ i \in Nat /\ i <= Len(d)
    OBVIOUS
<1>3. Row(d, i - 1) /\ Row(d, i) /\ Row(e, i) /\ Row(d, Len(d)) /\ Row(e, Len(d))
    BY <1>1, <1>2, SeqRow
<1>4. Read(e, i - 1) = Read(d, i - 1)
    <2>1. \A j \in 1..(i - 1) : e[j] = d[j]
        BY <1>1, <1>2
    <2>. QED BY <2>1, <1>2, <1>3, ReadSame
<1>5. Read(d, (i - 1) + 1) = Read(d, i - 1) * Base + d[(i - 1) + 1] /\ Read(d, i - 1) \in Int
    BY <1>2, <1>3, ReadNext
<1>6. Read(e, (i - 1) + 1) = Read(e, i - 1) * Base + e[(i - 1) + 1]
    BY <1>2, <1>3, ReadNext
<1>7. v \in Int /\ d[i] \in Int /\ Read(d, i - 1) * Base \in Int
    <2>1. d[i] \in Digit
        OBVIOUS
    <2>. QED BY <2>1, <1>5, BaseIs
<1>8. Read(e, i) - Read(d, i) = v - d[i]
    BY <1>1, <1>2, <1>4, <1>5, <1>6, <1>7
<1>9. Read(e, Len(d)) = Read(d, Len(d)) + (Read(e, i) - Read(d, i)) * Rank(Len(d) - i)
    <2>1. \A j \in (i + 1)..Len(d) : e[j] = d[j]
        BY <1>1, <1>2
    <2>. QED BY <2>1, <1>2, <1>3, ReadChanged
<1>10. Placed(e, d, i, v)
    BY <1>1, <1>4, <1>8, <1>9 DEF Placed
<1>. QED BY <1>10 DEF e

(* A digit that overflows, and its carry. *)
LEMMA CarriedRead ==
    ASSUME NEW d \in Seq(Digit), NEW i \in 1..Len(d), NEW v \in Digit, NEW e, Placed(e, d, i, v),
           NEW full, NEW one, Carries(full, one), NEW u, u = PlusOne(e, i, full, one)
    PROVE  /\ u \in Seq(Digit) /\ Len(u) = Len(d)
           /\ Read(u, Len(d)) = Read(d, Len(d)) + (v - d[i] + one * Base) * Rank(Len(d) - i)
                                - (IF Out(e, i, full) THEN one * Rank(Len(d)) ELSE 0)
<1>1. /\ e \in Seq(Digit) /\ Len(e) = Len(d) /\ e[i] = v
      /\ (\A j \in 1..Len(d) : j # i => e[j] = d[j])
      /\ Read(e, i - 1) = Read(d, i - 1)
    BY DEF Placed
<1>2. /\ i - 1 \in Nat /\ (i - 1) + 1 = i /\ i - 1 <= Len(d) /\ Len(d) \in Nat /\ i \in Nat
      /\ i <= Len(d) /\ Len(d) - i \in Nat /\ i + (Len(d) - i) = Len(d)
    OBVIOUS
<1>3. one \in Int /\ Base \in Nat
    BY CarryIs, BaseIs
<1>4. /\ u \in Seq(Digit) /\ Len(u) = Len(d)
      /\ \A j \in 1..Len(d) : j >= i => u[j] = e[j]
    <2>1. /\ PlusOne(e, i, full, one) \in Seq(Digit)
          /\ Len(PlusOne(e, i, full, one)) = Len(e)
          /\ \A j \in 1..Len(e) : PlusOne(e, i, full, one)[j] =
                 IF j < i /\ Reaches(e, full, j, i) THEN (e[j] + one) % Base ELSE e[j]
        BY <1>1, <1>2, PlusOneIs
    <2>. QED BY <2>1, <1>1, <1>2
<1>5. Read(u, i - 1) = Read(d, i - 1) + one - (IF Out(e, i, full) THEN one * Rank(i - 1) ELSE 0)
    <2>1. i \in 1..Len(e)
        BY <1>1
    <2>2. Read(PlusOne(e, i, full, one), i - 1)
          = Read(e, i - 1) + one - (IF Out(e, i, full) THEN one * Rank(i - 1) ELSE 0)
        BY <2>1, <1>1, CarryRead
    <2>. QED BY <2>2, <1>1
<1>6. Row(d, i) /\ Row(u, i) /\ Row(d, Len(d)) /\ Row(u, Len(d))
    BY <1>2, <1>4, SeqRow
<1>7. Read(d, (i - 1) + 1) = Read(d, i - 1) * Base + d[(i - 1) + 1] /\ Read(d, i - 1) \in Int
    BY <1>2, <1>6, ReadNext
<1>8. Read(u, (i - 1) + 1) = Read(u, i - 1) * Base + u[(i - 1) + 1]
    BY <1>2, <1>6, ReadNext
<1>9. u[i] = v /\ v \in Int /\ d[i] \in Int
    <2>1. d[i] \in Digit
        OBVIOUS
    <2>. QED BY <2>1, <1>1, <1>2, <1>4, BaseIs, SMTT(30)
<1>. DEFINE o == IF Out(e, i, full) THEN one * Rank(i - 1) ELSE 0
            q == IF Out(e, i, full) THEN one * Rank(i) ELSE 0
            l == IF Out(e, i, full) THEN one * Rank(Len(d)) ELSE 0
            n == Len(d) - i
<1>10. /\ Rank(i - 1) \in Nat /\ Rank(i) = Base * Rank(i - 1) /\ Rank(n) \in Nat
       /\ Rank(Len(d)) = Rank(i) * Rank(n)
    <2>1. Rank(i - 1) \in Nat /\ Rank((i - 1) + 1) = Base * Rank(i - 1)
        BY <1>2, RankNext
    <2>2. Rank(i + (Len(d) - i)) = Rank(i) * Rank(Len(d) - i)
        BY <1>2, RankSum
    <2>3. Rank(n) \in Nat
        BY <1>2, RankNext
    <2>. QED BY <2>1, <2>2, <2>3, <1>2
<1>11. o \in Int /\ q = o * Base /\ q \in Int /\ l = q * Rank(n)
    <2>1. one * Rank(i - 1) \in Int /\ (one * Rank(i - 1)) * Base = one * (Base * Rank(i - 1))
        BY <1>3, <1>10
    <2>2. one * Rank(i) \in Int /\ (one * Rank(i)) * Rank(n) = one * (Rank(i) * Rank(n))
        BY <1>3, <1>10
    <2>. HIDE DEF n
    <2>3. CASE Out(e, i, full)
        <3>1. o = one * Rank(i - 1) /\ q = one * Rank(i) /\ l = one * Rank(Len(d))
            BY <2>3
        <3>. HIDE DEF o, q, l
        <3>2. q = o * Base
            BY <3>1, <2>1, <1>10
        <3>3. l = q * Rank(n)
            BY <3>1, <2>2, <1>10
        <3>. QED BY <3>1, <3>2, <3>3, <2>1, <2>2
    <2>4. CASE ~Out(e, i, full)
        <3>1. o = 0 /\ q = 0 /\ l = 0
            BY <2>4
        <3>. HIDE DEF o, q, l
        <3>. QED BY <3>1, <1>10, BaseIs
    <2>. QED BY <2>3, <2>4
<1>12. Read(u, i - 1) = Read(d, i - 1) + one - o
    BY <1>5
<1>. HIDE DEF o, q
<1>13. (Read(d, i - 1) + one - o) * Base = Read(d, i - 1) * Base + one * Base - q
    BY <1>3, <1>7, <1>11
<1>14. Read(d, i - 1) * Base \in Int /\ one * Base \in Int
    BY <1>3, <1>7
<1>15. Read(u, i) - Read(d, i) = (v - d[i] + one * Base) - q
    <2>1. Read(d, i) = Read(d, i - 1) * Base + d[i] /\ Read(u, i) = Read(u, i - 1) * Base + v
        BY <1>2, <1>7, <1>8, <1>9
    <2>2. Read(u, i) = (Read(d, i - 1) * Base + one * Base - q) + v
        BY <2>1, <1>12, <1>13
    <2>. QED BY <2>1, <2>2, <1>9, <1>11, <1>14, SMTT(30)
<1>16. Read(u, Len(d)) = Read(d, Len(d)) + (Read(u, i) - Read(d, i)) * Rank(n)
    <2>1. ASSUME NEW j \in (i + 1)..Len(d) PROVE u[j] = d[j]
        <3>1. j \in 1..Len(d) /\ j # i /\ j >= i
            BY <1>2
        <3>. QED BY <3>1, <1>1, <1>4
    <2>. QED BY <2>1, <1>2, <1>6, ReadChanged
<1>. HIDE DEF l, n
<1>. DEFINE c == v - d[i] + one * Base
<1>17. c \in Int
    BY <1>9, <1>14
<1>18. (c - q) * Rank(n) = c * Rank(n) - l /\ c * Rank(n) \in Int /\ l \in Int
    <2>. HIDE DEF c
    <2>1. q * Rank(n) \in Int /\ c * Rank(n) \in Int
        BY <1>10, <1>11, <1>17
    <2>2. (c - q) * Rank(n) = c * Rank(n) - q * Rank(n)
        BY <1>10, <1>11, <1>17
    <2>. QED BY <2>1, <2>2, <1>11
<1>19. Read(d, Len(d)) \in Int
    BY <1>2, <1>6, ReadInt
<1>20. Read(u, Len(d)) = Read(d, Len(d)) + c * Rank(n) - l
    <2>1. Read(u, i) - Read(d, i) = c - q
        BY <1>15
    <2>. HIDE DEF c
    <2>. QED BY <2>1, <1>16, <1>18, <1>19
<1>. QED BY <1>4, <1>20 DEF l, n

(* f is d with the digit v in front. *)
Leads(f, v, d) ==
    /\ f \in Seq(Digit) /\ Len(f) = Len(d) + 1
    /\ Read(f, Len(d) + 1) = v * Rank(Len(d)) + Read(d, Len(d))

(* One more digit in front. *)
LEMMA FirstDigit ==
    ASSUME NEW d \in Seq(Digit), NEW v \in Digit
    PROVE  Leads(<<v>> \o d, v, d)
<1>. DEFINE w == <<v>> \o d
<1>1. /\ w \in Seq(Digit) /\ Len(w) = Len(d) + 1 /\ w[1] = v /\ Len(d) \in Nat
      /\ \A i \in 1..Len(d) : w[1 + i] = d[i]
    OBVIOUS
<1>. HIDE DEF w
<1>2. Row(w, 1) /\ Row(w, 1 + Len(d))
    BY <1>1, SeqRow
<1>3. ReadsOn(d, w, 1, Len(d))
    <2>1. Follows(d, w, 1, Len(d))
        BY <1>1 DEF Follows
    <2>. QED BY <2>1, <1>1, <1>2, ReadOn
<1>4. Read(w, 1) = v
    <2>1. Row(w, 0 + 1) /\ 0 \in Nat
        BY <1>2
    <2>2. Read(w, 0 + 1) = Read(w, 0) * Base + w[0 + 1]
        BY <2>1, ReadNext
    <2>3. Read(w, 0) = 0 /\ 0 + 1 = 1 /\ 0 * Base = 0 /\ v \in Int
        BY ReadZero, BaseIs
    <2>. QED BY <2>2, <2>3, <1>1
<1>5. Read(w, Len(d) + 1) = v * Rank(Len(d)) + Read(d, Len(d))
    <2>1. 1 + Len(d) = Len(d) + 1
        BY <1>1
    <2>. QED BY <2>1, <1>3, <1>4 DEF ReadsOn
<1>6. Leads(w, v, d)
    BY <1>1, <1>5 DEF Leads
<1>. QED BY <1>6 DEF w

-------------------------------------------------------------------------------
(* A digit is added or subtracted *)

(* A number with one more digit in front. *)
LEMMA OneMoreDigit ==
    ASSUME NEW w \in Numbers, NEW d \in Seq(Digit), NEW v \in Digit, NEW y \in Numbers,
           y.exp = w.exp + 1, Leads(y.digits, v, d), Len(d) = Len(w.digits)
    PROVE  /\ Len(y.digits) = Len(d) + 1 /\ Bottom(y) = Bottom(w)
           /\ Amount(y) = v * Rank(Len(d)) + Read(d, Len(d))
                          - (IF y.neg THEN Base * Rank(Len(d)) ELSE 0)
<1>1. /\ y.digits \in Seq(Digit) /\ Len(y.digits) = Len(d) + 1
      /\ Read(y.digits, Len(d) + 1) = v * Rank(Len(d)) + Read(d, Len(d))
    BY DEF Leads
<1>2. w.exp \in Int /\ Len(d) \in Nat
    BY NumberIs
<1>3. Rank(Len(d) + 1) = Base * Rank(Len(d))
    BY <1>2, RankNext
<1>4. Bottom(y) = Bottom(w)
    <2>1. Len(y.digits) = Len(w.digits) + 1 /\ Len(w.digits) \in Int
        BY <1>1, <1>2
    <2>2. (w.exp + 1) - (Len(w.digits) + 1) + 1 = w.exp - Len(w.digits) + 1
        BY <2>1, <1>2, SMTT(30)
    <2>. QED BY <2>1, <2>2 DEF Bottom
<1>5. Amount(y) = v * Rank(Len(d)) + Read(d, Len(d)) - (IF y.neg THEN Base * Rank(Len(d)) ELSE 0)
    <2>. DEFINE n == Len(d) + 1
    <2>1. Len(y.digits) = n
        BY <1>1
    <2>2. Read(y.digits, n) = v * Rank(Len(d)) + Read(d, Len(d)) /\ Rank(n) = Base * Rank(Len(d))
        BY <1>1, <1>3
    <2>3. Amount(y) = Read(y.digits, n) - (IF y.neg THEN Rank(n) ELSE 0)
        <3>. HIDE DEF n
        <3>. QED BY <2>1 DEF Amount
    <2>. HIDE DEF n
    <2>4. /\ v \in Int /\ Base \in Int /\ Rank(Len(d)) \in Int /\ Read(d, Len(d)) \in Int
          /\ v * Rank(Len(d)) \in Int /\ Base * Rank(Len(d)) \in Int
        <3>1. v \in Int /\ Base \in Int /\ Rank(Len(d)) \in Int
            <4>1. v \in Int /\ Base \in Int
                BY BaseIs
            <4>2. Rank(Len(d)) \in Nat
                BY <1>2, RankNext
            <4>. QED BY <4>1, <4>2
        <3>2. Read(d, Len(d)) \in Int
            BY <1>2, SeqRow, ReadInt
        <3>3. v * Rank(Len(d)) \in Int /\ Base * Rank(Len(d)) \in Int
            BY <3>1
        <3>. QED BY <3>1, <3>2, <3>3
    <2>. QED BY <2>2, <2>3, <2>4
<1>. QED BY <1>1, <1>4, <1>5

(* w has a place for the rank e, and is not above it. *)
PlaceOf(w, e) == w.exp - e + 1
HasPlace(w, e) ==
    /\ w \in Numbers /\ PlaceOf(w, e) \in 1..Len(w.digits)
    /\ Len(w.digits) - PlaceOf(w, e) = e - Bottom(w)

(* After pad() there is a digit of the rank asked for. *)
LEMMA PadPlace ==
    ASSUME NEW a \in Numbers, NEW e \in Int
    PROVE  /\ HasPlace(pad(a, e, e), e)
           /\ pad(a, e, e).exp = (IF e > a.exp THEN e ELSE a.exp)
           /\ Bottom(pad(a, e, e)) = (IF Bottom(a) > e THEN e ELSE Bottom(a))
           /\ pad(a, e, e).neg = a.neg
<1>. DEFINE w == pad(a, e, e)
<1>1. /\ w \in Numbers /\ w.neg = a.neg /\ w.exp = a.exp + Front(a, e)
      /\ Bottom(w) = Bottom(a) - Back(a, e)
    <2>1. Pads(w, a, e, e)
        BY Paddings
    <2>. HIDE DEF w
    <2>. QED BY <2>1 DEF Pads
<1>. HIDE DEF w
<1>2. a.exp \in Int /\ Bottom(a) \in Int /\ Len(w.digits) \in Nat
    BY <1>1, NumberIs
<1>3. w.exp = (IF e > a.exp THEN e ELSE a.exp)
    BY <1>1, <1>2 DEF Front
<1>4. Bottom(w) = (IF Bottom(a) > e THEN e ELSE Bottom(a))
    BY <1>1, <1>2 DEF Back
<1>5. w.exp >= e /\ w.exp \in Int /\ Bottom(w) <= e /\ Bottom(w) = w.exp - Len(w.digits) + 1
    BY <1>2, <1>3, <1>4 DEF Bottom
<1>6. HasPlace(w, e)
    BY <1>1, <1>2, <1>5, SMTT(30) DEF HasPlace, PlaceOf
<1>. QED BY <1>1, <1>3, <1>4, <1>6 DEF w

(* y is w with v added to its digits. *)
Adds(y, w, v) ==
    /\ y \in Numbers /\ Len(y.digits) > 0 /\ Bottom(y) = Bottom(w)
    /\ Amount(y) = Amount(w) + v

(* add() before its trim adds the digit at its rank to the number made wide. *)
LEMMA AddAtIs ==
    ASSUME NEW a \in Numbers, NEW k \in Digit, NEW e \in Int,
           NEW w, w = pad(a, e, e), NEW y, y = AddAt(a, k, e)
    PROVE  /\ Adds(y, w, k * Rank(e - Bottom(w)))
           /\ y.exp = w.exp \/ (y.exp = w.exp + 1 /\ Amount(y) >= Rank(Len(w.digits)))
<1>. DEFINE d == w.digits
            m == Len(d)
            i == PlaceOf(w, e)
            v == (d[i] + k) % Base
            g == [d EXCEPT ![i] = v]
            u == PlusOne(g, i, MAX, 1)
            r == Rank(e - Bottom(w))
<1>1. /\ w \in Numbers /\ d \in Seq(Digit) /\ m \in Nat /\ i \in 1..m /\ m - i = e - Bottom(w)
      /\ w.neg \in BOOLEAN /\ w.exp \in Int
    <2>1. HasPlace(w, e)
        BY PadPlace
    <2>2. w \in Numbers
        BY <2>1 DEF HasPlace
    <2>. QED BY <2>1, <2>2, NumberIs DEF HasPlace
<1>2. w = [neg |-> w.neg, exp |-> w.exp, digits |-> d]
    BY <1>1 DEF Numbers
<1>3. y = IF ~(d[i] + k > MAX) THEN [w EXCEPT !.digits = g]
          ELSE IF ~Out(g, i, MAX) THEN [w EXCEPT !.digits = u]
          ELSE IF w.neg THEN [w EXCEPT !.digits = u, !.neg = FALSE]
          ELSE [w EXCEPT !.exp = @ + 1, !.digits = <<1>> \o u]
    BY DEF AddAt, PlaceOf
<1>4. /\ d[i] \in Nat /\ d[i] < Base /\ k \in Nat /\ k < Base /\ Base \in Nat /\ Base > 3
      /\ MAX = Base - 1 /\ Digit = 0..(Base - 1)
    <2>1. d[i] \in Digit
        BY <1>1
    <2>. QED BY <2>1, BaseIs
<1>5. /\ v \in Digit
      /\ v = IF d[i] + k > MAX THEN d[i] + k - Base ELSE d[i] + k
    <2>1. d[i] + k \in 0..(2 * Base - 2)
        BY <1>4, SMTT(30)
    <2>. DEFINE t == d[i] + k
    <2>2. t \in 0..(2 * Base - 2)
        BY <2>1
    <2>. HIDE DEF t
    <2>3. t % Base \in 0..(Base - 1) /\ t % Base = IF t > Base - 1 THEN t - Base ELSE t
        BY <2>2, <1>4
    <2>. QED BY <2>3, <1>4 DEF t
<1>6. Placed(g, d, i, v)
    <2>. HIDE DEF d, i, v
    <2>. QED BY <1>1, <1>5, PlaceRead
<1>7. Carries(MAX, 1)
    BY DEF Carries
<1>8. /\ u \in Seq(Digit) /\ Len(u) = m
      /\ Read(u, m) = Read(d, m) + (v - d[i] + 1 * Base) * Rank(m - i)
                      - (IF Out(g, i, MAX) THEN 1 * Rank(m) ELSE 0)
    <2>. HIDE DEF d, i, v, g
    <2>. QED BY <1>1, <1>5, <1>6, <1>7, CarriedRead
<1>9. /\ g \in Seq(Digit) /\ Len(g) = m
      /\ Read(g, m) = Read(d, m) + (v - d[i]) * Rank(m - i)
    BY <1>6 DEF Placed
<1>. HIDE DEF g, u
<1>10. /\ Rank(m) \in Nat /\ r \in Nat /\ r = Rank(m - i) /\ Read(d, m) \in Nat
       /\ Amount(w) = Read(d, m) - (IF w.neg THEN Rank(m) ELSE 0) /\ k * r \in Nat
    <2>1. Read(d, m) \in Nat /\ Rank(m) \in Nat
        BY <1>1, NumberIs, ReadBound, RankNext
    <2>2. r = Rank(m - i) /\ m - i \in Nat
        BY <1>1
    <2>3. r \in Nat
        BY <2>2, RankNext
    <2>4. k * r \in Nat
        BY <2>3, <1>4
    <2>. QED BY <2>1, <2>2, <2>3, <2>4 DEF Amount
<1>. HIDE DEF r
<1>. HIDE DEF v
<1>11. CASE ~(d[i] + k > MAX)
    <2>1. y = [neg |-> w.neg, exp |-> w.exp, digits |-> g]
        BY <1>2, <1>3, <1>11
    <2>2. y \in Numbers /\ y.neg = w.neg /\ y.exp = w.exp /\ y.digits = g
        BY <1>1, <1>9, <2>1 DEF Numbers
    <2>3. v - d[i] = k
        BY <1>4, <1>5, <1>11
    <2>4. Read(g, m) = Read(d, m) + k * r
        BY <1>9, <1>10, <2>3
    <2>5. Amount(y) = Amount(w) + k * r
        <3>1. Amount(y) = Read(g, m) - (IF w.neg THEN Rank(m) ELSE 0)
            BY <1>9, <2>2 DEF Amount
        <3>. QED BY <3>1, <2>4, <1>10
    <2>6. Bottom(y) = Bottom(w)
        BY <1>9, <2>2 DEF Bottom
    <2>. QED BY <1>1, <1>9, <2>2, <2>5, <2>6 DEF Adds, r
<1>12. CASE d[i] + k > MAX
    <2>1. v - d[i] + 1 * Base = k
        BY <1>4, <1>5, <1>12
    <2>2. Read(u, m) = Read(d, m) + k * r - (IF Out(g, i, MAX) THEN Rank(m) ELSE 0)
        BY <1>8, <1>10, <2>1
    <2>3. CASE ~Out(g, i, MAX) \/ w.neg
        <3>2. /\ y \in Numbers /\ (y.neg <=> w.neg /\ ~Out(g, i, MAX))
              /\ y.exp = w.exp /\ y.digits = u
            <4>1. CASE Out(g, i, MAX)
                <5>1. y = [neg |-> FALSE, exp |-> w.exp, digits |-> u]
                    BY <1>2, <1>3, <1>12, <2>3, <4>1
                <5>. QED BY <1>1, <1>8, <4>1, <5>1 DEF Numbers
            <4>2. CASE ~Out(g, i, MAX)
                <5>1. y = [neg |-> w.neg, exp |-> w.exp, digits |-> u]
                    BY <1>2, <1>3, <1>12, <4>2
                <5>. QED BY <1>1, <1>8, <4>2, <5>1 DEF Numbers
            <4>. QED BY <4>1, <4>2
        <3>3. Amount(y) = Amount(w) + k * r
            <4>1. Amount(y) = Read(u, m) - (IF y.neg THEN Rank(m) ELSE 0)
                BY <1>8, <3>2 DEF Amount
            <4>. QED BY <4>1, <3>2, <2>2, <2>3, <1>10
        <3>4. Bottom(y) = Bottom(w)
            BY <1>8, <3>2 DEF Bottom
        <3>. QED BY <1>1, <1>8, <3>2, <3>3, <3>4 DEF Adds, r
    <2>4. CASE Out(g, i, MAX) /\ ~w.neg
        <3>. DEFINE z == <<1>> \o u
        <3>1. 1 \in Digit
            BY <1>4
        <3>2. Leads(z, 1, u)
            BY <1>8, <3>1, FirstDigit
        <3>3. y = [w EXCEPT !.exp = w.exp + 1, !.digits = z]
            BY <1>3, <1>12, <2>4
        <3>. HIDE DEF z
        <3>4. y = [neg |-> w.neg, exp |-> w.exp + 1, digits |-> z]
            BY <1>2, <3>3
        <3>5. z \in Seq(Digit)
            BY <3>2 DEF Leads
        <3>6. y \in Numbers /\ y.neg = w.neg /\ y.exp = w.exp + 1 /\ y.digits = z
            BY <1>1, <3>4, <3>5 DEF Numbers
        <3>7. /\ Len(y.digits) = Len(u) + 1 /\ Bottom(y) = Bottom(w)
              /\ Amount(y) = 1 * Rank(Len(u)) + Read(u, Len(u))
                             - (IF y.neg THEN Base * Rank(Len(u)) ELSE 0)
            BY <1>1, <1>8, <3>1, <3>2, <3>6, OneMoreDigit, SMTT(30)
        <3>8. Read(u, m) \in Nat
            BY <1>1, <1>8, SeqRow, ReadBound
        <3>9. Amount(y) = Rank(m) + Read(u, m)
            BY <1>8, <1>10, <2>4, <3>6, <3>7, <3>8
        <3>10. Amount(y) = Amount(w) + k * r /\ Amount(y) >= Rank(m)
            BY <1>10, <2>2, <2>4, <3>8, <3>9
        <3>. QED BY <1>1, <1>8, <3>6, <3>7, <3>10 DEF Adds, r
    <2>. QED BY <2>3, <2>4
<1>. QED BY <1>11, <1>12

(* sub() before its trim subtracts it. *)
LEMMA SubAtIs ==
    ASSUME NEW a \in Numbers, NEW k \in Digit, NEW e \in Int,
           NEW w, w = pad(a, e, e), NEW y, y = SubAt(a, k, e)
    PROVE  Adds(y, w, (-k) * Rank(e - Bottom(w)))
<1>. DEFINE d == w.digits
            m == Len(d)
            i == PlaceOf(w, e)
            v == (d[i] - k) % Base
            g == [d EXCEPT ![i] = v]
            u == PlusOne(g, i, 0, -1)
            r == Rank(e - Bottom(w))
<1>1. /\ w \in Numbers /\ d \in Seq(Digit) /\ m \in Nat /\ i \in 1..m /\ m - i = e - Bottom(w)
      /\ w.neg \in BOOLEAN /\ w.exp \in Int
    <2>1. HasPlace(w, e)
        BY PadPlace
    <2>2. w \in Numbers
        BY <2>1 DEF HasPlace
    <2>. QED BY <2>1, <2>2, NumberIs DEF HasPlace
<1>2. w = [neg |-> w.neg, exp |-> w.exp, digits |-> d]
    BY <1>1 DEF Numbers
<1>3. y = IF ~(d[i] < k) THEN [w EXCEPT !.digits = g]
          ELSE IF ~Out(g, i, 0) THEN [w EXCEPT !.digits = u]
          ELSE IF w.neg THEN [w EXCEPT !.exp = @ + 1, !.digits = <<MAX - 1>> \o u]
          ELSE [w EXCEPT !.digits = u, !.neg = TRUE]
    BY DEF SubAt, PlaceOf
<1>4. /\ d[i] \in Nat /\ d[i] < Base /\ k \in Nat /\ k < Base /\ Base \in Nat /\ Base > 3
      /\ MAX = Base - 1 /\ Digit = 0..(Base - 1)
    <2>1. d[i] \in Digit
        BY <1>1
    <2>. QED BY <2>1, BaseIs
<1>5. /\ v \in Digit
      /\ v = IF d[i] < k THEN d[i] - k + Base ELSE d[i] - k
    <2>. DEFINE c == d[i]
                t == c - k
    <2>1. c \in Nat /\ c < Base /\ k \in Nat /\ k < Base /\ Base \in Nat
        BY <1>4
    <2>2. v = t % Base
        OBVIOUS
    <2>. HIDE DEF c, v
    <2>3. t \in (1 - Base)..(Base - 1) /\ (c < k <=> t < 0)
        BY <2>1
    <2>. HIDE DEF t
    <2>4. t % Base \in 0..(Base - 1) /\ t % Base = IF t < 0 THEN t + Base ELSE t
        BY <2>1, <2>3
    <2>5. v \in Digit
        BY <2>2, <2>4, <1>4
    <2>6. v = IF c < k THEN t + Base ELSE t
        BY <2>2, <2>3, <2>4
    <2>. QED BY <2>5, <2>6 DEF t, c
<1>6. Placed(g, d, i, v)
    <2>. HIDE DEF d, i, v
    <2>. QED BY <1>1, <1>5, PlaceRead
<1>7. Carries(0, -1)
    BY DEF Carries
<1>8. /\ u \in Seq(Digit) /\ Len(u) = m
      /\ Read(u, m) = Read(d, m) + (v - d[i] + (-1) * Base) * Rank(m - i)
                      - (IF Out(g, i, 0) THEN (-1) * Rank(m) ELSE 0)
    <2>. HIDE DEF d, i, v, g
    <2>. QED BY <1>1, <1>5, <1>6, <1>7, CarriedRead
<1>9. /\ g \in Seq(Digit) /\ Len(g) = m
      /\ Read(g, m) = Read(d, m) + (v - d[i]) * Rank(m - i)
    BY <1>6 DEF Placed
<1>. HIDE DEF g, u
<1>10. /\ Rank(m) \in Nat /\ r \in Nat /\ r = Rank(m - i) /\ Read(d, m) \in Nat
       /\ Amount(w) = Read(d, m) - (IF w.neg THEN Rank(m) ELSE 0) /\ (-k) * r \in Int
    <2>1. Read(d, m) \in Nat /\ Rank(m) \in Nat
        BY <1>1, NumberIs, ReadBound, RankNext
    <2>2. r = Rank(m - i) /\ m - i \in Nat
        BY <1>1
    <2>3. r \in Nat
        BY <2>2, RankNext
    <2>4. (-k) * r \in Int
        BY <2>3, <1>4
    <2>. QED BY <2>1, <2>2, <2>3, <2>4 DEF Amount
<1>. HIDE DEF r
<1>. HIDE DEF v
<1>11. CASE ~(d[i] < k)
    <2>1. y = [neg |-> w.neg, exp |-> w.exp, digits |-> g]
        BY <1>2, <1>3, <1>11
    <2>2. y \in Numbers /\ y.neg = w.neg /\ y.exp = w.exp /\ y.digits = g
        BY <1>1, <1>9, <2>1 DEF Numbers
    <2>3. v - d[i] = -k
        BY <1>4, <1>5, <1>11
    <2>4. Read(g, m) = Read(d, m) + (-k) * r
        BY <1>9, <1>10, <2>3
    <2>5. Amount(y) = Amount(w) + (-k) * r
        <3>1. Amount(y) = Read(g, m) - (IF w.neg THEN Rank(m) ELSE 0)
            BY <1>9, <2>2 DEF Amount
        <3>. QED BY <3>1, <2>4, <1>10
    <2>6. Bottom(y) = Bottom(w)
        BY <1>9, <2>2 DEF Bottom
    <2>. QED BY <1>1, <1>9, <2>2, <2>5, <2>6 DEF Adds, r
<1>12. CASE d[i] < k
    <2>1. v - d[i] + (-1) * Base = -k
        <3>1. v = d[i] - k + Base /\ (-1) * Base = -Base
            BY <1>4, <1>5, <1>12
        <3>. QED BY <3>1, <1>4, SMTT(30)
    <2>2. Read(u, m) = Read(d, m) + (-k) * r - (IF Out(g, i, 0) THEN -Rank(m) ELSE 0)
        BY <1>8, <1>10, <2>1
    <2>3. CASE ~Out(g, i, 0) \/ ~w.neg
        <3>2. /\ y \in Numbers /\ (y.neg <=> w.neg \/ Out(g, i, 0))
              /\ y.exp = w.exp /\ y.digits = u
            <4>1. CASE Out(g, i, 0)
                <5>1. y = [neg |-> TRUE, exp |-> w.exp, digits |-> u]
                    BY <1>2, <1>3, <1>12, <2>3, <4>1
                <5>. QED BY <1>1, <1>8, <4>1, <5>1 DEF Numbers
            <4>2. CASE ~Out(g, i, 0)
                <5>1. y = [neg |-> w.neg, exp |-> w.exp, digits |-> u]
                    BY <1>2, <1>3, <1>12, <4>2
                <5>. QED BY <1>1, <1>8, <4>2, <5>1 DEF Numbers
            <4>. QED BY <4>1, <4>2
        <3>3. Amount(y) = Amount(w) + (-k) * r
            <4>1. Amount(y) = Read(u, m) - (IF y.neg THEN Rank(m) ELSE 0)
                BY <1>8, <3>2 DEF Amount
            <4>. QED BY <4>1, <3>2, <2>2, <2>3, <1>10
        <3>4. Bottom(y) = Bottom(w)
            BY <1>8, <3>2 DEF Bottom
        <3>. QED BY <1>1, <1>8, <3>2, <3>3, <3>4 DEF Adds, r
    <2>4. CASE Out(g, i, 0) /\ w.neg
        <3>. DEFINE z == <<MAX - 1>> \o u
        <3>1. MAX - 1 \in Digit
            BY <1>4
        <3>2. Leads(z, MAX - 1, u)
            BY <1>8, <3>1, FirstDigit
        <3>3. y = [w EXCEPT !.exp = w.exp + 1, !.digits = z]
            BY <1>3, <1>12, <2>4
        <3>. HIDE DEF z
        <3>4. y = [neg |-> w.neg, exp |-> w.exp + 1, digits |-> z]
            BY <1>2, <3>3
        <3>5. z \in Seq(Digit)
            BY <3>2 DEF Leads
        <3>6. y \in Numbers /\ y.neg = w.neg /\ y.exp = w.exp + 1 /\ y.digits = z
            BY <1>1, <3>4, <3>5 DEF Numbers
        <3>7. /\ Len(y.digits) = Len(u) + 1 /\ Bottom(y) = Bottom(w)
              /\ Amount(y) = (MAX - 1) * Rank(Len(u)) + Read(u, Len(u))
                             - (IF y.neg THEN Base * Rank(Len(u)) ELSE 0)
            BY <1>1, <1>8, <3>1, <3>2, <3>6, OneMoreDigit, SMTT(30)
        <3>8. Read(u, m) \in Nat
            BY <1>1, <1>8, SeqRow, ReadBound
        <3>9. Amount(y) = Read(u, m) - 2 * Rank(m)
            <4>1. Amount(y) = (MAX - 1) * Rank(m) + Read(u, m) - Base * Rank(m)
                BY <1>8, <2>4, <3>6, <3>7
            <4>2. (MAX - 1) * Rank(m) = Base * Rank(m) - 2 * Rank(m) /\ Base * Rank(m) \in Int
                <5>1. MAX - 1 = Base - 2 /\ Rank(m) \in Int /\ Base \in Int
                    BY <1>4, <1>10
                <5>2. (Base - 2) * Rank(m) = Base * Rank(m) - 2 * Rank(m) /\ Base * Rank(m) \in Int
                    BY <5>1, SMTT(30)
                <5>. QED BY <5>1, <5>2
            <4>. QED BY <4>1, <4>2, <3>8, <1>10
        <3>10. Amount(y) = Amount(w) + (-k) * r
            BY <1>10, <2>2, <2>4, <3>8, <3>9
        <3>. QED BY <1>1, <1>8, <3>7, <3>6, <3>10 DEF Adds, r
    <2>. QED BY <2>3, <2>4
<1>. QED BY <1>11, <1>12

(* An amount that is added at a rank is a value that is added. *)
LEMMA AddsValue ==
    ASSUME NEW w \in Numbers, NEW y, NEW k \in Int, NEW e \in Int, NEW s \in Int,
           Adds(y, w, k * Rank(e - Bottom(w))), e >= Bottom(w), Bottom(w) + s >= 0
    PROVE  Value(y, s) = Value(w, s) + k * Rank(e + s)
<1>. DEFINE n == e - Bottom(w)
            m == Bottom(w) + s
<1>1. /\ y \in Numbers /\ Bottom(y) = Bottom(w) /\ Amount(y) = Amount(w) + k * Rank(n)
      /\ Bottom(w) \in Int /\ Amount(w) \in Int
    BY NumberIs DEF Adds
<1>2. n \in Nat /\ m \in Nat /\ n + m = e + s
    BY <1>1
<1>3. Value(y, s) = Amount(y) * Rank(m) /\ Value(w, s) = Amount(w) * Rank(m)
    BY <1>1, ValueIs
<1>. HIDE DEF n, m
<1>4. Rank(n + m) = Rank(n) * Rank(m)
    BY <1>2, RankSum
<1>5. Rank(n) \in Int /\ Rank(m) \in Int
    BY <1>2, RankNext
<1>6. (Amount(w) + k * Rank(n)) * Rank(m) = Amount(w) * Rank(m) + k * (Rank(n) * Rank(m))
    BY <1>1, <1>5
<1>. QED BY <1>1, <1>2, <1>3, <1>4, <1>6

(* A digit is added, and subtracted, at its rank. *)
LEMMA AddAtValue ==
    ASSUME NEW a \in Numbers, NEW k \in Digit, NEW e \in Int, a.neg => Len(a.digits) > 0
    PROVE  /\ AddAt(a, k, e) \in Numbers /\ Len(AddAt(a, k, e).digits) > 0
           /\ Bottom(AddAt(a, k, e)) = (IF Bottom(a) > e THEN e ELSE Bottom(a))
           /\ \A s \in Int :
                 ~(SignAlone(a) /\ a.exp < e) /\ Bottom(a) + s >= 0 /\ e + s >= 0
                 => Value(AddAt(a, k, e), s) = Value(a, s) + k * Rank(e + s)
<1>. DEFINE w == pad(a, e, e)
            y == AddAt(a, k, e)
<1>1. Adds(y, w, k * Rank(e - Bottom(w)))
    BY AddAtIs
<1>2. HasPlace(w, e) /\ Bottom(w) = (IF Bottom(a) > e THEN e ELSE Bottom(a))
    BY PadPlace
<1>3. w \in Numbers /\ Bottom(w) \in Int /\ Bottom(a) \in Int /\ k \in Int
    <2>1. w \in Numbers
        BY <1>2 DEF HasPlace
    <2>. HIDE DEF w
    <2>. QED BY <2>1, NumberIs, BaseIs
<1>4. ASSUME NEW s \in Int, ~(SignAlone(a) /\ a.exp < e), Bottom(a) + s >= 0, e + s >= 0
      PROVE  Value(y, s) = Value(a, s) + k * Rank(e + s)
    <2>1. Widens(w, a, Front(a, e), Back(a, e))
        BY <1>4, PadWidens
    <2>. HIDE DEF w, y
    <2>2. Bottom(w) + s >= 0 /\ e >= Bottom(w)
        BY <1>2, <1>3, <1>4
    <2>3. Value(w, s) = Value(a, s)
        BY <2>1, <2>2, SameValue
    <2>4. Value(y, s) = Value(w, s) + k * Rank(e + s)
        BY <1>1, <1>3, <2>2, AddsValue
    <2>. QED BY <2>3, <2>4
<1>5. y \in Numbers /\ Len(y.digits) > 0 /\ Bottom(y) = (IF Bottom(a) > e THEN e ELSE Bottom(a))
    <2>. HIDE DEF w, y
    <2>. QED BY <1>1, <1>2 DEF Adds
<1>. QED BY <1>4, <1>5

(* SubAt by values. *)
LEMMA SubAtValue ==
    ASSUME NEW a \in Numbers, NEW k \in Digit, NEW e \in Int, a.neg => Len(a.digits) > 0
    PROVE  /\ SubAt(a, k, e) \in Numbers /\ Len(SubAt(a, k, e).digits) > 0
           /\ Bottom(SubAt(a, k, e)) = (IF Bottom(a) > e THEN e ELSE Bottom(a))
           /\ \A s \in Int :
                 ~(SignAlone(a) /\ a.exp < e) /\ Bottom(a) + s >= 0 /\ e + s >= 0
                 => Value(SubAt(a, k, e), s) = Value(a, s) - k * Rank(e + s)
<1>. DEFINE w == pad(a, e, e)
            y == SubAt(a, k, e)
<1>1. Adds(y, w, (-k) * Rank(e - Bottom(w)))
    BY SubAtIs
<1>2. HasPlace(w, e) /\ Bottom(w) = (IF Bottom(a) > e THEN e ELSE Bottom(a))
    BY PadPlace
<1>3. w \in Numbers /\ Bottom(w) \in Int /\ Bottom(a) \in Int /\ k \in Int /\ -k \in Int
    <2>1. w \in Numbers
        BY <1>2 DEF HasPlace
    <2>. HIDE DEF w
    <2>. QED BY <2>1, NumberIs, BaseIs
<1>4. ASSUME NEW s \in Int, ~(SignAlone(a) /\ a.exp < e), Bottom(a) + s >= 0, e + s >= 0
      PROVE  Value(y, s) = Value(a, s) - k * Rank(e + s)
    <2>1. Widens(w, a, Front(a, e), Back(a, e))
        BY <1>4, PadWidens
    <2>. HIDE DEF w, y
    <2>2. Bottom(w) + s >= 0 /\ e >= Bottom(w)
        BY <1>2, <1>3, <1>4
    <2>3. Value(w, s) = Value(a, s)
        BY <2>1, <2>2, SameValue
    <2>4. Value(y, s) = Value(w, s) + (-k) * Rank(e + s)
        BY <1>1, <1>3, <2>2, AddsValue
    <2>5. Value(a, s) \in Int
        <3>1. Value(a, s) = Amount(a) * Rank(Bottom(a) + s) /\ Amount(a) \in Int
            BY ValueIs, NumberIs
        <3>2. Bottom(a) + s \in Nat
            BY <1>3, <1>4
        <3>3. Rank(Bottom(a) + s) \in Int
            BY <3>2, RankNext
        <3>. QED BY <3>1, <3>3
    <2>6. Rank(e + s) \in Int
        <3>1. e + s \in Nat
            BY <1>4
        <3>. QED BY <3>1, RankNext
    <2>. QED BY <1>3, <2>3, <2>4, <2>5, <2>6
<1>5. y \in Numbers /\ Len(y.digits) > 0 /\ Bottom(y) = (IF Bottom(a) > e THEN e ELSE Bottom(a))
    <2>. HIDE DEF w, y
    <2>. QED BY <1>1, <1>2 DEF Adds
<1>. QED BY <1>4, <1>5

-------------------------------------------------------------------------------
(* Two numbers are added *)

One(carry) == IF carry THEN 1 ELSE 0

Adding(d, o, c, sum, carry) ==
    sum \in Digit /\ carry \in BOOLEAN /\ One(carry) * Base + sum = d + o + One(c)

(* The sum of two digits and a carry: operator+= tells the new carry from    *)
(* the sum (numeric.cpp:115).                                                *)
LEMMA SumIs ==
    ASSUME NEW d \in Digit, NEW o \in Digit, NEW c \in BOOLEAN, NEW sum, sum = (d + o + One(c)) % Base
    PROVE  Adding(d, o, c, sum, Carried(sum, o, c))
<1>. DEFINE t == d + o + One(c)
            out == Carried(sum, o, c)
<1>1. /\ Base \in Nat /\ Base > 3 /\ Digit = 0..(Base - 1)
      /\ d \in 0..(Base - 1) /\ o \in 0..(Base - 1) /\ One(c) \in 0..1
    BY BaseIs DEF One
<1>2. t \in 0..(2 * Base - 1)
    BY <1>1
<1>3. sum = t % Base
    OBVIOUS
<1>4. t = d + o + One(c)
    OBVIOUS
<1>. HIDE DEF t
<1>5. t % Base = IF t >= Base THEN t - Base ELSE t
    BY <1>1, <1>2
<1>6. sum = (IF t >= Base THEN t - Base ELSE t) /\ sum \in 0..(Base - 1)
    BY <1>1, <1>2, <1>3, <1>5
<1>7. out <=> t >= Base
    <2>1. CASE c
        <3>1. One(c) = 1 /\ (out <=> sum <= o)
            BY <2>1 DEF One, Carried
        <3>. HIDE DEF out
        <3>. QED BY <1>1, <1>2, <1>4, <1>6, <3>1
    <2>2. CASE ~c
        <3>1. One(c) = 0 /\ (out <=> sum < o)
            BY <2>2 DEF One, Carried
        <3>. HIDE DEF out
        <3>. QED BY <1>1, <1>2, <1>4, <1>6, <3>1
    <2>. QED BY <2>1, <2>2
<1>8. out \in BOOLEAN
    <2>1. CASE c
        BY <2>1 DEF Carried
    <2>2. CASE ~c
        BY <2>2 DEF Carried
    <2>. QED BY <2>1, <2>2
<1>. HIDE DEF out
<1>9. One(out) = IF t >= Base THEN 1 ELSE 0
    BY <1>7 DEF One
<1>11. One(out) * Base + sum = t
    <2>1. CASE t >= Base
        <3>1. One(out) * Base = Base /\ sum = t - Base
            BY <1>1, <1>6, <1>9, <2>1
        <3>. QED BY <1>1, <1>2, <3>1
    <2>2. CASE ~(t >= Base)
        <3>1. One(out) * Base = 0 /\ sum = t
            BY <1>1, <1>6, <1>9, <2>2
        <3>. QED BY <1>2, <3>1
    <2>. QED BY <2>1, <2>2
<1>12. Adding(d, o, c, sum, out)
    BY <1>1, <1>4, <1>6, <1>8, <1>11 DEF Adding
<1>. QED BY <1>12 DEF out

(* What Sums gives: digit by digit the sum, and what is carried.           *)
SumsUp(at, w, b, top) ==
    /\ at[top + Len(b.digits) + 1].carry = FALSE
    /\ \A i \in (top + 1)..(top + Len(b.digits) + 1) : at[i].carry \in BOOLEAN
    /\ \A i \in (top + 1)..(top + Len(b.digits)) :
          /\ at[i].digit \in Digit
          /\ One(at[i].carry) * Base + at[i].digit
             = w.digits[i] + b.digits[i - top] + One(at[i + 1].carry)

(* The sums, from the lowest digit up, stand for the sum of the digits that  *)
(* both numbers have.                                                        *)
LEMMA SumsAre ==
    ASSUME NEW w \in Numbers, NEW b \in Numbers, NEW top \in Nat,
           top + Len(b.digits) <= Len(w.digits)
    PROVE  SumsUp(Sums(w, b, top), w, b, top)
<1>. DEFINE m == Len(b.digits)
            last == top + m
            V == [digit : Digit, carry : BOOLEAN]
            S(i, v) == (w.digits[i] + b.digits[i - top] + (IF v.carry THEN 1 ELSE 0)) % Base
            R(i, v) == [digit |-> S(i, v), carry |-> Carried(S(i, v), b.digits[i - top], v.carry)]
            z == [digit |-> 0, carry |-> FALSE]
            g == [j \in 1..m |-> [v \in V |-> R(last + 1 - j, v)]]
<1>1. m \in Nat /\ last \in Nat /\ Len(w.digits) \in Nat /\ last <= Len(w.digits) /\ last = top + m
    BY NumberIs
<1>2. ASSUME NEW i \in (top + 1)..last
      PROVE  w.digits[i] \in Digit /\ b.digits[i - top] \in Digit
    <2>1. i \in 1..Len(w.digits) /\ i - top \in 1..m
        BY <1>1
    <2>. QED BY <2>1, NumberIs DEF Digits
<1>3. ASSUME NEW i \in (top + 1)..last, NEW v \in V
      PROVE  /\ R(i, v) \in V
             /\ One(R(i, v).carry) * Base + R(i, v).digit
                = w.digits[i] + b.digits[i - top] + One(v.carry)
    <2>. DEFINE sum == S(i, v)
                o == b.digits[i - top]
    <2>1. v.carry \in BOOLEAN /\ w.digits[i] \in Digit /\ o \in Digit
        BY <1>2
    <2>2. sum = (w.digits[i] + o + One(v.carry)) % Base
        BY DEF One
    <2>. HIDE DEF sum, o
    <2>3. /\ sum \in Digit /\ Carried(sum, o, v.carry) \in BOOLEAN
          /\ One(Carried(sum, o, v.carry)) * Base + sum = w.digits[i] + o + One(v.carry)
        <3>1. Adding(w.digits[i], o, v.carry, sum, Carried(sum, o, v.carry))
            BY <2>1, <2>2, SumIs
        <3>. QED BY <3>1 DEF Adding
    <2>4. R(i, v) = [digit |-> sum, carry |-> Carried(sum, o, v.carry)]
        BY DEF sum, o
    <2>5. R(i, v).digit = sum /\ R(i, v).carry = Carried(sum, o, v.carry) /\ R(i, v) \in V
        <3>. HIDE DEF R
        <3>. QED BY <2>3, <2>4
    <2>. HIDE DEF R
    <2>. QED BY <2>3, <2>5 DEF o
<1>4. z \in V
    BY BaseIs
<1>5. g \in [1..m -> [V -> V]]
    <2>. HIDE DEF R, V
    <2>1. ASSUME NEW j \in 1..m, NEW v \in V PROVE R(last + 1 - j, v) \in V
        <3>1. last + 1 - j \in (top + 1)..last
            BY <1>1
        <3>. QED BY <3>1, <1>3
    <2>. QED BY <2>1
<1>6. PICK h : Unrolls(h, m, V, z, g)
    <2>. HIDE DEF g, V, z
    <2>. QED BY <1>1, <1>4, <1>5, Unrolled
<1>7. h \in [0..m -> V] /\ h[0] = z /\ \A j \in 1..m : h[j] = g[j][h[j - 1]]
    BY <1>6 DEF Unrolls
<1>. DEFINE f == [i \in (top + 1)..(last + 1) |-> h[last + 1 - i]]
<1>8. ASSUME NEW i \in (top + 1)..(last + 1)
      PROVE  f[i] = IF i > last THEN z ELSE R(i, f[i + 1])
    <2>1. CASE i > last
        <3>1. last + 1 - i = 0
            BY <1>1, <2>1
        <3>. QED BY <2>1, <3>1, <1>7
    <2>2. CASE ~(i > last)
        <3>. DEFINE j == last + 1 - i
        <3>1. /\ j \in 1..m /\ j - 1 \in 0..m /\ last + 1 - j = i
              /\ i + 1 \in (top + 1)..(last + 1) /\ last + 1 - (i + 1) = j - 1
            <4>. HIDE DEF last, m
            <4>. QED BY <1>1, <2>2
        <3>2. h[j - 1] \in V /\ h[j] = g[j][h[j - 1]]
            BY <3>1, <1>7
        <3>. HIDE DEF V, R
        <3>3. g[j][h[j - 1]] = R(last + 1 - j, h[j - 1])
            BY <3>1, <3>2
        <3>4. f[i] = h[j] /\ f[i + 1] = h[j - 1]
            BY <3>1
        <3>. QED BY <2>2, <3>1, <3>2, <3>3, <3>4
    <2>. QED BY <2>1, <2>2
<1>9. f = [i \in (top + 1)..(last + 1) |-> IF i > last THEN z ELSE R(i, f[i + 1])]
    <2>. DEFINE e == [i \in (top + 1)..(last + 1) |-> IF i > last THEN z ELSE R(i, f[i + 1])]
    <2>1. \A i \in (top + 1)..(last + 1) : f[i] = e[i]
        <3>. HIDE DEF R, z, f
        <3>. QED BY <1>8
    <2>. HIDE DEF R, z
    <2>. QED BY <2>1
<1>10. \A i \in (top + 1)..(last + 1) : f[i] \in V
    <2>1. ASSUME NEW i \in (top + 1)..(last + 1) PROVE f[i] \in V
        <3>1. last + 1 - i \in 0..m
            BY <1>1
        <3>. HIDE DEF V
        <3>. QED BY <3>1, <1>7
    <2>. QED BY <2>1
<1>. DEFINE at == CHOOSE at : at = [i \in (top + 1)..(last + 1) |->
                                      IF i > last THEN z ELSE R(i, at[i + 1])]
<1>11. Sums(w, b, top) = at
    BY DEF Sums
<1>12. at = [i \in (top + 1)..(last + 1) |-> IF i > last THEN z ELSE R(i, at[i + 1])]
    <2>. HIDE DEF R, z, f
    <2>. QED BY <1>9
<1>19. /\ V = [digit : Digit, carry : BOOLEAN] /\ z.carry = FALSE
       /\ last = top + Len(b.digits)
    OBVIOUS
<1>. HIDE DEF f, at, z, R, g, V, last, m
<1>13. ASSUME NEW i \in (top + 1)..(last + 1)
       PROVE  at[i] = IF i > last THEN z ELSE R(i, at[i + 1])
    BY <1>12
<1>. DEFINE N == {j \in Nat : j <= m => at[last + 1 - j] \in V}
<1>14. 0 \in N
    <2>1. last + 1 - 0 = last + 1 /\ last + 1 \in (top + 1)..(last + 1) /\ last + 1 > last
        BY <1>1
    <2>2. at[last + 1 - 0] = z
        BY <2>1, <1>13
    <2>. QED BY <2>2, <1>4
<1>15. ASSUME NEW j \in N PROVE j + 1 \in N
    <2>1. SUFFICES ASSUME j + 1 <= m PROVE at[last + 1 - (j + 1)] \in V
        <3>. HIDE DEF S
        <3>. QED OBVIOUS
    <2>2. /\ last + 1 - (j + 1) \in (top + 1)..last /\ last + 1 - (j + 1) \in (top + 1)..(last + 1)
          /\ ~(last + 1 - (j + 1) > last) /\ (last + 1 - (j + 1)) + 1 = last + 1 - j
        BY <2>1, <1>1
    <2>3. at[last + 1 - j] \in V
        BY <2>1, <1>1
    <2>4. at[last + 1 - (j + 1)] = R(last + 1 - (j + 1), at[last + 1 - j])
        BY <2>2, <1>13
    <2>. QED BY <2>2, <2>3, <2>4, <1>3
<1>16. N = Nat
    <2>1. N \in SUBSET Nat
        OBVIOUS
    <2>. HIDE DEF N
    <2>. QED BY <1>14, <1>15, <2>1, AllNaturals
<1>17. ASSUME NEW i \in (top + 1)..(last + 1) PROVE at[i] \in V
    <2>1. last + 1 - i \in Nat /\ last + 1 - i <= m /\ last + 1 - (last + 1 - i) = i
        BY <1>1
    <2>2. last + 1 - i \in N
        <3>. HIDE DEF N
        <3>. QED BY <1>16, <2>1
    <2>. QED BY <2>1, <2>2
<1>18. ASSUME NEW i \in (top + 1)..last
       PROVE  /\ at[i].digit \in Digit
              /\ One(at[i].carry) * Base + at[i].digit
                 = w.digits[i] + b.digits[i - top] + One(at[i + 1].carry)
    <2>1. i \in (top + 1)..(last + 1) /\ i + 1 \in (top + 1)..(last + 1) /\ ~(i > last)
        BY <1>1
    <2>2. at[i] = R(i, at[i + 1]) /\ at[i + 1] \in V /\ at[i] \in V
        BY <2>1, <1>13, <1>17
    <2>3. One(R(i, at[i + 1]).carry) * Base + R(i, at[i + 1]).digit
          = w.digits[i] + b.digits[i - top] + One(at[i + 1].carry)
        BY <2>2, <1>3
    <2>4. at[i].digit \in Digit
        BY <2>2, <1>19
    <2>. QED BY <2>2, <2>3, <2>4
<1>22. at[last + 1].carry = FALSE
    <2>1. last + 1 \in (top + 1)..(last + 1) /\ last + 1 > last
        BY <1>1
    <2>2. at[last + 1] = z
        BY <2>1, <1>13
    <2>. QED BY <2>2, <1>19
<1>20. \A i \in (top + 1)..(last + 1) : at[i].carry \in BOOLEAN
    BY <1>17, <1>19
<1>21. SumsUp(at, w, b, top)
    BY <1>18, <1>19, <1>20, <1>22 DEF SumsUp
<1>. QED BY <1>11, <1>21

(* The digits of w with the sums put at the places of b's. *)
Below(w, b, top, at) ==
    [i \in DOMAIN w.digits |->
        IF i \in (top + 1)..(top + Len(b.digits)) THEN at[i].digit ELSE w.digits[i]]

Lowered(low, w, b, top, at) ==
    /\ low \in Seq(Digit) /\ Len(low) = Len(w.digits)
    /\ \A i \in 1..Len(w.digits) :
          low[i] = IF i \in (top + 1)..(top + Len(b.digits)) THEN at[i].digit ELSE w.digits[i]
    /\ Read(low, Len(w.digits))
       = Read(w.digits, Len(w.digits))
         + (Read(b.digits, Len(b.digits)) - One(at[top + 1].carry) * Rank(Len(b.digits)))
           * Rank(Len(w.digits) - (top + Len(b.digits)))

(* Those digits written over the padded number's. *)
LEMMA BelowRead ==
    ASSUME NEW w \in Numbers, NEW b \in Numbers, NEW top \in Nat,
           top + Len(b.digits) <= Len(w.digits), NEW at, SumsUp(at, w, b, top)
    PROVE  Lowered(Below(w, b, top, at), w, b, top, at)
<1>. DEFINE low == Below(w, b, top, at)
<1>. DEFINE d == w.digits
            L == Len(d)
            o == b.digits
            m == Len(o)
            c(i) == One(at[top + i + 1].carry)
<1>1. /\ d \in Seq(Digit) /\ L \in Nat /\ m \in Nat /\ top + m <= L /\ Digits(d, L) /\ Digits(o, m)
      /\ Row(d, L) /\ Row(o, m)
    BY NumberIs
<1>2. /\ at[top + m + 1].carry = FALSE
      /\ \A i \in (top + 1)..(top + m + 1) : at[i].carry \in BOOLEAN
      /\ \A i \in (top + 1)..(top + m) :
            /\ at[i].digit \in Digit
            /\ One(at[i].carry) * Base + at[i].digit = d[i] + o[i - top] + One(at[i + 1].carry)
    BY DEF SumsUp
<1>3. /\ low \in Seq(Digit) /\ Len(low) = L
      /\ \A i \in 1..L : low[i] = IF i \in (top + 1)..(top + m) THEN at[i].digit ELSE d[i]
    <2>1. DOMAIN d = 1..L
        BY <1>1
    <2>2. low = [i \in 1..L |-> IF i \in (top + 1)..(top + m) THEN at[i].digit ELSE d[i]]
        BY <2>1 DEF Below
    <2>. HIDE DEF low
    <2>3. \A i \in 1..L : (IF i \in (top + 1)..(top + m) THEN at[i].digit ELSE d[i]) \in Digit
        BY <1>1, <1>2 DEF Digits
    <2>. HIDE DEF d, L, o, m
    <2>4. low \in [1..L -> Digit]
        BY <2>2, <2>3
    <2>5. low \in Seq(Digit) /\ Len(low) = L
        BY <1>1, <2>4, MadeSeq
    <2>. QED BY <2>2, <2>5
<1>. HIDE DEF d, L, o, m, low
<1>4. Row(low, L)
    <2>1. L <= Len(low)
        BY <1>1, <1>3
    <2>. QED BY <2>1, <1>1, <1>3, SeqRow
<1>5. ASSUME NEW i \in 0..m PROVE c(i) \in Int
    BY DEF One
<1>6. Base \in Int
    BY BaseIs
<1>. DEFINE N == {i \in Nat : i <= m =>
                     Read(low, top + i) = Read(d, top + i) + Read(o, i) + c(i) - c(0) * Rank(i)}
<1>7. Read(d, top) \in Int /\ Read(low, top) = Read(d, top)
    <2>1. top <= L /\ Row(d, top)
        BY <1>1 DEF Row
    <2>2. ASSUME NEW i \in 1..top PROVE low[i] = d[i]
        <3>1. i \in 1..L /\ i \notin (top + 1)..(top + m)
            BY <2>1, <1>1
        <3>. QED BY <3>1, <1>3
    <2>. QED BY <2>1, <2>2, ReadSame, ReadInt
<1>8. 0 \in N
    <2>1. 0 \in 0..m
        BY <1>1
    <2>2. c(0) \in Int
        BY <2>1, <1>5
    <2>3. Read(o, 0) = 0 /\ Rank(0) = 1
        BY ReadZero, Ranks0
    <2>4. top + 0 = top
        OBVIOUS
    <2>. HIDE DEF c
    <2>5. Read(low, top + 0) = Read(d, top + 0) + Read(o, 0) + c(0) - c(0) * Rank(0)
        BY <2>2, <2>3, <2>4, <1>7
    <2>. QED BY <2>5
<1>9. ASSUME NEW i \in N PROVE i + 1 \in N
    <2>1. SUFFICES ASSUME i + 1 <= m
                   PROVE  Read(low, top + (i + 1)) = Read(d, top + (i + 1)) + Read(o, i + 1)
                                                     + c(i + 1) - c(0) * Rank(i + 1)
        BY DEF N
    <2>2. /\ i \in Nat /\ top + i \in Nat /\ top + (i + 1) = (top + i) + 1
          /\ top + (i + 1) \in 1..L /\ top + (i + 1) \in (top + 1)..(top + m)
          /\ (top + (i + 1)) - top = i + 1 /\ i + 1 \in 1..m
          /\ 0 \in 0..m /\ i \in 0..m /\ i + 1 \in 0..m /\ (top + (i + 1)) + 1 = top + (i + 1) + 1
          /\ top + i + 1 = top + (i + 1)
        BY <2>1, <1>1
    <2>3. Read(low, top + i) = Read(d, top + i) + Read(o, i) + c(i) - c(0) * Rank(i)
        BY <2>1, <1>1 DEF N
    <2>4. Row(low, (top + i) + 1) /\ Row(d, (top + i) + 1) /\ Row(o, i + 1)
        BY <2>2, <1>1, <1>4 DEF Row
    <2>5. Read(low, (top + i) + 1) = Read(low, top + i) * Base + low[(top + i) + 1]
        BY <2>2, <2>4, ReadNext
    <2>6. Read(d, top + i) \in Int /\ Read(d, (top + i) + 1) = Read(d, top + i) * Base + d[(top + i) + 1]
        BY <2>2, <2>4, ReadNext
    <2>7. Read(o, i) \in Int /\ Read(o, i + 1) = Read(o, i) * Base + o[i + 1]
        BY <2>2, <2>4, ReadNext
    <2>8. Rank(i) \in Int /\ Rank(i + 1) = Base * Rank(i)
        BY <2>2, RankNext
    <2>9. c(0) \in Int /\ c(i) \in Int /\ c(i + 1) \in Int
        BY <2>2, <1>5
    <2>10. c(i) * Base + low[top + (i + 1)] = d[top + (i + 1)] + o[i + 1] + c(i + 1)
        <3>1. low[top + (i + 1)] = at[top + (i + 1)].digit
            BY <2>2, <1>3
        <3>2. One(at[top + (i + 1)].carry) * Base + at[top + (i + 1)].digit
              = d[top + (i + 1)] + o[(top + (i + 1)) - top] + One(at[(top + (i + 1)) + 1].carry)
            BY <2>2, <1>2
        <3>. QED BY <2>2, <3>1, <3>2
    <2>. DEFINE l == low[top + (i + 1)]
                e == d[top + (i + 1)]
                p == o[i + 1]
                R == Read(low, top + i)
                D == Read(d, top + i)
                O == Read(o, i)
                c0 == c(0)
                c1 == c(i)
                c2 == c(i + 1)
                r == Rank(i)
    <2>11. l \in Int /\ e \in Int /\ p \in Int
        BY <2>2, <2>4 DEF Row
    <2>12. /\ Read(low, top + (i + 1)) = R * Base + l
           /\ Read(d, top + (i + 1)) = D * Base + e
           /\ Read(o, i + 1) = O * Base + p
           /\ R = D + O + c1 - c0 * r /\ c1 * Base + l = e + p + c2
        BY <2>2, <2>3, <2>5, <2>6, <2>7, <2>10
    <2>13. D \in Int /\ O \in Int /\ c0 \in Int /\ c1 \in Int /\ c2 \in Int /\ r \in Int
        BY <2>6, <2>7, <2>8, <2>9
    <2>. HIDE DEF l, e, p, R, D, O, c0, c1, c2, r, c
    <2>14. c0 * r \in Int /\ (c0 * r) * Base = c0 * (Base * r)
        BY <2>13, <1>6
    <2>15. (D + O + c1 - c0 * r) * Base = D * Base + O * Base + c1 * Base - (c0 * r) * Base
        BY <2>13, <2>14, <1>6
    <2>16. /\ D * Base \in Int /\ O * Base \in Int /\ c1 * Base \in Int
           /\ (c0 * r) * Base \in Int
        BY <2>13, <2>14, <1>6
    <2>17. R * Base + l = (D * Base + e) + (O * Base + p) + c2 - c0 * (Base * r)
        <3>1. R * Base = D * Base + O * Base + c1 * Base - c0 * (Base * r)
            BY <2>12, <2>14, <2>15
        <3>2. c0 * (Base * r) \in Int
            BY <2>14, <2>16
        <3>3. c1 * Base + l = e + p + c2
            BY <2>12
        <3>. DEFINE A == D * Base
                    B == O * Base
                    C == c1 * Base
                    Z == c0 * (Base * r)
                    X == R * Base
        <3>4. /\ A \in Int /\ B \in Int /\ C \in Int /\ Z \in Int /\ X = A + B + C - Z
              /\ C + l = e + p + c2
            BY <3>1, <3>2, <3>3, <2>16
        <3>. HIDE DEF A, B, C, Z, X
        <3>5. X + l = (A + e) + (B + p) + c2 - Z
            BY <3>4, <2>11, <2>13
        <3>. QED BY <3>5 DEF A, B, C, Z, X
    <2>18. Read(low, top + (i + 1))
           = Read(d, top + (i + 1)) + Read(o, i + 1) + c2 - c0 * (Base * r)
        BY <2>12, <2>17
    <2>. QED BY <2>8, <2>18 DEF c0, c2, r
<1>10. N = Nat
    <2>1. N \in SUBSET Nat
        BY DEF N
    <2>. HIDE DEF N
    <2>. QED BY <1>8, <1>9, <2>1, AllNaturals
<1>11. Read(low, top + m) = Read(d, top + m) + Read(o, m) + c(m) - c(0) * Rank(m)
    <2>1. m \in N
        <3>. HIDE DEF N
        <3>. QED BY <1>1, <1>10
    <2>. QED BY <2>1, <1>1 DEF N
<1>12. c(m) = 0
    BY <1>2 DEF One
<1>13. Read(low, L) = Read(d, L) + (Read(low, top + m) - Read(d, top + m)) * Rank(L - (top + m))
    <2>1. top + m \in Nat
        BY <1>1
    <2>2. ASSUME NEW j \in ((top + m) + 1)..L PROVE low[j] = d[j]
        <3>1. j \in 1..L /\ j \notin (top + 1)..(top + m)
            BY <1>1
        <3>. QED BY <3>1, <1>3
    <2>. QED BY <2>1, <2>2, <1>1, <1>4, ReadChanged
<1>14. Read(low, top + m) - Read(d, top + m) = Read(o, m) - c(0) * Rank(m)
    <2>1. Read(d, top + m) \in Int /\ Read(o, m) \in Int
        <3>1. top + m \in Nat /\ Row(d, top + m)
            BY <1>1 DEF Row
        <3>. QED BY <3>1, <1>1, ReadInt
    <2>2. 0 \in 0..m
        BY <1>1
    <2>3. c(0) \in Int /\ Rank(m) \in Int
        <3>1. c(0) \in Int
            BY <2>2, <1>5
        <3>2. Rank(m) \in Nat
            BY <1>1, RankNext
        <3>. QED BY <3>1, <3>2
    <2>. HIDE DEF c
    <2>4. c(0) * Rank(m) \in Int
        BY <2>3
    <2>. QED BY <2>1, <2>4, <1>11, <1>12
<1>15. c(0) = One(at[top + 1].carry)
    <2>1. top + 0 + 1 = top + 1
        OBVIOUS
    <2>. QED BY <2>1
<1>. HIDE DEF c
<1>16. Read(low, L) = Read(d, L) + (Read(o, m) - One(at[top + 1].carry) * Rank(m)) * Rank(L - (top + m))
    BY <1>13, <1>14, <1>15
<1>17. Lowered(low, w, b, top, at)
    BY <1>3, <1>16 DEF d, L, o, m, Lowered
<1>. QED BY <1>17 DEF low

(* What the sign and the carry make of the digits d in the place of w's. *)
Summed(w, d) == [w EXCEPT !.digits = d]

(* A number whose digits are replaced. *)
LEMMA SummedIs ==
    ASSUME NEW w \in Numbers, NEW d \in Seq(Digit), Len(d) = Len(w.digits)
    PROVE  /\ Summed(w, d) \in Numbers /\ Summed(w, d).digits = d /\ Summed(w, d).neg = w.neg
           /\ Summed(w, d).exp = w.exp /\ Bottom(Summed(w, d)) = Bottom(w)
           /\ Amount(Summed(w, d)) = Read(d, Len(d)) - (IF w.neg THEN Rank(Len(d)) ELSE 0)
<1>1. Summed(w, d) = [neg |-> w.neg, exp |-> w.exp, digits |-> d]
    BY DEF Summed, Numbers
<1>2. /\ Summed(w, d) \in Numbers /\ Summed(w, d).digits = d /\ Summed(w, d).neg = w.neg
      /\ Summed(w, d).exp = w.exp
    <2>1. w.neg \in BOOLEAN /\ w.exp \in Int
        BY DEF Numbers
    <2>. QED BY <1>1, <2>1 DEF Numbers
<1>. QED BY <1>2 DEF Bottom, Amount

(* w with the sign neg instead of its own *)
LEMMA SignedIs ==
    ASSUME NEW w \in Numbers, NEW neg \in BOOLEAN
    PROVE  /\ [w EXCEPT !.neg = neg] \in Numbers /\ Bottom([w EXCEPT !.neg = neg]) = Bottom(w)
           /\ [w EXCEPT !.neg = neg].digits = w.digits
           /\ Amount([w EXCEPT !.neg = neg])
              = Read(w.digits, Len(w.digits)) - (IF neg THEN Rank(Len(w.digits)) ELSE 0)
<1>. DEFINE y == [w EXCEPT !.neg = neg]
<1>1. y \in Numbers /\ y.digits = w.digits /\ y.neg = neg /\ y.exp = w.exp
    BY DEF Numbers
<1>. HIDE DEF y
<1>2. Bottom(y) = Bottom(w)
    BY <1>1 DEF Bottom
<1>3. Amount(y) = Read(w.digits, Len(w.digits)) - (IF neg THEN Rank(Len(w.digits)) ELSE 0)
    BY <1>1 DEF Amount
<1>. QED BY <1>1, <1>2, <1>3 DEF y

(* w with another digit in front *)
LEMMA LedIs ==
    ASSUME NEW w \in Numbers, NEW v \in Digit
    PROVE  LET y == [w EXCEPT !.exp = @ + 1, !.digits = <<v>> \o @]
           IN /\ y \in Numbers /\ Len(y.digits) > 0 /\ Bottom(y) = Bottom(w)
              /\ Amount(y) = v * Rank(Len(w.digits)) + Read(w.digits, Len(w.digits))
                             - (IF w.neg THEN Base * Rank(Len(w.digits)) ELSE 0)
<1>. DEFINE f == <<v>> \o w.digits
            y == [w EXCEPT !.exp = @ + 1, !.digits = f]
<1>1. w.neg \in BOOLEAN /\ w.exp \in Int /\ w.digits \in Seq(Digit) /\ Len(w.digits) \in Nat
    BY NumberIs
<1>3. Leads(f, v, w.digits)
    BY <1>1, FirstDigit
<1>. HIDE DEF f
<1>2. y = [neg |-> w.neg, exp |-> w.exp + 1, digits |-> f]
    <2>1. w = [neg |-> w.neg, exp |-> w.exp, digits |-> w.digits]
        BY DEF Numbers
    <2>2. y = [w EXCEPT !.exp = w.exp + 1, !.digits = f]
        OBVIOUS
    <2>. HIDE DEF y
    <2>. QED BY <2>1, <2>2
<1>. HIDE DEF y
<1>4. y \in Numbers /\ y.neg = w.neg /\ y.exp = w.exp + 1 /\ y.digits = f
    <2>1. f \in Seq(Digit)
        BY <1>3 DEF Leads
    <2>. QED BY <1>1, <1>2, <2>1 DEF Numbers
<1>5. /\ Len(y.digits) = Len(w.digits) + 1 /\ Bottom(y) = Bottom(w)
      /\ Amount(y) = v * Rank(Len(w.digits)) + Read(w.digits, Len(w.digits))
                     - (IF y.neg THEN Base * Rank(Len(w.digits)) ELSE 0)
    BY <1>1, <1>3, <1>4, OneMoreDigit
<1>. QED BY <1>1, <1>4, <1>5 DEF y, f

(* The sign after a sum of what is not negative *)
LEMMA CarryPositive ==
    ASSUME NEW w \in Numbers, NEW b \in Numbers, ~b.neg, Len(w.digits) > 0,
           NEW carry \in BOOLEAN, NEW zero \in BOOLEAN
    PROVE  Adds(Carry(w, b, carry, zero), w, One(carry) * Rank(Len(w.digits)))
<1>. DEFINE L == Len(w.digits)
            R == Read(w.digits, L)
<1>1. w.neg \in BOOLEAN /\ L \in Nat /\ b.neg = FALSE /\ Rank(L) \in Nat
    <2>1. L \in Nat
        BY NumberIs
    <2>2. Rank(L) \in Nat
        BY <2>1, RankNext
    <2>. QED BY <2>1, <2>2 DEF Numbers
<1>2. R \in Int /\ Amount(w) = R - (IF w.neg THEN Rank(L) ELSE 0)
    <2>1. R \in Int
        BY NumberIs, ReadInt
    <2>. QED BY <2>1 DEF Amount
<1>3. CASE carry /\ w.neg
    <2>. DEFINE y == [w EXCEPT !.neg = FALSE]
    <2>1. Carry(w, b, carry, zero) = y
        BY <1>1, <1>3 DEF Carry
    <2>2. y \in Numbers /\ Bottom(y) = Bottom(w) /\ y.digits = w.digits /\ Amount(y) = R
        <3>1. /\ y \in Numbers /\ Bottom(y) = Bottom(w) /\ y.digits = w.digits
              /\ Amount(y) = Read(w.digits, Len(w.digits)) - (IF FALSE THEN Rank(Len(w.digits)) ELSE 0)
            BY SignedIs
        <3>. QED BY <3>1, <1>2
    <2>. HIDE DEF y, R, L
    <2>3. One(carry) = 1 /\ Amount(w) = R - Rank(L)
        BY <1>2, <1>3 DEF One
    <2>4. Amount(y) = Amount(w) + One(carry) * Rank(L)
        BY <2>2, <2>3, <1>1, <1>2
    <2>. QED BY <2>1, <2>2, <2>4 DEF Adds, L
<1>4. CASE carry /\ ~w.neg
    <2>. DEFINE y == [w EXCEPT !.exp = @ + 1, !.digits = <<1>> \o @]
    <2>1. Carry(w, b, carry, zero) = y
        BY <1>1, <1>4 DEF Carry
    <2>2. 1 \in Digit
        BY BaseIs
    <2>3. /\ y \in Numbers /\ Len(y.digits) > 0 /\ Bottom(y) = Bottom(w)
          /\ Amount(y) = 1 * Rank(L) + R - (IF w.neg THEN Base * Rank(L) ELSE 0)
        BY <2>2, LedIs
    <2>. HIDE DEF y, R, L
    <2>4. One(carry) = 1 /\ Amount(w) = R
        BY <1>2, <1>4 DEF One
    <2>5. Amount(y) = Amount(w) + One(carry) * Rank(L)
        BY <2>3, <2>4, <1>1, <1>2, <1>4
    <2>. QED BY <2>1, <2>3, <2>5 DEF Adds, L
<1>5. CASE ~carry
    <2>1. Carry(w, b, carry, zero) = w
        BY <1>1, <1>5 DEF Carry
    <2>2. One(carry) * Rank(L) = 0
        <3>. HIDE DEF L
        <3>. QED BY <1>1, <1>5 DEF One
    <2>3. Amount(w) \in Int
        BY NumberIs
    <2>. QED BY <2>1, <2>2, <2>3 DEF Adds
<1>. QED BY <1>3, <1>4, <1>5

(* The sign after the sum of a negative number and one that is not *)
LEMMA CarryNegative ==
    ASSUME NEW w \in Numbers, NEW b \in Numbers, b.neg, ~w.neg, Len(w.digits) > 0,
           NEW carry \in BOOLEAN, NEW zero \in BOOLEAN
    PROVE  Adds(Carry(w, b, carry, zero), w, (One(carry) - 1) * Rank(Len(w.digits)))
<1>. DEFINE L == Len(w.digits)
            R == Read(w.digits, L)
<1>1. w.neg = FALSE /\ L \in Nat /\ b.neg = TRUE /\ Rank(L) \in Nat
    <2>1. L \in Nat
        BY NumberIs
    <2>2. Rank(L) \in Nat
        BY <2>1, RankNext
    <2>. QED BY <2>1, <2>2 DEF Numbers
<1>2. R \in Int /\ Amount(w) = R
    <2>1. R \in Int
        BY NumberIs, ReadInt
    <2>. QED BY <2>1, Positive
<1>3. CASE carry
    <2>. DEFINE y == [w EXCEPT !.neg = FALSE]
    <2>1. Carry(w, b, carry, zero) = y
        BY <1>1, <1>3 DEF Carry
    <2>2. y = w
        BY <1>1 DEF Numbers
    <2>3. (One(carry) - 1) * Rank(L) = 0
        <3>. HIDE DEF L
        <3>. QED BY <1>1, <1>3 DEF One
    <2>. HIDE DEF y, R
    <2>4. Amount(w) = Amount(w) + (One(carry) - 1) * Rank(L)
        BY <2>3, <1>2
    <2>. QED BY <2>1, <2>2, <2>4 DEF Adds
<1>4. CASE ~carry
    <2>. DEFINE y == [w EXCEPT !.neg = TRUE]
    <2>1. Carry(w, b, carry, zero) = y
        BY <1>1, <1>4 DEF Carry
    <2>2. /\ y \in Numbers /\ Bottom(y) = Bottom(w) /\ y.digits = w.digits
          /\ Amount(y) = R - Rank(L)
        <3>1. /\ y \in Numbers /\ Bottom(y) = Bottom(w) /\ y.digits = w.digits
              /\ Amount(y) = Read(w.digits, Len(w.digits)) - (IF TRUE THEN Rank(Len(w.digits)) ELSE 0)
            BY SignedIs
        <3>. QED BY <3>1
    <2>. HIDE DEF y, R, L
    <2>3. (One(carry) - 1) * Rank(L) = -Rank(L)
        BY <1>1, <1>4 DEF One
    <2>4. Amount(y) = Amount(w) + (One(carry) - 1) * Rank(L)
        BY <2>2, <2>3, <1>1, <1>2
    <2>. QED BY <2>1, <2>2, <2>4 DEF Adds, L
<1>. QED BY <1>3, <1>4

(* It is a number in any case, with no digit below those of w. *)
LEMMA CarryNumber ==
    ASSUME NEW w \in Numbers, NEW b \in Numbers, Len(w.digits) > 0,
           NEW carry \in BOOLEAN, NEW zero \in BOOLEAN
    PROVE  LET y == Carry(w, b, carry, zero)
           IN y \in Numbers /\ Len(y.digits) > 0 /\ Bottom(y) >= Bottom(w)
<1>1. CASE ~b.neg
    BY <1>1, CarryPositive, NumberIs DEF Adds
<1>2. CASE b.neg /\ ~w.neg
    BY <1>2, CarryNegative, NumberIs DEF Adds
<1>3. CASE b.neg /\ w.neg
    <2>1. b.neg = TRUE /\ w.neg = TRUE
        BY <1>3 DEF Numbers
    <2>2. w.exp \in Int /\ Len(w.digits) \in Nat /\ Bottom(w) \in Int
        BY NumberIs
    <2>3. CASE carry /\ zero
        <3>. DEFINE f == <<MAX>>
                    y == [w EXCEPT !.exp = @ + 1, !.digits = f]
        <3>1. Carry(w, b, carry, zero) = y
            BY <2>1, <2>3 DEF Carry
        <3>2. f \in Seq(Digit) /\ Len(f) = 1
            BY BaseIs
        <3>. HIDE DEF f
        <3>5. y = [neg |-> w.neg, exp |-> w.exp + 1, digits |-> f]
            <4>1. w = [neg |-> w.neg, exp |-> w.exp, digits |-> w.digits]
                BY DEF Numbers
            <4>2. y = [w EXCEPT !.exp = w.exp + 1, !.digits = f]
                OBVIOUS
            <4>. HIDE DEF y
            <4>. QED BY <4>1, <4>2
        <3>. HIDE DEF y
        <3>3. y \in Numbers /\ y.exp = w.exp + 1 /\ y.digits = f
            BY <3>2, <3>5, <2>1, <2>2 DEF Numbers
        <3>6. Len(y.digits) = 1
            BY <3>2, <3>3
        <3>7. Bottom(y) = w.exp + 1
            BY <3>3, <3>6, <2>2 DEF Bottom
        <3>4. Bottom(y) >= Bottom(w)
            BY <3>7, <2>2 DEF Bottom
        <3>8. Len(y.digits) > 0
            BY <3>6
        <3>. QED BY <3>1, <3>3, <3>4, <3>8
    <2>4. CASE carry /\ ~zero
        <3>1. Carry(w, b, carry, zero) = w
            BY <2>1, <2>4 DEF Carry
        <3>. QED BY <3>1, <2>2
    <2>5. CASE ~carry
        <3>1. Carry(w, b, carry, zero) = [w EXCEPT !.exp = @ + 1, !.digits = <<MAX - 1>> \o @]
            BY <2>1, <2>5 DEF Carry
        <3>2. MAX - 1 \in Digit
            BY BaseIs
        <3>. DEFINE y == [w EXCEPT !.exp = @ + 1, !.digits = <<MAX - 1>> \o @]
        <3>3. y \in Numbers /\ Len(y.digits) > 0 /\ Bottom(y) = Bottom(w)
            BY <3>2, LedIs
        <3>. HIDE DEF y
        <3>4. Bottom(y) >= Bottom(w)
            BY <3>3, <2>2
        <3>5. Carry(w, b, carry, zero) = y
            BY <3>1 DEF y
        <3>. QED BY <3>3, <3>4, <3>5
    <2>. QED BY <2>3, <2>4, <2>5
<1>. QED BY <1>1, <1>2, <1>3

(* w has places for all the digits of b. *)
Covers(w, b) ==
    /\ w \in Numbers /\ b \in Numbers /\ Len(b.digits) > 0
    /\ b.exp <= w.exp /\ Bottom(w) <= Bottom(b)

(* Where the digits of the other number stand in the padded one. *)
LEMMA CoversIs ==
    ASSUME NEW w, NEW b, Covers(w, b), NEW top, top = w.exp - b.exp
    PROVE  /\ top \in Nat /\ Len(w.digits) \in Nat /\ Len(b.digits) \in Nat
           /\ top + Len(b.digits) <= Len(w.digits) /\ top + 1 \in 1..Len(w.digits)
           /\ Len(w.digits) - (top + Len(b.digits)) = Bottom(b) - Bottom(w)
<1>1. w \in Numbers /\ b \in Numbers /\ Len(b.digits) > 0 /\ b.exp <= w.exp /\ Bottom(w) <= Bottom(b)
    BY DEF Covers
<1>2. w.exp \in Int /\ b.exp \in Int /\ Len(w.digits) \in Nat /\ Len(b.digits) \in Nat
    BY <1>1, NumberIs
<1>. DEFINE L == Len(w.digits)
            m == Len(b.digits)
            e == w.exp
            f == b.exp
<1>3. Bottom(w) = e - L + 1 /\ Bottom(b) = f - m + 1
    BY DEF Bottom
<1>4. e \in Int /\ f \in Int /\ L \in Nat /\ m \in Nat /\ m > 0 /\ f <= e /\ top = e - f
    BY <1>1, <1>2
<1>. HIDE DEF L, m, e, f
<1>5. e - L + 1 <= f - m + 1
    BY <1>1, <1>3
<1>6. top \in Nat /\ top + m <= L
    BY <1>4, <1>5
<1>7. top + 1 \in 1..L
    BY <1>4, <1>6
<1>8. L - (top + m) = Bottom(b) - Bottom(w)
    BY <1>3, <1>4
<1>. QED BY <1>4, <1>6, <1>7, <1>8 DEF L, m

(* The digits and the carry that the sum leaves its sign to. *)
Ends(y, w, b, digits, carry) == \E zero \in BOOLEAN : y = Carry(Summed(w, digits), b, carry, zero)

(* The last carry of the sum, for any signs. *)
LEMMA EndsNumber ==
    ASSUME NEW w \in Numbers, NEW b \in Numbers, NEW d \in Seq(Digit), Len(d) = Len(w.digits),
           Len(d) > 0, NEW carry \in BOOLEAN, NEW y, Ends(y, w, b, d, carry)
    PROVE  /\ y \in Numbers /\ Len(y.digits) > 0 /\ Bottom(y) >= Bottom(w)
           /\ ~b.neg => /\ Bottom(y) = Bottom(w)
                        /\ Amount(y) = Read(d, Len(d)) - (IF w.neg THEN Rank(Len(d)) ELSE 0)
                                       + One(carry) * Rank(Len(d))
           /\ b.neg /\ ~w.neg => /\ Bottom(y) = Bottom(w)
                                 /\ Amount(y) = Read(d, Len(d)) + (One(carry) - 1) * Rank(Len(d))
<1>1. PICK zero \in BOOLEAN : y = Carry(Summed(w, d), b, carry, zero)
    BY DEF Ends
<1>. DEFINE s == Summed(w, d)
<1>2. /\ s \in Numbers /\ s.digits = d /\ s.neg = w.neg /\ Bottom(s) = Bottom(w)
      /\ Amount(s) = Read(d, Len(d)) - (IF w.neg THEN Rank(Len(d)) ELSE 0)
    BY SummedIs
<1>. HIDE DEF s
<1>3. Len(s.digits) > 0
    BY <1>2
<1>4. y \in Numbers /\ Len(y.digits) > 0 /\ Bottom(y) >= Bottom(s)
    <2>1. LET z == Carry(s, b, carry, zero)
          IN z \in Numbers /\ Len(z.digits) > 0 /\ Bottom(z) >= Bottom(s)
        BY <1>2, <1>3, CarryNumber
    <2>. QED BY <2>1, <1>1 DEF s
<1>5. ASSUME ~b.neg
      PROVE  /\ Bottom(y) = Bottom(w)
             /\ Amount(y) = Read(d, Len(d)) - (IF w.neg THEN Rank(Len(d)) ELSE 0)
                            + One(carry) * Rank(Len(d))
    <2>1. Adds(Carry(s, b, carry, zero), s, One(carry) * Rank(Len(s.digits)))
        BY <1>2, <1>3, <1>5, CarryPositive
    <2>2. Adds(y, s, One(carry) * Rank(Len(d)))
        BY <2>1, <1>1, <1>2 DEF s
    <2>. QED BY <2>2, <1>2 DEF Adds
<1>6. ASSUME b.neg, ~w.neg
      PROVE  /\ Bottom(y) = Bottom(w)
             /\ Amount(y) = Read(d, Len(d)) + (One(carry) - 1) * Rank(Len(d))
    <2>1. ~s.neg
        BY <1>2, <1>6
    <2>2. Adds(Carry(s, b, carry, zero), s, (One(carry) - 1) * Rank(Len(s.digits)))
        BY <1>2, <1>3, <1>6, <2>1, CarryNegative
    <2>3. Adds(y, s, (One(carry) - 1) * Rank(Len(d)))
        BY <2>2, <1>1, <1>2 DEF s
    <2>4. Amount(s) = Read(d, Len(d))
        <3>1. Read(d, Len(d)) \in Int
            BY SeqRow, ReadInt
        <3>. QED BY <3>1, <1>2, <1>6
    <2>. QED BY <2>3, <2>4, <1>2 DEF Adds
<1>. QED BY <1>2, <1>4, <1>5, <1>6

(* What the digits above those of b become. *)
Decremented(low, top) == [i \in DOMAIN low |-> IF i <= top THEN (low[i] - 1) % Base ELSE low[i]]
Above(b, top, low, carry) ==
    IF b.neg THEN Decremented(low, top)
    ELSE IF carry THEN PlusOne(low, top + 1, MAX, 1) ELSE low
CarryOut(w, b, top, low, carry) ==
    IF b.neg THEN carry \/ \E i \in 1..top : w.digits[i] # 0
    ELSE carry /\ Out(low, top + 1, MAX)

(* The sum of a padded number is made in these steps. *)
LEMMA PaddedEnds ==
    ASSUME NEW w, NEW b, NEW top, top = w.exp - b.exp, NEW at, at = Sums(w, b, top),
           NEW low, low = Below(w, b, top, at)
    PROVE  Ends(Padded(w, b), w, b, Above(b, top, low, at[top + 1].carry),
                CarryOut(w, b, top, low, at[top + 1].carry))
<1>. DEFINE c == at[top + 1].carry
            digits == Above(b, top, low, c)
            zero == /\ \A i \in (top + 1)..(top + Len(b.digits)) : digits[i] = 0
                    /\ b.neg => \A i \in 1..top : digits[i] = 0
<1>1. Padded(w, b) = Upper(w, b, top, low, c)
    BY DEF Padded, Lower, Below
<1>2. Upper(w, b, top, low, c) = Carry(Summed(w, digits), b, CarryOut(w, b, top, low, c), zero)
    BY DEF Upper, Above, CarryOut, Decremented, Summed
<1>3. zero \in BOOLEAN
    OBVIOUS
<1>. HIDE DEF digits, zero, c
<1>4. Ends(Padded(w, b), w, b, digits, CarryOut(w, b, top, low, c))
    BY <1>1, <1>2, <1>3 DEF Ends
<1>. QED BY <1>4 DEF digits, c

(* What is not negative is added to any number that is wide enough, *)
LEMMA PaddedPositive ==
    ASSUME NEW w, NEW b, Covers(w, b), ~b.neg
    PROVE  Adds(Padded(w, b), w, Amount(b) * Rank(Bottom(b) - Bottom(w)))
<1>. DEFINE top == w.exp - b.exp
            at == Sums(w, b, top)
            low == Below(w, b, top, at)
            c == at[top + 1].carry
            u == Above(b, top, low, c)
            out == CarryOut(w, b, top, low, c)
            y == Padded(w, b)
            d == w.digits
            L == Len(w.digits)
            m == Len(b.digits)
            k == L - (top + m)
<1>1. w \in Numbers /\ b \in Numbers
    BY DEF Covers
<1>2. /\ top \in Nat /\ L \in Nat /\ m \in Nat /\ top + m <= L /\ top + 1 \in 1..L
      /\ k = Bottom(b) - Bottom(w) /\ k \in Nat
    <2>. HIDE DEF top
    <2>1. top = w.exp - b.exp
        BY DEF top
    <2>2. /\ top \in Nat /\ L \in Nat /\ m \in Nat
          /\ top + m <= L /\ top + 1 \in 1..L
          /\ L - (top + m) = Bottom(b) - Bottom(w)
        BY <2>1, CoversIs
    <2>. HIDE DEF L, m
    <2>3. k \in Nat
        BY <2>2
    <2>. QED BY <2>2, <2>3
<1>3. Ends(y, w, b, u, out)
    <2>. HIDE DEF top, at, low, y
    <2>1. top = w.exp - b.exp /\ at = Sums(w, b, top) /\ low = Below(w, b, top, at)
        BY DEF top, at, low
    <2>2. Ends(Padded(w, b), w, b, Above(b, top, low, at[top + 1].carry),
                CarryOut(w, b, top, low, at[top + 1].carry))
        BY <2>1, PaddedEnds
    <2>. QED BY <2>2 DEF y
<1>. HIDE DEF top
<1>4. SumsUp(at, w, b, top)
    BY <1>1, <1>2, SumsAre
<1>. HIDE DEF at
<1>5. /\ low \in Seq(Digit) /\ Len(low) = L
      /\ Read(low, L) = Read(d, L) + (Read(b.digits, m) - One(c) * Rank(m)) * Rank(k)
    <2>1. low = Below(w, b, top, at)
        BY DEF low
    <2>. HIDE DEF low
    <2>2. top + Len(b.digits) <= Len(w.digits)
        BY <1>2
    <2>3. Lowered(low, w, b, top, at)
        BY <1>1, <1>2, <1>4, <2>1, <2>2, BelowRead
    <2>. QED BY <2>3 DEF Lowered
<1>6. c \in BOOLEAN
    <2>1. top + 1 \in (top + 1)..(top + Len(b.digits) + 1)
        BY <1>2
    <2>. QED BY <1>4, <2>1 DEF SumsUp
<1>7. b.neg = FALSE
    BY <1>1 DEF Numbers
<1>8. /\ Read(d, L) \in Int /\ Read(b.digits, m) \in Int /\ Amount(b) = Read(b.digits, m)
      /\ Amount(w) = Read(d, L) - (IF w.neg THEN Rank(L) ELSE 0) /\ Amount(w) \in Int
    <2>1. Read(d, L) \in Int /\ Read(b.digits, m) \in Int
        BY <1>1, NumberIs, ReadInt
    <2>2. Amount(b) = Read(b.digits, m)
        BY <1>1, Positive
    <2>3. Amount(w) \in Int
        BY <1>1, NumberIs
    <2>. QED BY <2>1, <2>2, <2>3 DEF Amount
<1>9. Rank(m) \in Int /\ Rank(k) \in Int /\ Rank(L) \in Int
    <2>1. Rank(m) \in Nat
        BY <1>2, RankNext
    <2>2. Rank(k) \in Nat
        BY <1>2, RankNext
    <2>3. Rank(L) \in Nat
        BY <1>2, RankNext
    <2>. QED BY <2>1, <2>2, <2>3
<1>. HIDE DEF low, c, L, m, k, d, y
<1>13. out \in BOOLEAN
    BY <1>6 DEF CarryOut
<1>10. /\ u \in Seq(Digit) /\ Len(u) = L
       /\ Read(u, L) = Read(d, L) + Read(b.digits, m) * Rank(k) - One(out) * Rank(L)
    <2>1. CASE c
        <3>1. u = PlusOne(low, top + 1, MAX, 1)
            BY <2>1, <1>7 DEF Above
        <3>2. out <=> Out(low, top + 1, MAX)
            BY <2>1, <1>7 DEF CarryOut
        <3>3. Carries(MAX, 1)
            BY DEF Carries
        <3>. DEFINE v == low[top + 1]
        <3>4. v \in Digit
            BY <1>2, <1>5
        <3>5. low = [low EXCEPT ![top + 1] = v]
            BY <1>5
        <3>6. Placed(low, low, top + 1, v)
            <4>1. top + 1 \in 1..Len(low)
                BY <1>2, <1>5
            <4>2. Placed([low EXCEPT ![top + 1] = v], low, top + 1, v)
                <5>. HIDE DEF v
                <5>. QED BY <1>5, <3>4, <4>1, PlaceRead
            <4>. QED BY <3>5, <4>2
        <3>. HIDE DEF u, out
        <3>7. /\ u \in Seq(Digit) /\ Len(u) = Len(low)
              /\ Read(u, Len(low)) = Read(low, Len(low)) + (v - low[top + 1] + 1 * Base) * Rank(Len(low) - (top + 1))
                                     - (IF Out(low, top + 1, MAX) THEN 1 * Rank(Len(low)) ELSE 0)
            <4>. HIDE DEF v
            <4>1. top + 1 \in 1..Len(low)
                BY <1>2, <1>5
            <4>. QED BY <1>5, <3>1, <3>3, <3>4, <3>6, <4>1, CarriedRead
        <3>8. v - low[top + 1] + 1 * Base = Base
            BY <3>4, BaseIs
        <3>. HIDE DEF v
        <3>9. Read(u, L) = Read(low, L) + Base * Rank(L - (top + 1)) - One(out) * Rank(L)
            <4>1. Read(u, L) = Read(low, L) + Base * Rank(L - (top + 1)) - (IF out THEN 1 * Rank(L) ELSE 0)
                BY <3>2, <3>7, <3>8, <1>5
            <4>2. (IF out THEN 1 * Rank(L) ELSE 0) = One(out) * Rank(L)
                BY <1>9 DEF One
            <4>. QED BY <4>1, <4>2
        <3>10. Base * Rank(L - (top + 1)) = Rank(m) * Rank(k)
            <4>1. L - (top + 1) \in Nat /\ (L - (top + 1)) + 1 = m + k
                BY <1>2 DEF k
            <4>2. Rank(m + k) = Rank(m) * Rank(k)
                BY <1>2, RankSum
            <4>3. Rank((L - (top + 1)) + 1) = Base * Rank(L - (top + 1))
                BY <4>1, RankNext
            <4>. QED BY <4>1, <4>2, <4>3
        <3>11. One(c) = 1
            BY <2>1 DEF One
        <3>12. Read(low, L) = Read(d, L) + Read(b.digits, m) * Rank(k) - Rank(m) * Rank(k)
            <4>1. Read(low, L) = Read(d, L) + (Read(b.digits, m) - Rank(m)) * Rank(k)
                BY <3>11, <1>5, <1>9
            <4>2. (Read(b.digits, m) - Rank(m)) * Rank(k) = Read(b.digits, m) * Rank(k) - Rank(m) * Rank(k)
                BY <1>8, <1>9
            <4>3. Read(b.digits, m) * Rank(k) \in Int /\ Rank(m) * Rank(k) \in Int
                BY <1>8, <1>9
            <4>. QED BY <4>1, <4>2, <4>3, <1>8
        <3>13. Read(b.digits, m) * Rank(k) \in Int /\ Rank(m) * Rank(k) \in Int /\ One(out) * Rank(L) \in Int
            <4>1. One(out) \in Int
                BY DEF One
            <4>. QED BY <4>1, <1>8, <1>9
        <3>14. Read(u, L) = Read(d, L) + Read(b.digits, m) * Rank(k) - One(out) * Rank(L)
            BY <3>9, <3>10, <3>12, <3>13, <1>8
        <3>. QED BY <3>7, <3>14, <1>5
    <2>2. CASE ~c
        <3>1. u = low /\ ~out
            BY <2>2, <1>6, <1>7 DEF Above, CarryOut
        <3>2. One(c) = 0 /\ One(out) = 0
            BY <2>2, <3>1 DEF One
        <3>3. Read(low, L) = Read(d, L) + Read(b.digits, m) * Rank(k)
            BY <3>2, <1>5, <1>8, <1>9
        <3>4. One(out) * Rank(L) = 0 /\ Read(b.digits, m) * Rank(k) \in Int
            BY <3>2, <1>8, <1>9
        <3>. HIDE DEF u, out
        <3>5. Read(low, L) = Read(d, L) + Read(b.digits, m) * Rank(k) - One(out) * Rank(L)
            BY <3>3, <3>4, <1>8
        <3>. QED BY <3>1, <3>5, <1>5
    <2>. QED BY <1>6, <2>1, <2>2
<1>. HIDE DEF u, out
<1>11. /\ y \in Numbers /\ Len(y.digits) > 0 /\ Bottom(y) = Bottom(w)
       /\ Amount(y) = Read(u, L) - (IF w.neg THEN Rank(L) ELSE 0) + One(out) * Rank(L)
    <2>1. Len(u) = Len(w.digits) /\ Len(u) > 0
        BY <1>10, <1>2 DEF L
    <2>2. /\ y \in Numbers /\ Len(y.digits) > 0
          /\ ~b.neg => /\ Bottom(y) = Bottom(w)
                       /\ Amount(y) = Read(u, Len(u)) - (IF w.neg THEN Rank(Len(u)) ELSE 0)
                                      + One(out) * Rank(Len(u))
        BY <1>1, <1>3, <1>10, <1>13, <2>1, EndsNumber
    <2>. QED BY <2>2, <1>10
<1>12. Amount(y) = Amount(w) + Amount(b) * Rank(k)
    <2>1. One(out) * Rank(L) \in Int /\ Read(b.digits, m) * Rank(k) \in Int
        <3>1. One(out) \in Int
            BY DEF One
        <3>. QED BY <3>1, <1>8, <1>9
    <2>. DEFINE sign == IF w.neg THEN Rank(L) ELSE 0
                o == One(out) * Rank(L)
                p == Read(b.digits, m) * Rank(k)
                D == Read(d, L)
                U == Read(u, L)
    <2>2. sign \in Int /\ o \in Int /\ p \in Int /\ D \in Int
        BY <2>1, <1>8, <1>9
    <2>3. Amount(y) = U - sign + o /\ U = D + p - o /\ Amount(w) = D - sign
        BY <1>8, <1>10, <1>11
    <2>4. Amount(b) * Rank(k) = p
        BY <1>8
    <2>. HIDE DEF sign, o, p, D, U
    <2>5. Amount(y) = Amount(w) + p
        BY <2>2, <2>3
    <2>. QED BY <2>4, <2>5
<1>. QED BY <1>2, <1>11, <1>12 DEF Adds, y

(* The steps together. *)
LEMMA PaddedSteps ==
    ASSUME NEW w, NEW b, Covers(w, b), NEW top, top = w.exp - b.exp
    PROVE  \E at, low : /\ SumsUp(at, w, b, top) /\ Lowered(low, w, b, top, at)
                        /\ Ends(Padded(w, b), w, b, Above(b, top, low, at[top + 1].carry),
                                CarryOut(w, b, top, low, at[top + 1].carry))
<1>1. w \in Numbers /\ b \in Numbers
    BY DEF Covers
<1>2. top \in Nat /\ top + Len(b.digits) <= Len(w.digits)
    BY CoversIs
<1>. DEFINE at == Sums(w, b, top)
            low == Below(w, b, top, at)
<1>3. SumsUp(at, w, b, top)
    BY <1>1, <1>2, SumsAre
<1>4. Lowered(low, w, b, top, at)
    <2>. HIDE DEF at
    <2>. QED BY <1>1, <1>2, <1>3, BelowRead
<1>5. Ends(Padded(w, b), w, b, Above(b, top, low, at[top + 1].carry),
           CarryOut(w, b, top, low, at[top + 1].carry))
    <2>. HIDE DEF at, low
    <2>1. at = Sums(w, b, top) /\ low = Below(w, b, top, at)
        BY DEF at, low
    <2>. QED BY <2>1, PaddedEnds
<1>. HIDE DEF at, low
<1>. QED BY <1>3, <1>4, <1>5

(* The carry above the other number's digits leaves digits. *)
LEMMA AboveIs ==
    ASSUME NEW b \in Numbers, NEW top \in Nat, NEW low \in Seq(Digit), NEW carry \in BOOLEAN
    PROVE  Above(b, top, low, carry) \in Seq(Digit) /\ Len(Above(b, top, low, carry)) = Len(low)
<1>1. CASE ~b.neg
    <2>1. Carries(MAX, 1)
        BY DEF Carries
    <2>2. PlusOne(low, top + 1, MAX, 1) \in Seq(Digit) /\ Len(PlusOne(low, top + 1, MAX, 1)) = Len(low)
        BY <2>1, PlusOneIs
    <2>. QED BY <1>1, <2>2 DEF Above
<1>2. CASE b.neg
    <2>. DEFINE u == Decremented(low, top)
    <2>1. Above(b, top, low, carry) = u
        BY <1>2 DEF Above
    <2>2. Carries(0, -1)
        BY DEF Carries
    <2>3. Len(low) \in Nat /\ DOMAIN low = 1..Len(low) /\ \A i \in 1..Len(low) : low[i] \in Digit
        OBVIOUS
    <2>4. \A v \in Digit : (v - 1) % Base \in Digit
        <3>1. \A v \in Digit : (v + -1) % Base \in Digit
            BY <2>2, CarryIs
        <3>2. \A v \in Digit : v + -1 = v - 1
            BY BaseIs
        <3>. QED BY <3>1, <3>2
    <2>5. u \in [1..Len(low) -> Digit]
        BY <2>3, <2>4 DEF Decremented
    <2>. HIDE DEF u
    <2>6. u \in Seq(Digit) /\ Len(u) = Len(low)
        BY <2>3, <2>5, MadeSeq
    <2>. QED BY <2>1, <2>6
<1>. QED BY <1>1, <1>2

(* any number is a number again with any other, *)
LEMMA PaddedNumber ==
    ASSUME NEW w, NEW b, Covers(w, b)
    PROVE  LET y == Padded(w, b)
           IN y \in Numbers /\ Len(y.digits) > 0 /\ Bottom(y) >= Bottom(w)
<1>. DEFINE top == w.exp - b.exp
            y == Padded(w, b)
<1>1. top = w.exp - b.exp
    OBVIOUS
<1>. HIDE DEF top, y
<1>2. PICK at, low : /\ SumsUp(at, w, b, top) /\ Lowered(low, w, b, top, at)
                     /\ Ends(y, w, b, Above(b, top, low, at[top + 1].carry),
                             CarryOut(w, b, top, low, at[top + 1].carry))
    BY <1>1, PaddedSteps DEF y
<1>. DEFINE c == at[top + 1].carry
            u == Above(b, top, low, c)
            out == CarryOut(w, b, top, low, c)
<1>3. w \in Numbers /\ b \in Numbers /\ top \in Nat /\ Len(w.digits) \in Nat /\ Len(w.digits) > 0
    <2>1. /\ top \in Nat /\ Len(w.digits) \in Nat /\ top + 1 \in 1..Len(w.digits)
        BY <1>1, CoversIs
    <2>. QED BY <2>1 DEF Covers
<1>4. c \in BOOLEAN
    <2>1. Len(b.digits) \in Nat
        BY <1>3, NumberIs
    <2>2. top + 1 \in (top + 1)..(top + Len(b.digits) + 1)
        BY <1>3, <2>1
    <2>. QED BY <1>2, <2>2 DEF SumsUp
<1>5. low \in Seq(Digit) /\ Len(low) = Len(w.digits)
    BY <1>2 DEF Lowered
<1>6. Ends(y, w, b, u, out)
    BY <1>2
<1>. HIDE DEF c
<1>7. out \in BOOLEAN
    BY <1>4 DEF CarryOut
<1>8. u \in Seq(Digit) /\ Len(u) = Len(w.digits)
    BY <1>3, <1>4, <1>5, AboveIs
<1>. HIDE DEF u, out
<1>9. Len(u) > 0
    BY <1>3, <1>8
<1>10. y \in Numbers /\ Len(y.digits) > 0 /\ Bottom(y) >= Bottom(w)
    BY <1>3, <1>6, <1>7, <1>8, <1>9, EndsNumber
<1>. QED BY <1>10 DEF y

(* and a negative number is added to one that is not and has no digits      *)
(* above it, or one digit above that has to be decremented.                 *)
Below1(w, b) ==
    /\ b.exp = w.exp - 1 /\ Len(b.digits) = 1
    /\ w.digits[2] = 0 /\ w.digits[1] # 0

(* A negative number is added to a positive one that is no longer in front,  *)
(* or has room for one digit.                                                *)
LEMMA PaddedNegative ==
    ASSUME NEW w, NEW b, Covers(w, b), b.neg, ~w.neg, b.exp = w.exp \/ Below1(w, b)
    PROVE  Adds(Padded(w, b), w, Amount(b) * Rank(Bottom(b) - Bottom(w)))
<1>. DEFINE top == w.exp - b.exp
            y == Padded(w, b)
            d == w.digits
            L == Len(w.digits)
            m == Len(b.digits)
            k == L - (top + m)
<1>1. top = w.exp - b.exp
    OBVIOUS
<1>. HIDE DEF top, y
<1>2. PICK at, low : /\ SumsUp(at, w, b, top) /\ Lowered(low, w, b, top, at)
                     /\ Ends(y, w, b, Above(b, top, low, at[top + 1].carry),
                             CarryOut(w, b, top, low, at[top + 1].carry))
    BY <1>1, PaddedSteps DEF y
<1>. DEFINE c == at[top + 1].carry
            u == Above(b, top, low, c)
            out == CarryOut(w, b, top, low, c)
<1>3. /\ w \in Numbers /\ b \in Numbers /\ top \in Nat /\ L \in Nat /\ L > 0 /\ m \in Nat /\ m > 0
      /\ top + m <= L /\ k = Bottom(b) - Bottom(w)
    <2>1. /\ top \in Nat /\ L \in Nat /\ top + 1 \in 1..L /\ m \in Nat /\ top + m <= L
          /\ L - (top + m) = Bottom(b) - Bottom(w)
        BY <1>1, CoversIs
    <2>2. w \in Numbers /\ b \in Numbers /\ m > 0
        BY DEF Covers
    <2>. HIDE DEF L, m
    <2>3. L > 0
        BY <2>1
    <2>. QED BY <2>1, <2>2, <2>3
<1>4. c \in BOOLEAN
    <2>1. top + 1 \in (top + 1)..(top + Len(b.digits) + 1)
        BY <1>3
    <2>. QED BY <1>2, <2>1 DEF SumsUp
<1>5. /\ low \in Seq(Digit) /\ Len(low) = L
      /\ Read(low, L) = Read(d, L) + (Read(b.digits, m) - One(c) * Rank(m)) * Rank(k)
      /\ \A i \in 1..L : low[i] = IF i \in (top + 1)..(top + m) THEN at[i].digit ELSE d[i]
    BY <1>2 DEF Lowered
<1>6. Ends(y, w, b, u, out)
    BY <1>2
<1>7. /\ Read(d, L) \in Int /\ Amount(w) = Read(d, L)
      /\ Read(b.digits, m) \in Int /\ Amount(b) = Read(b.digits, m) - Rank(m)
    <2>1. Read(d, L) \in Int /\ Read(b.digits, m) \in Int
        BY <1>3, NumberIs, ReadInt
    <2>2. Amount(b) = Read(b.digits, m) - Rank(m)
        BY <1>3, Negative
    <2>3. Amount(w) = Read(d, L)
        BY <1>3, Positive
    <2>. QED BY <2>1, <2>2, <2>3
<1>8. w.digits \in Seq(Digit) /\ b.digits \in Seq(Digit)
    BY <1>3, NumberIs
<1>9. k \in Nat /\ Rank(m) \in Int /\ Rank(k) \in Int /\ Rank(L) \in Int
    <2>1. k \in Nat
        <3>. HIDE DEF L, m
        <3>. QED BY <1>3
    <2>2. Rank(m) \in Nat
        BY <1>3, RankNext
    <2>3. Rank(k) \in Nat
        BY <2>1, RankNext
    <2>4. Rank(L) \in Nat
        BY <1>3, RankNext
    <2>. QED BY <2>1, <2>2, <2>3, <2>4
<1>10. out \in BOOLEAN
    BY <1>4 DEF CarryOut
<1>11. u \in Seq(Digit) /\ Len(u) = L
    <2>. HIDE DEF c, L
    <2>1. low \in Seq(Digit) /\ Len(low) = L /\ b \in Numbers /\ top \in Nat
        BY <1>3, <1>5
    <2>2. u \in Seq(Digit) /\ Len(u) = Len(low)
        BY <1>4, <2>1, AboveIs
    <2>. QED BY <2>1, <2>2
<1>12. u = Decremented(low, top)
    BY DEF Above
<1>13. \A i \in 1..L : u[i] = IF i <= top THEN (low[i] - 1) % Base ELSE low[i]
    BY <1>5, <1>12 DEF Decremented
<1>. HIDE DEF u, out, c
<1>14. Bottom(y) = Bottom(w) /\ Amount(y) = Read(u, L) + (One(out) - 1) * Rank(L)
       /\ y \in Numbers /\ Len(y.digits) > 0
    <2>1. Len(u) > 0
        BY <1>3, <1>11
    <2>2. /\ y \in Numbers /\ Len(y.digits) > 0
          /\ b.neg /\ ~w.neg => /\ Bottom(y) = Bottom(w)
                                /\ Amount(y) = Read(u, Len(u)) + (One(out) - 1) * Rank(Len(u))
        BY <1>3, <1>6, <1>10, <1>11, <2>1, EndsNumber
    <2>. QED BY <2>2, <1>11
<1>. DEFINE R == Read(d, L)
            B == Read(b.digits, m)
            rm == Rank(m)
            rk == Rank(k)
            rL == Rank(L)
            o == One(out)
            oc == One(c)
<1>15. R \in Int /\ B \in Int /\ rm \in Int /\ rk \in Int /\ rL \in Int /\ o \in Int /\ oc \in Int
    BY <1>7, <1>9 DEF One
<1>16. Amount(y) = Amount(w) + Amount(b) * rk
    <2>1. CASE b.exp = w.exp
        <3>1. top = 0
            <4>1. w.exp \in Int
                BY <1>3, NumberIs
            <4>. QED BY <4>1, <2>1, <1>1
        <3>2. \A i \in 1..L : u[i] = low[i]
            BY <3>1, <1>13
        <3>3. Read(u, L) = Read(low, L)
            <4>1. Row(low, L)
                BY <1>5, <1>3, SeqRow
            <4>. QED BY <3>2, <4>1, <1>3, ReadSame
        <3>4. o = oc
            <4>1. out <=> c
                BY <3>1 DEF out, CarryOut
            <4>. QED BY <4>1 DEF One
        <3>5. rm * rk = rL
            <4>1. m + k = L
                <5>. HIDE DEF L, m
                <5>. QED BY <3>1, <1>3
            <4>. QED BY <4>1, <1>3, <1>9, RankSum
        <3>6. Amount(y) = R + (B - oc * rm) * rk + (oc - 1) * rL /\ Amount(b) = B - rm /\ Amount(w) = R
            BY <3>3, <3>4, <1>5, <1>7, <1>14
        <3>. HIDE DEF R, B, rm, rk, rL, o, oc
        <3>7. (B - oc * rm) * rk = B * rk - oc * rL
            <4>1. (B - oc * rm) * rk = B * rk - (oc * rm) * rk
                BY <1>15
            <4>2. (oc * rm) * rk = oc * (rm * rk)
                BY <1>15
            <4>. QED BY <4>1, <4>2, <3>5
        <3>8. (oc - 1) * rL = oc * rL - rL /\ (B - rm) * rk = B * rk - rL
            BY <3>5, <1>15
        <3>9. B * rk \in Int /\ oc * rL \in Int
            BY <1>15
        <3>10. Amount(y) = R + (B * rk - oc * rL) + (oc * rL - rL)
            BY <3>6, <3>7, <3>8
        <3>11. Amount(y) = R + (B * rk - rL)
            BY <3>9, <3>10, <1>15
        <3>. QED BY <3>6, <3>8, <3>11
    <2>2. CASE Below1(w, b)
        <3>1. top = 1 /\ m = 1 /\ d[2] = 0 /\ d[1] # 0
            <4>1. w.exp \in Int
                BY <1>3, NumberIs
            <4>. QED BY <4>1, <2>2, <1>1 DEF Below1
        <3>2. 1 \in 1..L /\ 2 \in 1..L
            <4>. HIDE DEF L, m
            <4>. QED BY <3>1, <1>3
        <3>3. b.digits[1] \in Digit /\ d[1] \in Digit
            BY <3>1, <3>2, <1>8
        <3>4. ~c
            <4>1. at[3].carry = FALSE
                BY <3>1, <1>2 DEF SumsUp
            <4>2. at[2].digit \in Digit /\ One(at[2].carry) * Base + at[2].digit = d[2] + b.digits[2 - 1] + One(at[2 + 1].carry)
                <5>1. 2 \in (top + 1)..(top + Len(b.digits))
                    BY <3>1
                <5>. QED BY <3>1, <5>1, <1>2 DEF SumsUp
            <4>3. One(at[2].carry) * Base + at[2].digit = b.digits[1]
                BY <3>1, <3>3, <4>1, <4>2, BaseIs DEF One
            <4>4. c <=> at[2].carry
                BY <3>1 DEF c
            <4>. QED BY <3>3, <4>2, <4>3, <4>4, BaseIs DEF One
        <3>5. out
            <4>1. 1 \in 1..top
                BY <3>1
            <4>. QED BY <3>1, <4>1 DEF out, CarryOut
        <3>6. low[1] = d[1]
            BY <3>1, <3>2, <1>5
        <3>. DEFINE v == d[1] - 1
        <3>7. v \in Digit /\ (d[1] - 1) % Base = v
            BY <3>1, <3>3, BaseIs, SMTT(30)
        <3>8. Placed([low EXCEPT ![1] = v], low, 1, v)
            <4>1. 1 \in 1..Len(low)
                BY <3>2, <1>5
            <4>. HIDE DEF v
            <4>. QED BY <3>7, <4>1, <1>5, PlaceRead
        <3>9. u = [low EXCEPT ![1] = v]
            <4>. DEFINE z == [low EXCEPT ![1] = v]
            <4>1. z \in Seq(Digit) /\ Len(z) = L /\ z[1] = v /\ \A j \in 1..L : j # 1 => z[j] = low[j]
                BY <3>8, <1>5 DEF Placed
            <4>. HIDE DEF z, v, L
            <4>2. \A j \in 1..L : z[j] = u[j]
                <5>1. ASSUME NEW j \in 1..L PROVE z[j] = u[j]
                    <6>1. CASE j = 1
                        BY <6>1, <4>1, <1>13, <3>1, <3>2, <3>6, <3>7
                    <6>2. CASE j # 1
                        <7>1. ~(j <= top)
                            BY <3>1, <6>2, <1>3
                        <7>. QED BY <6>2, <7>1, <4>1, <1>13
                    <6>. QED BY <6>1, <6>2
                <5>. QED BY <5>1
            <4>3. u = z
                BY <4>1, <4>2, <1>11
            <4>. QED BY <4>3 DEF z
        <3>10. Read(u, L) = Read(low, L) - Rank(L - 1)
            <4>1. Read(u, L) = Read(low, L) + (v - low[1]) * Rank(L - 1)
                BY <3>8, <3>9, <1>5 DEF Placed
            <4>2. v - low[1] = -1
                BY <3>3, <3>6, BaseIs
            <4>3. Rank(L - 1) \in Nat
                <5>1. L - 1 \in Nat
                    BY <1>3
                <5>. QED BY <5>1, RankNext
            <4>4. Read(low, L) \in Int
                <5>1. Row(low, L)
                    BY <1>5, <1>3, SeqRow
                <5>. QED BY <5>1, <1>3, ReadInt
            <4>. HIDE DEF v
            <4>. QED BY <4>1, <4>2, <4>3, <4>4
        <3>11. Rank(L - 1) = rm * rk
            <4>1. L - 1 = m + k
                <5>. HIDE DEF L, m
                <5>. QED BY <3>1, <1>3
            <4>. QED BY <4>1, <1>3, <1>9, RankSum
        <3>12. o = 1 /\ oc = 0
            BY <3>4, <3>5 DEF One
        <3>13. /\ Amount(y) = Read(u, L) + (o - 1) * rL /\ Amount(b) = B - rm /\ Amount(w) = R
               /\ Read(u, L) = R + (B - oc * rm) * rk - rm * rk
            <4>1. Read(low, L) = R + (B - oc * rm) * rk
                BY <1>5
            <4>2. Read(u, L) = Read(low, L) - rm * rk
                BY <3>10, <3>11
            <4>3. Amount(y) = Read(u, L) + (o - 1) * rL
                BY <1>14
            <4>4. Amount(b) = B - rm /\ Amount(w) = R
                BY <1>7
            <4>. HIDE DEF R, B, rm, rk, rL, o, oc
            <4>5. (B - oc * rm) * rk \in Int /\ rm * rk \in Int
                BY <1>15
            <4>6. Read(u, L) = R + (B - oc * rm) * rk - rm * rk
                BY <4>1, <4>2, <4>5, <1>15
            <4>. QED BY <4>3, <4>4, <4>6
        <3>. HIDE DEF R, B, rm, rk, rL, o, oc
        <3>14. (B - oc * rm) * rk = B * rk /\ (o - 1) * rL = 0
            BY <3>12, <1>15
        <3>15. (B - rm) * rk = B * rk - rm * rk /\ B * rk \in Int /\ rm * rk \in Int
            BY <1>15
        <3>16. Read(u, L) = R + B * rk - rm * rk
            BY <3>13, <3>14
        <3>17. Amount(y) = R + (B * rk - rm * rk)
            BY <3>13, <3>14, <3>15, <3>16, <1>15
        <3>. QED BY <3>13, <3>15, <3>17
    <2>. QED BY <2>1, <2>2
<1>. QED BY <1>3, <1>14, <1>16 DEF Adds, y

(* b is added to a exactly: it is not negative, and a not minus a power of  *)
(* the base that has to be extended; or it is negative, a is not, and its   *)
(* digits are not above those of b, but for one.                            *)
OneAbove(a, b) ==
    /\ a.exp = b.exp + 1 /\ Len(a.digits) = 1 /\ Len(b.digits) = 1 /\ a.digits[1] # 0
Summable(a, b) ==
    IF b.neg THEN ~a.neg /\ (a.exp <= b.exp \/ OneAbove(a, b))
    ELSE ~(SignAlone(a) /\ a.exp < b.exp)

Least(m, n) == IF m < n THEN m ELSE n

(* pad() makes operator+= room for the other number. *)
LEMMA PlusCovers ==
    ASSUME NEW a \in Numbers, NEW b \in Numbers, Len(b.digits) > 0,
           NEW w, w = pad(a, b.exp, Bottom(b))
    PROVE  Covers(w, b) /\ Bottom(w) = Least(Bottom(a), Bottom(b))
<1>1. a.exp \in Int /\ b.exp \in Int /\ Bottom(a) \in Int /\ Bottom(b) \in Int
    BY NumberIs
<1>2. Pads(w, a, b.exp, Bottom(b))
    BY <1>1, Paddings
<1>3. /\ w \in Numbers /\ w.exp = a.exp + Front(a, b.exp)
      /\ Bottom(w) = Bottom(a) - Back(a, Bottom(b))
    BY <1>2 DEF Pads
<1>4. b.exp <= w.exp
    BY <1>1, <1>3 DEF Front
<1>5. Bottom(w) = Least(Bottom(a), Bottom(b)) /\ Bottom(w) <= Bottom(b)
    <2>. DEFINE A == Bottom(a)
                B == Bottom(b)
    <2>1. A \in Int /\ B \in Int /\ Bottom(w) = A - (IF A > B THEN A - B ELSE 0)
        BY <1>1, <1>3 DEF Back
    <2>. HIDE DEF A, B
    <2>2. Bottom(w) = Least(A, B) /\ Bottom(w) <= B
        BY <2>1 DEF Least
    <2>. QED BY <2>2 DEF A, B
<1>. QED BY <1>3, <1>4, <1>5 DEF Covers

(* A sum is a trimmed number, whatever is added. *)
LEMMA PlusNumber ==
    ASSUME NEW a \in Numbers, NEW b \in Numbers, Len(b.digits) > 0
    PROVE  /\ Plus(a, b) \in Numbers /\ Trimmed(Plus(a, b))
           /\ Bottom(Plus(a, b)) >= Least(Bottom(a), Bottom(b))
<1>. DEFINE w == pad(a, b.exp, Bottom(b))
            y == Padded(w, b)
<1>1. Plus(a, b) = trim(y)
    BY DEF Plus, Bottom
<1>2. Covers(w, b) /\ Bottom(w) = Least(Bottom(a), Bottom(b))
    BY PlusCovers
<1>. HIDE DEF w
<1>3. y \in Numbers /\ Len(y.digits) > 0 /\ Bottom(y) >= Bottom(w)
    BY <1>2, PaddedNumber
<1>. HIDE DEF y
<1>4. trim(y) \in Numbers /\ Trimmed(trim(y)) /\ Bottom(trim(y)) >= Bottom(y)
    BY <1>3, TrimIs, TrimFits
<1>5. Bottom(y) \in Int /\ Bottom(w) \in Int /\ Bottom(trim(y)) \in Int
    BY <1>2, <1>3, <1>4, NumberIs DEF Covers
<1>6. Bottom(trim(y)) >= Least(Bottom(a), Bottom(b))
    BY <1>2, <1>3, <1>4, <1>5
<1>. QED BY <1>1, <1>4, <1>6

(* A sum is exact where Summable allows it. *)
LEMMA PlusValue ==
    ASSUME NEW a \in Numbers, NEW b \in Numbers, Len(b.digits) > 0, a.neg => Len(a.digits) > 0,
           Summable(a, b), NEW s \in Int, Bottom(a) + s >= 0, Bottom(b) + s >= 0
    PROVE  Value(Plus(a, b), s) = Value(a, s) + Value(b, s)
<1>. DEFINE w == pad(a, b.exp, Bottom(b))
            y == Padded(w, b)
<1>1. Plus(a, b) = trim(y)
    BY DEF Plus, Bottom
<1>2. Covers(w, b) /\ Bottom(w) = Least(Bottom(a), Bottom(b))
    BY PlusCovers
<1>3. /\ a.exp \in Int /\ b.exp \in Int /\ Bottom(a) \in Int /\ Bottom(b) \in Int
      /\ a.neg \in BOOLEAN /\ b.neg \in BOOLEAN /\ Amount(b) \in Int
    BY NumberIs
<1>4. ~(SignAlone(a) /\ a.exp < b.exp)
    BY <1>3 DEF Summable, SignAlone
<1>5. Widens(w, a, Front(a, b.exp), Back(a, Bottom(b)))
    BY <1>3, <1>4, PadWidens
<1>. HIDE DEF w
<1>6. w \in Numbers /\ Bottom(w) \in Int /\ Bottom(w) + s >= 0 /\ Bottom(b) >= Bottom(w)
    <2>1. w \in Numbers
        BY <1>2 DEF Covers
    <2>2. Bottom(w) \in Int
        BY <2>1, NumberIs
    <2>. QED BY <2>1, <2>2, <1>2, <1>3 DEF Least
<1>7. Value(w, s) = Value(a, s)
    BY <1>5, <1>6, SameValue
<1>8. Adds(y, w, Amount(b) * Rank(Bottom(b) - Bottom(w)))
    <2>1. CASE ~b.neg
        BY <2>1, <1>2, PaddedPositive
    <2>2. CASE b.neg
        <3>1. ~a.neg /\ (a.exp <= b.exp \/ OneAbove(a, b))
            BY <2>2 DEF Summable
        <3>2. ~w.neg /\ w.exp = a.exp + Front(a, b.exp)
            BY <3>1, <1>5 DEF Widens
        <3>3. CASE a.exp <= b.exp
            <4>1. b.exp = w.exp
                BY <3>2, <3>3, <1>3 DEF Front
            <4>. QED BY <4>1, <3>2, <2>2, <1>2, PaddedNegative
        <3>4. CASE OneAbove(a, b)
            <4>1. a.exp = b.exp + 1 /\ Len(a.digits) = 1 /\ Len(b.digits) = 1 /\ a.digits[1] # 0
                BY <3>4 DEF OneAbove
            <4>2. Front(a, b.exp) = 0
                BY <4>1, <1>3 DEF Front
            <4>3. Back(a, Bottom(b)) = 1
                <5>1. Bottom(a) = a.exp /\ Bottom(b) = b.exp
                    BY <4>1, <1>3 DEF Bottom
                <5>. QED BY <5>1, <4>1, <1>3 DEF Back
            <4>4. /\ \A i \in 1..1 : w.digits[0 + i] = a.digits[i]
                  /\ \A i \in 1..1 : w.digits[0 + 1 + i] = 0
                BY <4>1, <4>2, <4>3, <1>5 DEF Widens
            <4>5. w.digits[1] = a.digits[1] /\ w.digits[2] = 0
                <5>1. 1 \in 1..1 /\ 0 + 1 = 1 /\ 0 + 1 + 1 = 2
                    OBVIOUS
                <5>. QED BY <5>1, <4>4
            <4>6. b.exp = w.exp - 1
                BY <3>2, <4>1, <4>2, <1>3
            <4>7. Below1(w, b)
                BY <4>1, <4>5, <4>6 DEF Below1
            <4>. QED BY <4>7, <3>2, <2>2, <1>2, PaddedNegative
        <3>. QED BY <3>1, <3>3, <3>4
    <2>. QED BY <2>1, <2>2
<1>. HIDE DEF y
<1>9. Value(y, s) = Value(w, s) + Amount(b) * Rank(Bottom(b) + s)
    BY <1>3, <1>6, <1>8, AddsValue
<1>10. Value(b, s) = Amount(b) * Rank(Bottom(b) + s)
    BY ValueIs
<1>11. Value(trim(y), s) = Value(y, s)
    <2>1. y \in Numbers /\ Len(y.digits) > 0 /\ Bottom(y) + s >= 0
        BY <1>6, <1>8 DEF Adds
    <2>. QED BY <2>1, TrimValue
<1>. QED BY <1>1, <1>7, <1>9, <1>10, <1>11

(* Digits are added and subtracted at their ranks, and the number trimmed. *)
LEMMA AddIs ==
    ASSUME NEW a \in Numbers, NEW k \in Digit, NEW e \in Int, a.neg => Len(a.digits) > 0
    PROVE  /\ add(a, k, e) \in Numbers /\ Trimmed(add(a, k, e))
           /\ Bottom(add(a, k, e)) >= Least(Bottom(a), e)
           /\ \A s \in Int :
                 ~(SignAlone(a) /\ a.exp < e) /\ Bottom(a) + s >= 0 /\ e + s >= 0
                 => Value(add(a, k, e), s) = Value(a, s) + k * Rank(e + s)
<1>. DEFINE y == AddAt(a, k, e)
<1>1. /\ y \in Numbers /\ Len(y.digits) > 0
      /\ Bottom(y) = (IF Bottom(a) > e THEN e ELSE Bottom(a))
      /\ \A s \in Int :
            ~(SignAlone(a) /\ a.exp < e) /\ Bottom(a) + s >= 0 /\ e + s >= 0
            => Value(y, s) = Value(a, s) + k * Rank(e + s)
    BY AddAtValue
<1>2. add(a, k, e) = trim(y)
    BY DEF add
<1>. HIDE DEF y
<1>3. /\ trim(y) \in Numbers /\ Trimmed(trim(y)) /\ Bottom(trim(y)) >= Bottom(y)
    BY <1>1, TrimIs, TrimFits
<1>4. Bottom(a) \in Int /\ Bottom(y) \in Int /\ Bottom(trim(y)) \in Int
    BY <1>1, <1>3, NumberIs
<1>5. Bottom(y) = Least(Bottom(a), e)
    BY <1>1, <1>4 DEF Least
<1>6. ASSUME NEW s \in Int, ~(SignAlone(a) /\ a.exp < e), Bottom(a) + s >= 0, e + s >= 0
      PROVE  Value(trim(y), s) = Value(a, s) + k * Rank(e + s)
    <2>1. Bottom(y) + s >= 0
        BY <1>1, <1>4, <1>6
    <2>2. Value(trim(y), s) = Value(y, s)
        BY <1>1, <2>1, TrimValue
    <2>. QED BY <1>1, <1>6, <2>2
<1>. QED BY <1>2, <1>3, <1>5, <1>6

(* sub() with its trim. *)
LEMMA SubIs ==
    ASSUME NEW a \in Numbers, NEW k \in Digit, NEW e \in Int, a.neg => Len(a.digits) > 0
    PROVE  /\ sub(a, k, e) \in Numbers /\ Trimmed(sub(a, k, e))
           /\ Bottom(sub(a, k, e)) >= Least(Bottom(a), e)
           /\ \A s \in Int :
                 ~(SignAlone(a) /\ a.exp < e) /\ Bottom(a) + s >= 0 /\ e + s >= 0
                 => Value(sub(a, k, e), s) = Value(a, s) - k * Rank(e + s)
<1>. DEFINE y == SubAt(a, k, e)
<1>1. /\ y \in Numbers /\ Len(y.digits) > 0
      /\ Bottom(y) = (IF Bottom(a) > e THEN e ELSE Bottom(a))
      /\ \A s \in Int :
            ~(SignAlone(a) /\ a.exp < e) /\ Bottom(a) + s >= 0 /\ e + s >= 0
            => Value(y, s) = Value(a, s) - k * Rank(e + s)
    BY SubAtValue
<1>2. sub(a, k, e) = trim(y)
    BY DEF sub
<1>. HIDE DEF y
<1>3. trim(y) \in Numbers /\ Trimmed(trim(y)) /\ Bottom(trim(y)) >= Bottom(y)
    BY <1>1, TrimIs, TrimFits
<1>4. Bottom(a) \in Int /\ Bottom(y) \in Int
    BY <1>1, NumberIs
<1>5. Bottom(y) = Least(Bottom(a), e)
    BY <1>1, <1>4 DEF Least
<1>6. ASSUME NEW s \in Int, ~(SignAlone(a) /\ a.exp < e), Bottom(a) + s >= 0, e + s >= 0
      PROVE  Value(trim(y), s) = Value(a, s) - k * Rank(e + s)
    <2>1. Bottom(y) + s >= 0
        BY <1>1, <1>4, <1>6
    <2>2. Value(trim(y), s) = Value(y, s)
        BY <1>1, <2>1, TrimValue
    <2>. QED BY <1>1, <1>6, <2>2
<1>. QED BY <1>2, <1>3, <1>5, <1>6

-------------------------------------------------------------------------------
(* A number is negated *)

(* Digits and their complements add up to full digits. *)
LEMMA ReadComplement ==
    ASSUME NEW d, NEW e, NEW n \in Nat, Row(d, n), Row(e, n), \A i \in 1..n : e[i] = MAX - d[i]
    PROVE  Read(e, n) = Rank(n) - 1 - Read(d, n)
<1>. DEFINE N == {i \in Nat : i <= n => Read(e, i) = Rank(i) - 1 - Read(d, i)}
<1>1. Base \in Int /\ MAX = Base - 1
    BY BaseIs
<1>2. 0 \in N
    BY ReadZero, Ranks0
<1>3. ASSUME NEW i \in N PROVE i + 1 \in N
    <2>1. SUFFICES ASSUME i + 1 <= n PROVE Read(e, i + 1) = Rank(i + 1) - 1 - Read(d, i + 1)
        BY DEF N
    <2>2. i \in Nat /\ i + 1 \in 1..n
        BY <2>1
    <2>3. Read(e, i) = Rank(i) - 1 - Read(d, i)
        BY <2>1, <2>2 DEF N
    <2>4. Row(d, i + 1) /\ Row(e, i + 1) /\ d[i + 1] \in Int /\ e[i + 1] = MAX - d[i + 1]
        BY <2>2 DEF Row
    <2>5. /\ Read(d, i) \in Int /\ Read(d, i + 1) = Read(d, i) * Base + d[i + 1]
          /\ Read(e, i + 1) = Read(e, i) * Base + e[i + 1]
        BY <2>2, <2>4, ReadNext
    <2>6. Rank(i) \in Int /\ Rank(i + 1) = Base * Rank(i)
        BY <2>2, RankNext
    <2>. DEFINE r == Rank(i)
                D == Read(d, i)
                v == d[i + 1]
    <2>7. Read(e, i + 1) = (r - 1 - D) * Base + (Base - 1 - v) /\ r \in Int /\ D \in Int /\ v \in Int
        BY <2>3, <2>4, <2>5, <2>6, <1>1
    <2>8. Rank(i + 1) - 1 - Read(d, i + 1) = Base * r - 1 - (D * Base + v)
        BY <2>5, <2>6
    <2>. HIDE DEF r, D, v
    <2>9. (r - 1 - D) * Base = Base * r - Base - D * Base /\ Base * r \in Int /\ D * Base \in Int
        BY <2>7, <1>1
    <2>. QED BY <2>7, <2>8, <2>9, <1>1
<1>4. N = Nat
    <2>1. N \in SUBSET Nat
        BY DEF N
    <2>. HIDE DEF N
    <2>. QED BY <1>2, <1>3, <2>1, AllNaturals
<1>5. n \in N
    BY <1>4
<1>. QED BY <1>5 DEF N

(* Zeros behind the first m digits *)
LEMMA ReadZerosBehind ==
    ASSUME NEW d, NEW m \in Nat, NEW n \in Nat, m <= n, Row(d, n), \A i \in (m + 1)..n : d[i] = 0
    PROVE  Read(d, n) = Read(d, m) * Rank(n - m)
<1>. DEFINE k == n - m
            e == [i \in 1..k |-> d[m + i]]
<1>1. k \in Nat /\ m + k = n
    OBVIOUS
<1>. HIDE DEF k
<1>2. \A i \in 1..k : e[i] = 0
    BY <1>1
<1>3. Follows(e, d, m, k)
    BY DEF Follows
<1>4. Row(d, m + k)
    BY <1>1
<1>. HIDE DEF e
<1>5. ReadsOn(e, d, m, k)
    BY <1>1, <1>3, <1>4, ReadOn
<1>6. Read(e, k) = 0
    BY <1>1, <1>2, ReadZeros
<1>7. Read(d, m) \in Int /\ Rank(k) \in Int
    <2>1. Row(d, m)
        BY DEF Row
    <2>2. Rank(k) \in Nat
        BY <1>1, RankNext
    <2>. QED BY <2>1, <2>2, ReadInt
<1>8. Read(d, m) * Rank(k) \in Int
    BY <1>7
<1>9. Read(d, m + k) = Read(d, m) * Rank(k)
    BY <1>5, <1>6, <1>8 DEF ReadsOn
<1>. QED BY <1>1, <1>9 DEF k

(* The place of the lowest digit that is not 0 *)
Lowest(d) == Max({0} \cup {i \in DOMAIN d : d[i] # 0})

(* The lowest digit that is not 0. *)
LEMMA LowestIs ==
    ASSUME NEW d \in Seq(Digit)
    PROVE  /\ Lowest(d) \in 0..Len(d) /\ \A i \in (Lowest(d) + 1)..Len(d) : d[i] = 0
           /\ Lowest(d) > 0 => d[Lowest(d)] # 0
<1>. DEFINE S == {0} \cup {i \in DOMAIN d : d[i] # 0}
            n == Len(d)
<1>1. n \in Nat /\ DOMAIN d = 1..n
    OBVIOUS
<1>2. Upto(S, n)
    BY <1>1 DEF Upto
<1>3. Highest(Max(S), S)
    <2>. HIDE DEF S, n
    <2>. QED BY <1>1, <1>2, MaxIn
<1>4. Max(S) \in S /\ \A i \in S : i <= Max(S)
    BY <1>3 DEF Highest
<1>5. Lowest(d) = Max(S)
    BY DEF Lowest
<1>. DEFINE m == Max(S)
<1>. HIDE DEF m
<1>6. m \in S /\ \A i \in S : i <= m
    BY <1>4 DEF m
<1>7. m \in 0..n /\ (m > 0 => d[m] # 0)
    BY <1>1, <1>6
<1>8. ASSUME NEW i \in (m + 1)..n PROVE d[i] = 0
    <2>1. i \in 1..n /\ ~(i <= m)
        BY <1>1, <1>7
    <2>. QED BY <2>1, <1>1, <1>6
<1>. QED BY <1>5, <1>7, <1>8 DEF m

(* Some digit is not 0, or the number is not negative. *)
Negatable(a) == a.neg => Lowest(a.digits) > 0

(* Any number but a sign alone can be negated. *)
LEMMA NotSignAlone ==
    ASSUME NEW a \in Numbers, Len(a.digits) > 0, ~SignAlone(a)
    PROVE  Negatable(a)
<1>1. a.digits \in Seq(Digit) /\ Len(a.digits) \in Nat
    BY NumberIs
<1>2. /\ Lowest(a.digits) \in 0..Len(a.digits)
      /\ \A i \in (Lowest(a.digits) + 1)..Len(a.digits) : a.digits[i] = 0
    BY <1>1, LowestIs
<1>3. ASSUME a.neg, ~(Lowest(a.digits) > 0) PROVE FALSE
    <2>1. a.digits[Len(a.digits)] # 0
        BY <1>3 DEF SignAlone, Last
    <2>2. Len(a.digits) \in (Lowest(a.digits) + 1)..Len(a.digits)
        BY <1>1, <1>2, <1>3
    <2>. QED BY <1>2, <2>1, <2>2
<1>. QED BY <1>3 DEF Negatable

(* y is a with the opposite digits and sign *)
Opposite(y, a) ==
    /\ y \in Numbers /\ Len(y.digits) = Len(a.digits) /\ y.exp = a.exp /\ Bottom(y) = Bottom(a)
    /\ y.neg \in {a.neg, ~a.neg}
    /\ Lowest(a.digits) = 0 => y = a
    /\ \A i \in 1..Len(a.digits) :
          y.digits[i] = IF i < Lowest(a.digits) THEN MAX - a.digits[i]
                        ELSE IF i = Lowest(a.digits) THEN Base - a.digits[i] ELSE a.digits[i]
    /\ Lowest(a.digits) > 0 => (y.neg <=> ~a.neg)

(* negate digit by digit. *)
LEMMA NegateIs ==
    ASSUME NEW a \in Numbers
    PROVE  Opposite(negate(a), a)
<1>. DEFINE d == a.digits
            n == Len(d)
            low == Lowest(d)
            y == negate(a)
            flip == IF low = 0 THEN a.neg ELSE ~a.neg
            f == [i \in DOMAIN d |-> CASE i < low -> MAX - d[i]
                                       [] i = low -> Base - d[i]
                                       [] i > low -> d[i]]
<1>1. a.neg \in BOOLEAN /\ a.exp \in Int /\ d \in Seq(Digit) /\ n \in Nat /\ DOMAIN d = 1..n
    BY NumberIs
<1>2. low \in 0..n /\ (\A i \in (low + 1)..n : d[i] = 0) /\ (low > 0 => d[low] # 0)
    BY <1>1, LowestIs
<1>3. y = [a EXCEPT !.neg = flip, !.digits = f]
    BY DEF negate, Lowest
<1>. HIDE DEF low, y
<1>4. \A i \in 1..n : f[i] = IF i < low THEN MAX - d[i] ELSE IF i = low THEN Base - d[i] ELSE d[i]
    BY <1>1, <1>2
<1>5. \A i \in 1..n : f[i] \in Digit
    <2>1. ASSUME NEW i \in 1..n PROVE f[i] \in Digit
        <3>1. d[i] \in Digit
            BY <1>1
        <3>2. i = low => d[i] # 0
            BY <1>2
        <3>3. f[i] = IF i < low THEN MAX - d[i] ELSE IF i = low THEN Base - d[i] ELSE d[i]
            BY <1>4
        <3>. HIDE DEF f, d
        <3>4. MAX - d[i] \in Digit /\ (d[i] # 0 => Base - d[i] \in Digit)
            BY <3>1, BaseIs
        <3>. QED BY <3>1, <3>2, <3>3, <3>4
    <2>. QED BY <2>1
<1>6. DOMAIN f = 1..n /\ f \in [1..n -> Digit]
    BY <1>1, <1>5
<1>. HIDE DEF f
<1>7. f \in Seq(Digit) /\ Len(f) = n
    <2>. HIDE DEF n
    <2>. QED BY <1>1, <1>6, MadeSeq
<1>8. flip \in BOOLEAN
    BY <1>1
<1>. HIDE DEF flip
<1>9. y = [neg |-> flip, exp |-> a.exp, digits |-> f]
    <2>1. a = [neg |-> a.neg, exp |-> a.exp, digits |-> a.digits]
        BY DEF Numbers
    <2>. QED BY <1>3, <2>1
<1>10. y \in Numbers /\ y.neg = flip /\ y.exp = a.exp /\ y.digits = f
    BY <1>1, <1>7, <1>8, <1>9 DEF Numbers
<1>11. ASSUME low = 0 PROVE y = a
    <2>1. \A i \in 1..n : f[i] = d[i]
        BY <1>1, <1>4, <1>11
    <2>2. f = d
        BY <1>1, <1>7, <2>1
    <2>3. flip <=> a.neg
        BY <1>11 DEF flip
    <2>4. flip = a.neg
        BY <2>3, <1>1, <1>8
    <2>5. a = [neg |-> a.neg, exp |-> a.exp, digits |-> a.digits]
        BY DEF Numbers
    <2>. QED BY <2>2, <2>4, <2>5, <1>9
<1>12. ASSUME low > 0 PROVE y.neg <=> ~a.neg
    <2>1. low # 0
        BY <1>2, <1>12
    <2>2. flip <=> ~a.neg
        BY <2>1 DEF flip
    <2>. QED BY <2>2, <1>10
<1>13. y.neg \in {a.neg, ~a.neg}
    BY <1>1, <1>8, <1>10
<1>14. Bottom(y) = Bottom(a)
    BY <1>7, <1>10 DEF Bottom
<1>. QED BY <1>4, <1>7, <1>10, <1>11, <1>12, <1>13, <1>14 DEF Opposite, y, low

(* The complement above the lowest digit, and that digit's negation, are the *)
(* opposite amount.                                                          *)
LEMMA NegateAmount ==
    ASSUME NEW a \in Numbers, Negatable(a)
    PROVE  Amount(negate(a)) = -Amount(a)
<1>. DEFINE d == a.digits
            n == Len(d)
            low == Lowest(d)
            y == negate(a)
            f == y.digits
<1>1. d \in Seq(Digit) /\ n \in Nat /\ Amount(a) \in Int
    BY NumberIs
<1>2. low \in 0..n /\ (\A i \in (low + 1)..n : d[i] = 0) /\ (low > 0 => d[low] # 0)
    BY <1>1, LowestIs
<1>3. Opposite(y, a)
    BY NegateIs
<1>. HIDE DEF y
<1>4. /\ y \in Numbers /\ Len(f) = n
      /\ \A i \in 1..n : f[i] = IF i < low THEN MAX - d[i] ELSE IF i = low THEN Base - d[i] ELSE d[i]
    BY <1>3 DEF Opposite
<1>5. f \in Seq(Digit) /\ Row(f, n) /\ Row(d, n)
    BY <1>1, <1>4, NumberIs
<1>6. Read(d, n) \in Int /\ Read(f, n) \in Int
    BY <1>1, <1>5, ReadInt
<1>7. CASE low = 0
    <2>1. y = a
        BY <1>3, <1>7 DEF Opposite
    <2>2. ~a.neg
        BY <1>7 DEF Negatable
    <2>3. Read(d, n) = 0
        <3>1. \A i \in 1..n : d[i] = 0
            BY <1>2, <1>7
        <3>. QED BY <1>1, <3>1, ReadZeros
    <2>4. Amount(a) = 0
        BY <2>2, <2>3, Positive
    <2>5. Amount(y) = Amount(a)
        BY <2>1, Zenon
    <2>6. Amount(y) = -Amount(a)
        <3>1. \A z \in Int : z + z = 0 => z = -z
            OBVIOUS
        <3>3. Amount(a) + Amount(a) = 0
            BY <2>4
        <3>2. Amount(a) = -Amount(a)
            BY <3>1, <3>3, <1>1, Zenon
        <3>. QED BY <3>2, <2>5, Zenon
    <2>. QED BY <2>6 DEF y
<1>8. CASE low > 0
    <2>. DEFINE l == low - 1
    <2>1. l \in Nat /\ low = l + 1 /\ low \in 1..n /\ l <= n
        BY <1>1, <1>2, <1>8
    <2>. HIDE DEF l, low
    <2>2. Row(f, l) /\ Row(d, l) /\ Row(f, low) /\ Row(d, low)
        BY <2>1, <1>5 DEF Row
    <2>3. \A i \in 1..l : f[i] = MAX - d[i]
        BY <2>1, <1>1, <1>4
    <2>4. Read(f, l) = Rank(l) - 1 - Read(d, l)
        BY <2>1, <2>2, <2>3, ReadComplement
    <2>5. /\ Read(d, l) \in Int /\ Read(d, l + 1) = Read(d, l) * Base + d[l + 1]
          /\ Read(f, l + 1) = Read(f, l) * Base + f[l + 1]
        BY <2>1, <2>2, ReadNext
    <2>6. f[l + 1] = Base - d[l + 1] /\ d[l + 1] \in Int
        <3>1. f[low] = Base - d[low]
            BY <2>1, <1>4
        <3>2. d[low] \in Int
            BY <2>1, <1>5 DEF Row
        <3>. QED BY <3>1, <3>2, <2>1
    <2>7. Rank(l) \in Int /\ Rank(low) = Base * Rank(l) /\ Base \in Int
        <3>1. Rank(l) \in Nat /\ Rank(l + 1) = Base * Rank(l)
            BY <2>1, RankNext
        <3>. QED BY <3>1, <2>1, BaseIs
    <2>8. Read(f, low) = Rank(low) - Read(d, low)
        <3>. DEFINE r == Rank(l)
                    D == Read(d, l)
                    v == d[l + 1]
        <3>1. Read(f, low) = (r - 1 - D) * Base + (Base - v) /\ Rank(low) = Base * r
              /\ Read(d, low) = D * Base + v
            BY <2>1, <2>4, <2>5, <2>6, <2>7
        <3>2. r \in Int /\ D \in Int /\ v \in Int
            BY <2>5, <2>6, <2>7
        <3>. HIDE DEF r, D, v
        <3>3. (r - 1 - D) * Base = Base * r - Base - D * Base /\ Base * r \in Int /\ D * Base \in Int
            BY <3>2, <2>7
        <3>. QED BY <3>1, <3>2, <3>3, <2>7
    <2>9. Read(d, n) = Read(d, low) * Rank(n - low) /\ Read(f, n) = Read(f, low) * Rank(n - low)
        <3>1. low \in Nat /\ low <= n
            BY <2>1
        <3>2. \A i \in (low + 1)..n : d[i] = 0
            BY <1>2
        <3>3. \A i \in (low + 1)..n : f[i] = 0
            BY <1>1, <1>2, <1>4, <3>1
        <3>. QED BY <3>1, <3>2, <3>3, <1>1, <1>5, ReadZerosBehind
    <2>10. Rank(n) = Rank(low) * Rank(n - low) /\ Rank(low) \in Int /\ Rank(n - low) \in Int
        <3>1. n - low \in Nat /\ low \in Nat /\ low + (n - low) = n
            <4>. HIDE DEF n
            <4>. QED BY <2>1, <1>1
        <3>2. Rank(low + (n - low)) = Rank(low) * Rank(n - low)
            BY <3>1, RankSum
        <3>3. Rank(low) \in Nat
            BY <3>1, RankNext
        <3>4. Rank(n - low) \in Nat
            BY <3>1, RankNext
        <3>. QED BY <3>1, <3>2, <3>3, <3>4
    <2>11. Read(f, n) = Rank(n) - Read(d, n)
        <3>1. Read(d, low) \in Int
            BY <2>1, <2>2, ReadInt
        <3>. DEFINE A == Rank(low)
                    B == Read(d, low)
                    C == Rank(n - low)
        <3>2. A \in Int /\ B \in Int /\ C \in Int
            BY <3>1, <2>10
        <3>3. Read(f, n) = (A - B) * C /\ Rank(n) = A * C /\ Read(d, n) = B * C
            BY <2>8, <2>9, <2>10
        <3>. HIDE DEF A, B, C
        <3>4. (A - B) * C = A * C - B * C
            BY <3>2
        <3>. QED BY <3>3, <3>4
    <2>12. y.neg <=> ~a.neg
        BY <1>3, <1>8 DEF Opposite, low
    <2>13. Rank(n) \in Nat
        BY <1>1, RankNext
    <2>14. CASE a.neg
        <3>1. Amount(y) = Read(f, n)
            BY <2>12, <2>14, <1>4, Positive
        <3>2. Amount(a) = Read(d, n) - Rank(n)
            BY <2>14, Negative
        <3>. HIDE DEF d, f, n
        <3>3. Amount(y) = -Amount(a)
            BY <3>1, <3>2, <2>11, <2>13, <1>6
        <3>. QED BY <3>3 DEF y
    <2>15. CASE ~a.neg
        <3>1. Amount(y) = Read(f, n) - Rank(n)
            BY <2>12, <2>15, <1>4, Negative
        <3>2. Amount(a) = Read(d, n)
            BY <2>15, Positive
        <3>. HIDE DEF d, f, n
        <3>3. Amount(y) = -Amount(a)
            BY <3>1, <3>2, <2>11, <2>13, <1>6
        <3>. QED BY <3>3 DEF y
    <2>. QED BY <2>14, <2>15
<1>. QED BY <1>2, <1>7, <1>8

(* So the value is the opposite. *)
LEMMA NegateValue ==
    ASSUME NEW a \in Numbers, Negatable(a), NEW s \in Int, Bottom(a) + s >= 0
    PROVE  Value(negate(a), s) = -Value(a, s)
<1>1. Opposite(negate(a), a)
    BY NegateIs
<1>2. negate(a) \in Numbers /\ Bottom(negate(a)) = Bottom(a)
    BY <1>1 DEF Opposite
<1>3. Value(negate(a), s) = Amount(negate(a)) * Rank(Bottom(a) + s)
    BY <1>2, ValueIs
<1>4. Value(a, s) = Amount(a) * Rank(Bottom(a) + s)
    BY ValueIs
<1>5. Amount(negate(a)) = -Amount(a)
    BY NegateAmount
<1>6. Amount(a) \in Int /\ Rank(Bottom(a) + s) \in Int
    <2>1. Amount(a) \in Int /\ Bottom(a) + s \in Nat
        BY NumberIs
    <2>2. Rank(Bottom(a) + s) \in Nat
        BY <2>1, RankNext
    <2>. QED BY <2>1, <2>2
<1>. DEFINE A == Amount(a)
            r == Rank(Bottom(a) + s)
<1>7. Value(negate(a), s) = (-A) * r /\ Value(a, s) = A * r /\ A \in Int /\ r \in Int
    BY <1>3, <1>4, <1>5, <1>6
<1>. HIDE DEF A, r
<1>8. (-A) * r = -(A * r)
    BY <1>7
<1>. QED BY <1>7, <1>8

(* The sign of a negated number is that of its amount. *)
LEMMA NegateSign ==
    ASSUME NEW a \in Numbers, Negatable(a)
    PROVE  negate(a) \in Numbers /\ (negate(a).neg <=> Amount(a) > 0)
<1>1. negate(a) \in Numbers
    BY NegateIs DEF Opposite
<1>2. Amount(negate(a)) = -Amount(a) /\ Amount(a) \in Int
    BY NegateAmount, NumberIs
<1>3. CASE negate(a).neg
    <2>1. Amount(negate(a)) < 0
        BY <1>1, <1>3, Negative
    <2>. QED BY <2>1, <1>1, <1>2, <1>3
<1>4. CASE ~negate(a).neg
    <2>1. Amount(negate(a)) \in Nat
        BY <1>1, <1>4, Positive
    <2>. QED BY <2>1, <1>1, <1>2, <1>4
<1>. QED BY <1>3, <1>4

(* The opposite of a trimmed number is trimmed: negate does not trim. *)
LEMMA NegateTrimmed ==
    ASSUME NEW a, Trimmed(a)
    PROVE  Trimmed(negate(a))
<1>. DEFINE d == a.digits
            n == Len(d)
            y == negate(a)
            f == y.digits
<1>1. a \in Numbers /\ n > 0
    BY TrimmedIs
<1>2. d \in Seq(Digit) /\ n \in Nat /\ a.neg \in BOOLEAN
    BY <1>1, NumberIs
<1>3. Opposite(y, a)
    BY <1>1, NegateIs
<1>. HIDE DEF y
<1>4. y \in Numbers /\ Len(f) = n
    BY <1>3 DEF Opposite
<1>5. CASE n = 1
    <2>1. Len(f) > 0 /\ ~(Len(f) > 1)
        BY <1>4, <1>5
    <2>. HIDE DEF f
    <2>2. Trimmed(y)
        BY <2>1, <1>4 DEF Trimmed, Numbers, f
    <2>. QED BY <2>2 DEF y
<1>6. CASE n > 1
    <2>1. d[n] # 0 /\ d[1] # IF a.neg THEN MAX ELSE 0
        BY <1>6 DEF Trimmed, Last
    <2>2. Lowest(d) = n
        <3>1. Lowest(d) \in 0..n /\ \A i \in (Lowest(d) + 1)..n : d[i] = 0
            BY <1>2, LowestIs
        <3>2. ASSUME Lowest(d) # n PROVE FALSE
            <4>1. n \in (Lowest(d) + 1)..n
                BY <1>2, <3>1, <3>2
            <4>. QED BY <2>1, <3>1, <4>1
        <3>. QED BY <3>2
    <2>3. f[1] = MAX - d[1] /\ f[n] = Base - d[n] /\ (y.neg <=> ~a.neg)
        <3>1. 1 \in 1..n /\ n \in 1..n /\ 1 < n /\ ~(n < n) /\ n > 0
            BY <1>2, <1>6
        <3>. QED BY <2>2, <3>1, <1>3 DEF Opposite
    <2>4. d[1] \in Digit /\ d[n] \in Digit
        BY <1>2, <1>6
    <2>5. f[n] # 0 /\ f[1] # IF y.neg THEN MAX ELSE 0
        <3>. HIDE DEF f, d, n
        <3>1. f[n] # 0
            BY <2>3, <2>4, BaseIs
        <3>2. CASE a.neg
            <4>1. d[1] # MAX /\ ~y.neg
                BY <3>2, <2>1, <2>3
            <4>. QED BY <3>1, <4>1, <2>3, <2>4, BaseIs
        <3>3. CASE ~a.neg
            <4>1. d[1] # 0 /\ y.neg
                BY <3>3, <2>1, <2>3
            <4>. QED BY <3>1, <4>1, <2>3, <2>4, BaseIs
        <3>. QED BY <3>2, <3>3
    <2>6. Trimmed(y)
        <3>1. Last(f) # 0 /\ Len(f) > 0
            BY <2>5, <1>4, <1>6 DEF Last
        <3>. HIDE DEF n
        <3>. QED BY <3>1, <2>5, <1>4 DEF Trimmed, Numbers
    <2>. QED BY <2>6 DEF y
<1>7. n = 1 \/ n > 1
    <2>. HIDE DEF n
    <2>. QED BY <1>1, <1>2
<1>. QED BY <1>5, <1>6, <1>7

(* A value is an integer once it is scaled. *)
LEMMA ValueInt ==
    ASSUME NEW a \in Numbers, NEW s \in Int, Bottom(a) + s >= 0
    PROVE  Value(a, s) \in Int
<1>1. Value(a, s) = Amount(a) * Rank(Bottom(a) + s)
    BY ValueIs
<1>2. Bottom(a) + s \in Nat /\ Amount(a) \in Int
    BY NumberIs
<1>3. Rank(Bottom(a) + s) \in Nat
    BY <1>2, RankNext
<1>. QED BY <1>1, <1>2, <1>3

(* One number is subtracted from another *)
LEMMA MinusNumber ==
    ASSUME NEW a \in Numbers, NEW b \in Numbers, Len(b.digits) > 0
    PROVE  /\ Minus(a, b) \in Numbers /\ Trimmed(Minus(a, b))
           /\ Bottom(Minus(a, b)) >= Least(Bottom(a), Bottom(b))
<1>1. Opposite(negate(b), b)
    BY NegateIs
<1>2. negate(b) \in Numbers /\ Len(negate(b).digits) > 0 /\ Bottom(negate(b)) = Bottom(b)
    BY <1>1 DEF Opposite
<1>. QED BY <1>2, PlusNumber DEF Minus

(* A difference is exact where the sum with the opposite is. *)
LEMMA MinusValue ==
    ASSUME NEW a \in Numbers, NEW b \in Numbers, Len(b.digits) > 0, Negatable(b),
           a.neg => Len(a.digits) > 0, Summable(a, negate(b)),
           NEW s \in Int, Bottom(a) + s >= 0, Bottom(b) + s >= 0
    PROVE  Value(Minus(a, b), s) = Value(a, s) - Value(b, s)
<1>1. Opposite(negate(b), b)
    BY NegateIs
<1>2. negate(b) \in Numbers /\ Len(negate(b).digits) > 0 /\ Bottom(negate(b)) = Bottom(b)
    BY <1>1 DEF Opposite
<1>3. Value(Minus(a, b), s) = Value(a, s) + Value(negate(b), s)
    BY <1>2, PlusValue DEF Minus
<1>4. Value(negate(b), s) = -Value(b, s)
    BY NegateValue
<1>5. Value(a, s) \in Int /\ Value(b, s) \in Int
    BY ValueInt
<1>. QED BY <1>3, <1>4, <1>5

-------------------------------------------------------------------------------
(* A number is shifted *)

(* Quotient and remainder. *)
LEMMA DivMod ==
    ASSUME NEW n \in Int, NEW b \in Nat \ {0}
    PROVE  n \div b \in Int /\ n % b \in 0..(b - 1) /\ n = b * (n \div b) + (n % b)
OBVIOUS

(* There is one of each. *)
LEMMA DivUnique ==
    ASSUME NEW b \in Nat \ {0}, NEW q \in Int, NEW r \in 0..(b - 1),
           NEW p \in Int, NEW t \in 0..(b - 1), b * q + r = b * p + t
    PROVE  q = p /\ r = t
<1>1. b * (q - p) = t - r
    <2>1. b * (q - p) = b * q - b * p /\ b * q \in Int /\ b * p \in Int
        OBVIOUS
    <2>. QED BY <2>1
<1>2. CASE q - p >= 1
    <2>1. b * (q - p) >= b
        BY <1>2
    <2>. QED BY <2>1, <1>1
<1>3. CASE q - p <= -1
    <2>1. b * (q - p) <= -b
        BY <1>3
    <2>. QED BY <2>1, <1>1
<1>4. CASE q - p = 0
    BY <1>4, <1>1
<1>. QED BY <1>2, <1>3, <1>4

(* So what is a multiple and a remainder is divided like that. *)
LEMMA Divided2 ==
    ASSUME NEW b \in Nat \ {0}, NEW q \in Int, NEW r \in 0..(b - 1), NEW n, n = b * q + r
    PROVE  n \div b = q /\ n % b = r
<1>1. n \in Int
    <2>1. b * q \in Int
        OBVIOUS
    <2>. QED BY <2>1
<1>2. n \div b \in Int /\ n % b \in 0..(b - 1) /\ n = b * (n \div b) + (n % b)
    BY <1>1, DivMod
<1>. DEFINE p == n \div b
            t == n % b
<1>3. p \in Int /\ t \in 0..(b - 1) /\ b * q + r = b * p + t
    BY <1>2
<1>. HIDE DEF p, t
<1>4. q = p /\ r = t
    BY <1>3, DivUnique
<1>. QED BY <1>4 DEF p, t

(* The base, by bits. *)
LEMMA BitsIs == Bits \in Nat \ {0} /\ Base = Power(2, Bits)
BY DigitalAssumption DEF Base

(* As many bits as n digits have. *)
LEMMA PowerOfBase ==
    ASSUME NEW n \in Nat
    PROVE  Power(2, Bits * n) = Rank(n) /\ Bits * n \in Nat
<1>. DEFINE N == {i \in Nat : Power(2, Bits * i) = Rank(i)}
<1>1. 0 \in N
    <2>1. Bits * 0 = 0
        BY BitsIs
    <2>. QED BY <2>1, PowerZero, Ranks0
<1>2. ASSUME NEW i \in N PROVE i + 1 \in N
    <2>1. i \in Nat /\ Power(2, Bits * i) = Rank(i)
        OBVIOUS
    <2>2. Bits * (i + 1) = Bits * i + Bits /\ Bits * i \in Nat
        BY <2>1, BitsIs
    <2>3. Power(2, Bits * i + Bits) = Power(2, Bits * i) * Power(2, Bits)
        BY <2>2, BitsIs, PowerSum
    <2>4. Rank(i) \in Nat /\ Rank(i + 1) = Base * Rank(i)
        BY <2>1, RankNext
    <2>5. Rank(i) * Base = Base * Rank(i)
        BY <2>4, BaseIs
    <2>. QED BY <2>1, <2>2, <2>3, <2>4, <2>5, BitsIs
<1>3. N = Nat
    <2>1. N \in SUBSET Nat
        BY DEF N
    <2>. HIDE DEF N
    <2>. QED BY <1>1, <1>2, <2>1, AllNaturals
<1>4. n \in N
    BY <1>3
<1>5. Bits * n \in Nat
    BY BitsIs
<1>. QED BY <1>4, <1>5

(* A digit in two parts, the upper of k bits: P is 2^k, and Q what is left. *)
Splits(P, Q) == P \in Nat \ {0} /\ Q \in Nat \ {0} /\ P * Q = Base

(* A digit's bits in two parts. *)
LEMMA PartsOf ==
    ASSUME NEW k \in 0..(Bits - 1)
    PROVE  Splits(Power(2, k), Power(2, Bits - k))
<1>1. k \in Nat /\ Bits - k \in Nat /\ k + (Bits - k) = Bits
    BY BitsIs
<1>2. Power(2, k + (Bits - k)) = Power(2, k) * Power(2, Bits - k)
    BY <1>1, PowerSum
<1>3. Power(2, k) \in Nat \ {0}
    BY <1>1, PowerPositive
<1>4. Power(2, Bits - k) \in Nat \ {0}
    BY <1>1, PowerPositive
<1>. QED BY <1>1, <1>2, <1>3, <1>4, BitsIs DEF Splits

(* What of a digit stays in its place, and what goes into the next *)
LEMMA DigitParts ==
    ASSUME NEW P, NEW Q, Splits(P, Q), NEW v \in Digit
    PROVE  /\ v \div Q \in 0..(P - 1) /\ (v * P) % Base \in 0..(Base - P)
           /\ P * v = Base * (v \div Q) + ((v * P) % Base)
<1>. DEFINE hi == v \div Q
            lo == v % Q
<1>1. P \in Nat \ {0} /\ Q \in Nat \ {0} /\ P * Q = Base
    BY DEF Splits
<1>2. v \in Int /\ v >= 0 /\ v < Base /\ Base \in Nat \ {0}
    BY BaseIs
<1>3. hi \in Int /\ lo \in 0..(Q - 1) /\ v = Q * hi + lo
    BY <1>1, <1>2, DivMod
<1>. HIDE DEF hi, lo
<1>4. hi >= 0
    <2>1. ASSUME hi <= -1 PROVE FALSE
        <3>1. Q * hi <= -Q
            BY <1>1, <1>3, <2>1
        <3>. QED BY <3>1, <1>1, <1>2, <1>3
    <2>. QED BY <2>1, <1>3
<1>5. hi <= P - 1
    <2>1. ASSUME hi >= P PROVE FALSE
        <3>1. Q * hi >= Q * P
            BY <1>1, <1>3, <2>1
        <3>2. Q * P = P * Q
            BY <1>1
        <3>. QED BY <3>1, <3>2, <1>1, <1>2, <1>3
    <2>. QED BY <2>1, <1>1, <1>3
<1>6. v * P = Base * hi + P * lo /\ P * v = v * P
    <2>1. v * P = (Q * hi + lo) * P
        BY <1>3
    <2>2. (Q * hi + lo) * P = (Q * hi) * P + lo * P
        BY <1>1, <1>3
    <2>3. (Q * hi) * P = (P * Q) * hi /\ lo * P = P * lo /\ P * v = v * P
        BY <1>1, <1>2, <1>3
    <2>. QED BY <2>1, <2>2, <2>3, <1>1
<1>7. P * lo \in 0..(Base - P)
    <2>1. P * lo >= 0 /\ P * lo \in Int
        BY <1>1, <1>3
    <2>2. P * lo <= P * (Q - 1)
        BY <1>1, <1>3
    <2>3. P * (Q - 1) = Base - P
        BY <1>1
    <2>. QED BY <2>1, <2>2, <2>3, <1>1, <1>2
<1>8. P * lo \in 0..(Base - 1)
    BY <1>1, <1>2, <1>7
<1>9. (v * P) % Base = P * lo
    <2>. DEFINE n == v * P
                r == P * lo
    <2>1. n = Base * hi + r /\ r \in 0..(Base - 1)
        BY <1>6, <1>8
    <2>. HIDE DEF n, r
    <2>2. n % Base = r
        BY <2>1, <1>2, <1>3, Divided2
    <2>. QED BY <2>2 DEF n, r
<1>10. P * v = Base * hi + ((v * P) % Base)
    BY <1>6, <1>9
<1>. QED BY <1>1, <1>3, <1>4, <1>5, <1>7, <1>9, <1>10 DEF hi

(* The digits d moved up by the upper part of a digit *)
Moved(d, P, Q) ==
    [i \in DOMAIN d |-> ((d[i] * P) % Base) + (IF i < Len(d) THEN d[i + 1] \div Q ELSE 0)]

Moves(u, d, P, Q) ==
    /\ u \in Seq(Digit) /\ Len(u) = Len(d)
    /\ Read(u, Len(d)) = P * Read(d, Len(d)) - (d[1] \div Q) * Rank(Len(d))

(* Each digit takes over the upper part of the one behind it. *)
LEMMA MovedIs ==
    ASSUME NEW d \in Seq(Digit), Len(d) > 0, NEW P, NEW Q, Splits(P, Q)
    PROVE  Moves(Moved(d, P, Q), d, P, Q)
<1>. DEFINE n == Len(d)
            u == Moved(d, P, Q)
            h(i) == IF i < n THEN d[i + 1] \div Q ELSE 0
            H == d[1] \div Q
<1>1. n \in Nat /\ n > 0 /\ DOMAIN d = 1..n /\ \A i \in 1..n : d[i] \in Digit
    OBVIOUS
<1>2. P \in Nat \ {0} /\ Base \in Nat /\ P <= Base
    <2>1. P \in Nat \ {0} /\ Q \in Nat \ {0} /\ P * Q = Base
        BY DEF Splits
    <2>2. P * Q >= P
        BY <2>1
    <2>. QED BY <2>1, <2>2, BaseIs
<1>3. ASSUME NEW i \in 0..n PROVE h(i) \in 0..(P - 1)
    <2>1. CASE i < n
        <3>1. i + 1 \in 1..n
            BY <1>1, <2>1
        <3>2. d[i + 1] \in Digit
            BY <1>1, <3>1
        <3>3. d[i + 1] \div Q \in 0..(P - 1)
            BY <3>2, DigitParts
        <3>. QED BY <2>1, <3>3
    <2>2. CASE ~(i < n)
        BY <2>2, <1>2
    <2>. QED BY <2>1, <2>2
<1>4. u = [i \in 1..n |-> ((d[i] * P) % Base) + h(i)]
    BY <1>1 DEF Moved
<1>5. ASSUME NEW i \in 1..n
      PROVE  /\ (d[i] * P) % Base \in 0..(Base - P)
             /\ ((d[i] * P) % Base) + h(i) \in Digit
             /\ P * d[i] = Base * (d[i] \div Q) + ((d[i] * P) % Base)
    <2>1. /\ (d[i] * P) % Base \in 0..(Base - P)
          /\ P * d[i] = Base * (d[i] \div Q) + ((d[i] * P) % Base)
        <3>1. d[i] \in Digit
            BY <1>1
        <3>. QED BY <3>1, DigitParts
    <2>2. i \in 0..n
        BY <1>1
    <2>3. h(i) \in 0..(P - 1)
        BY <1>3, <2>2
    <2>. DEFINE l == (d[i] * P) % Base
    <2>. HIDE DEF h, l
    <2>4. l \in 0..(Base - P)
        BY <2>1 DEF l
    <2>5. l + h(i) \in Digit
        BY <2>3, <2>4, <1>2, BaseIs
    <2>. QED BY <2>1, <2>5 DEF l
<1>. HIDE DEF h, u
<1>6. u \in Seq(Digit) /\ Len(u) = n /\ \A i \in 1..n : u[i] = ((d[i] * P) % Base) + h(i)
    <2>1. u \in [1..n -> Digit]
        BY <1>4, <1>5
    <2>2. u \in Seq(Digit) /\ Len(u) = n
        <3>. HIDE DEF n
        <3>. QED BY <1>1, <2>1, MadeSeq
    <2>. QED BY <1>4, <2>2
<1>7. Row(u, n) /\ Row(d, n)
    <2>1. n <= Len(u) /\ n <= Len(d)
        BY <1>1, <1>6
    <2>. QED BY <2>1, <1>1, <1>6, SeqRow
<1>. DEFINE N == {i \in Nat : i <= n => Read(u, i) = P * Read(d, i) - H * Rank(i) + h(i)}
<1>8. H \in Int /\ h(0) = H
    <2>1. 0 \in 0..n /\ 0 < n /\ 0 + 1 = 1
        BY <1>1
    <2>2. h(0) = H
        BY <2>1 DEF h
    <2>3. h(0) \in 0..(P - 1)
        BY <2>1, <1>3
    <2>. QED BY <2>2, <2>3, <1>2
<1>9. 0 \in N
    <2>1. Read(u, 0) = 0 /\ Read(d, 0) = 0 /\ Rank(0) = 1
        BY ReadZero, Ranks0
    <2>. HIDE DEF H
    <2>2. P * 0 - H * 1 + h(0) = 0
        BY <1>2, <1>8
    <2>. QED BY <2>1, <2>2
<1>10. ASSUME NEW i \in N PROVE i + 1 \in N
    <2>1. SUFFICES ASSUME i + 1 <= n
                   PROVE  Read(u, i + 1) = P * Read(d, i + 1) - H * Rank(i + 1) + h(i + 1)
        BY DEF N
    <2>2. i \in Nat /\ i + 1 \in 1..n /\ i < n /\ i \in 0..n /\ i + 1 \in 0..n
        BY <2>1, <1>1
    <2>3. Read(u, i) = P * Read(d, i) - H * Rank(i) + h(i)
        BY <2>1, <2>2, <1>1 DEF N
    <2>4. Row(u, i + 1) /\ Row(d, i + 1)
        BY <2>2, <1>1, <1>7 DEF Row
    <2>5. /\ Read(d, i) \in Int /\ Read(d, i + 1) = Read(d, i) * Base + d[i + 1]
          /\ Read(u, i + 1) = Read(u, i) * Base + u[i + 1]
        BY <2>2, <2>4, ReadNext
    <2>6. Rank(i) \in Nat /\ Rank(i + 1) = Base * Rank(i)
        BY <2>2, RankNext
    <2>7. h(i) = d[i + 1] \div Q
        BY <2>2 DEF h
    <2>. DEFINE D == Read(d, i)
                r == Rank(i)
                v == d[i + 1]
                g == h(i)
                g1 == h(i + 1)
                l == (v * P) % Base
    <2>8. g \in 0..(P - 1) /\ g1 \in 0..(P - 1)
        BY <2>2, <1>3
    <2>9. P * v = Base * g + l /\ l \in Int /\ v \in Int /\ u[i + 1] = l + g1
        <3>1. P * v = Base * (v \div Q) + l /\ l \in 0..(Base - P)
            BY <2>2, <1>5
        <3>2. v \in Int
            BY <2>2, <1>7 DEF Row
        <3>3. u[i + 1] = l + g1
            BY <2>2, <1>6
        <3>. QED BY <3>1, <3>2, <3>3, <2>7, <1>2
    <2>10. D \in Int /\ r \in Int /\ g \in Int /\ g1 \in Int
        BY <2>5, <2>6, <2>8, <1>2
    <2>11. Read(u, i + 1) = (P * D - H * r + g) * Base + (l + g1)
        BY <2>3, <2>5, <2>9
    <2>12. P * Read(d, i + 1) - H * Rank(i + 1) + g1 = P * (D * Base + v) - H * (Base * r) + g1
        BY <2>5, <2>6
    <2>. HIDE DEF D, r, v, g, g1, l, H
    <2>13. P * D \in Int /\ H * r \in Int /\ (P * D) * Base \in Int /\ (H * r) * Base \in Int /\ g * Base \in Int
        BY <2>10, <1>2, <1>8
    <2>14. (P * D - H * r + g) * Base = (P * D) * Base - (H * r) * Base + g * Base
        BY <2>10, <2>13, <1>2
    <2>15. P * (D * Base + v) = P * (D * Base) + P * v /\ P * (D * Base) = (P * D) * Base
        BY <2>9, <2>10, <1>2
    <2>16. H * (Base * r) = (H * r) * Base /\ g * Base = Base * g
        BY <2>10, <1>2, <1>8
    <2>. DEFINE A == (P * D) * Base
                B == (H * r) * Base
                C == Base * g
                V == P * v
    <2>17. /\ A \in Int /\ B \in Int /\ C \in Int /\ V = C + l
           /\ Read(u, i + 1) = (A - B + C) + (l + g1)
           /\ P * (D * Base + v) - H * (Base * r) + g1 = (A + V) - B + g1
        BY <2>9, <2>11, <2>13, <2>14, <2>15, <2>16
    <2>. HIDE DEF A, B, C, V
    <2>18. (A - B + C) + (l + g1) = (A + V) - B + g1
        BY <2>9, <2>10, <2>17
    <2>. QED BY <2>12, <2>17, <2>18 DEF g1
<1>11. N = Nat
    <2>1. N \in SUBSET Nat
        BY DEF N
    <2>. HIDE DEF N
    <2>. QED BY <1>9, <1>10, <2>1, AllNaturals
<1>12. Read(u, n) = P * Read(d, n) - H * Rank(n) + h(n)
    <2>1. n \in N
        <3>. HIDE DEF N
        <3>. QED BY <1>1, <1>11
    <2>. QED BY <2>1, <1>1 DEF N
<1>13. Read(u, n) = P * Read(d, n) - H * Rank(n)
    <2>1. h(n) = 0
        BY <1>1 DEF h
    <2>2. Read(d, n) \in Int
        BY <1>1, <1>7, ReadInt
    <2>3. Rank(n) \in Nat
        BY <1>1, RankNext
    <2>. HIDE DEF n, H
    <2>4. P * Read(d, n) \in Int /\ H * Rank(n) \in Int
        BY <2>2, <2>3, <1>2, <1>8
    <2>. QED BY <2>1, <2>4, <1>12
<1>. QED BY <1>6, <1>13 DEF Moves, u

(* A number at another rank *)
Ranked(a, n) == [a EXCEPT !.exp = @ + n]

(* A number at another rank. *)
LEMMA RankedIs ==
    ASSUME NEW a \in Numbers, NEW n \in Int
    PROVE  /\ Ranked(a, n) \in Numbers /\ Ranked(a, n).neg = a.neg /\ Ranked(a, n).digits = a.digits
           /\ Ranked(a, n).exp = a.exp + n
           /\ Bottom(Ranked(a, n)) = Bottom(a) + n /\ Amount(Ranked(a, n)) = Amount(a)
           /\ Trimmed(a) => Trimmed(Ranked(a, n))
<1>. DEFINE y == Ranked(a, n)
<1>1. y = [neg |-> a.neg, exp |-> a.exp + n, digits |-> a.digits]
    BY DEF Ranked, Numbers
<1>2. a.neg \in BOOLEAN /\ a.exp \in Int /\ a.digits \in Seq(Digit) /\ Len(a.digits) \in Nat
    BY NumberIs
<1>. HIDE DEF y
<1>3. y \in Numbers /\ y.neg = a.neg /\ y.exp = a.exp + n /\ y.digits = a.digits
    BY <1>1, <1>2 DEF Numbers
<1>4. Bottom(y) = Bottom(a) + n
    BY <1>2, <1>3 DEF Bottom
<1>5. Amount(y) = Amount(a)
    BY <1>3 DEF Amount
<1>6. Trimmed(a) => Trimmed(y)
    BY <1>3 DEF Trimmed, Numbers
<1>. QED BY <1>3, <1>4, <1>5, <1>6 DEF y

(* Its value is another scale's. *)
LEMMA RankedValue ==
    ASSUME NEW a \in Numbers, NEW n \in Int, NEW s \in Int
    PROVE  Value(Ranked(a, n), s) = Value(a, n + s)
<1>1. /\ Ranked(a, n) \in Numbers /\ Bottom(Ranked(a, n)) = Bottom(a) + n
      /\ Amount(Ranked(a, n)) = Amount(a)
    BY RankedIs
<1>2. Value(Ranked(a, n), s) = Amount(a) * Rank(Bottom(a) + n + s)
    BY <1>1, ValueIs
<1>3. Value(a, n + s) = Amount(a) * Rank(Bottom(a) + (n + s))
    BY ValueIs
<1>4. Bottom(a) + n + s = Bottom(a) + (n + s)
    BY NumberIs
<1>. QED BY <1>2, <1>3, <1>4

(* By whole digits only the rank is shifted. *)
LEMMA ShiftWhole ==
    ASSUME NEW a, NEW s \in Int, s % Bits = 0
    PROVE  shift(a, s) = Ranked(a, s \div Bits)
BY DEF shift, Ranked

(* A shift by n digits is a change of rank. *)
LEMMA ShiftDigits ==
    ASSUME NEW a, NEW n \in Int
    PROVE  shift(a, Bits * n) = Ranked(a, n)
<1>. DEFINE s == Bits * n
<1>1. 0 \in 0..(Bits - 1) /\ s = Bits * n + 0 /\ s \in Int
    BY BitsIs
<1>. HIDE DEF s
<1>2. s \div Bits = n /\ s % Bits = 0
    BY <1>1, BitsIs, Divided2
<1>3. shift(a, s) = Ranked(a, n)
    BY <1>1, <1>2, ShiftWhole
<1>. QED BY <1>3 DEF s

(* By how many ranks a shift moves the digits besides *)
Whole(s) == IF s >= 0 \/ s % Bits = 0 THEN s \div Bits ELSE (-s) \div Bits - 1

(* The whole digits of a shift and the bits beside them. *)
LEMMA WholeIs ==
    ASSUME NEW s \in Int
    PROVE  /\ s % Bits \in 0..(Bits - 1) /\ s = Bits * (s \div Bits) + (s % Bits)
           /\ Whole(s) \in Int /\ (s >= 0 => Whole(s) \in Nat /\ Whole(s) = s \div Bits)
<1>1. s % Bits \in 0..(Bits - 1) /\ s = Bits * (s \div Bits) + (s % Bits) /\ s \div Bits \in Int
    BY BitsIs, DivMod
<1>2. -s \in Int
    OBVIOUS
<1>3. (-s) \div Bits \in Int
    BY <1>2, BitsIs, DivMod
<1>4. Whole(s) \in Int
    BY <1>1, <1>3 DEF Whole
<1>5. s >= 0 => s \div Bits >= 0
    <2>. DEFINE q == s \div Bits
                r == s % Bits
    <2>1. q \in Int /\ r \in 0..(Bits - 1) /\ s = Bits * q + r
        BY <1>1
    <2>. HIDE DEF q, r
    <2>2. ASSUME s >= 0, q <= -1 PROVE FALSE
        <3>1. Bits * q <= -Bits
            BY <2>1, <2>2, BitsIs
        <3>. QED BY <3>1, <2>1, <2>2, BitsIs
    <2>3. s >= 0 => q >= 0
        BY <2>1, <2>2
    <2>. QED BY <2>3 DEF q
<1>6. s >= 0 => Whole(s) = s \div Bits
    BY DEF Whole
<1>. QED BY <1>1, <1>4, <1>5, <1>6

(* The digits shifted, before they are trimmed *)
Unrounded(a, q, P, Q) ==
    IF a.digits[1] \div Q = 0 THEN [a EXCEPT !.exp = @ + q, !.digits = Moved(@, P, Q)]
    ELSE [a EXCEPT !.exp = @ + q + 1, !.digits = <<a.digits[1] \div Q>> \o Moved(@, P, Q)]

(* A shift by other bits moves parts of digits. *)
LEMMA ShiftParts ==
    ASSUME NEW a, NEW s \in Int, s % Bits # 0
    PROVE  shift(a, s) = trim(Unrounded(a, Whole(s), Power(2, s % Bits), Power(2, Bits - (s % Bits))))
BY DEF shift, Unrounded, Whole, Moved

(* Before its trim the shifted number is P times the old one, if that is not *)
(* negative.                                                                 *)
LEMMA UnroundedIs ==
    ASSUME NEW a \in Numbers, Len(a.digits) > 0, NEW q \in Int, NEW P, NEW Q, Splits(P, Q),
           NEW y, y = Unrounded(a, q, P, Q)
    PROVE  /\ y \in Numbers /\ Len(y.digits) > 0 /\ Bottom(y) = Bottom(a) + q
           /\ ~a.neg => Amount(y) = P * Amount(a)
<1>. DEFINE d == a.digits
            n == Len(d)
            u == Moved(d, P, Q)
            H == d[1] \div Q
<1>1. a.neg \in BOOLEAN /\ a.exp \in Int /\ d \in Seq(Digit) /\ n \in Nat /\ n > 0
    BY NumberIs
<1>2. Moves(u, d, P, Q)
    BY <1>1, MovedIs
<1>3. H \in Digit
    <2>1. d[1] \in Digit
        BY <1>1
    <2>2. H \in 0..(P - 1)
        BY <2>1, DigitParts
    <2>3. P \in Nat \ {0} /\ Q \in Nat \ {0} /\ P * Q = Base
        BY DEF Splits
    <2>4. P * Q >= P
        BY <2>3
    <2>. HIDE DEF H
    <2>. QED BY <2>2, <2>3, <2>4, BaseIs
<1>4. y = IF H = 0 THEN [a EXCEPT !.exp = a.exp + q, !.digits = u]
          ELSE [a EXCEPT !.exp = a.exp + q + 1, !.digits = <<H>> \o u]
    BY DEF Unrounded
<1>. HIDE DEF u, H
<1>5. /\ u \in Seq(Digit) /\ Len(u) = n
      /\ Read(u, n) = P * Read(d, n) - H * Rank(n)
    BY <1>2 DEF Moves, H
<1>6. a = [neg |-> a.neg, exp |-> a.exp, digits |-> a.digits]
    BY DEF Numbers
<1>7. Read(d, n) \in Int /\ Rank(n) \in Int /\ P \in Int
    <2>1. Read(d, n) \in Int
        BY NumberIs, ReadInt
    <2>2. Rank(n) \in Nat
        BY <1>1, RankNext
    <2>. QED BY <2>1, <2>2 DEF Splits
<1>8. ~a.neg => Amount(a) = Read(d, n)
    BY Positive
<1>9. CASE H = 0
    <2>. DEFINE f == u
    <2>1. y = [neg |-> a.neg, exp |-> a.exp + q, digits |-> u]
        BY <1>4, <1>6, <1>9
    <2>2. y \in Numbers /\ y.neg = a.neg /\ y.exp = a.exp + q /\ y.digits = u
        BY <1>1, <1>5, <2>1 DEF Numbers
    <2>3. Len(y.digits) = n
        BY <1>5, <2>2
    <2>4. Bottom(y) = Bottom(a) + q
        BY <1>1, <2>2, <2>3 DEF Bottom
    <2>5. ASSUME ~a.neg PROVE Amount(y) = P * Amount(a)
        <3>1. Amount(y) = Read(u, n)
            BY <2>2, <2>3, <2>5, Positive
        <3>2. H * Rank(n) = 0
            BY <1>7, <1>9
        <3>3. P * Read(d, n) \in Int
            BY <1>7
        <3>4. Read(u, n) = P * Read(d, n)
            BY <1>5, <3>2, <3>3
        <3>. QED BY <3>1, <3>4, <1>8, <2>5
    <2>6. Len(y.digits) > 0
        BY <2>3, <1>1
    <2>. QED BY <2>2, <2>4, <2>5, <2>6
<1>10. CASE H # 0
    <2>. DEFINE f == <<H>> \o u
    <2>1. Leads(f, H, u)
        BY <1>3, <1>5, FirstDigit
    <2>2. y = [a EXCEPT !.exp = a.exp + q + 1, !.digits = f]
        BY <1>4, <1>10
    <2>. HIDE DEF f
    <2>3. y = [neg |-> a.neg, exp |-> a.exp + q + 1, digits |-> f]
        BY <1>6, <2>2
    <2>4. f \in Seq(Digit) /\ Len(f) = n + 1 /\ Read(f, n + 1) = H * Rank(n) + Read(u, n)
        BY <2>1, <1>5 DEF Leads
    <2>5. y \in Numbers /\ y.neg = a.neg /\ y.exp = a.exp + q + 1 /\ y.digits = f
        BY <1>1, <2>3, <2>4 DEF Numbers
    <2>6. Len(y.digits) = n + 1
        BY <2>4, <2>5
    <2>7. Bottom(y) = Bottom(a) + q /\ Len(y.digits) > 0
        <3>1. Bottom(y) = (a.exp + q + 1) - (n + 1) + 1 /\ Bottom(a) = a.exp - n + 1
            BY <2>5, <2>6 DEF Bottom
        <3>2. a.exp \in Int /\ n \in Nat
            BY <1>1
        <3>. DEFINE e == a.exp
        <3>. HIDE DEF n, e
        <3>3. Len(y.digits) > 0
            BY <2>6, <3>2
        <3>4. Bottom(y) = (e + q + 1) - (n + 1) + 1 /\ Bottom(a) = e - n + 1 /\ e \in Int
            BY <3>1, <3>2 DEF e
        <3>5. (e + q + 1) - (n + 1) + 1 = (e - n + 1) + q
            BY <3>2, <3>4
        <3>. QED BY <3>3, <3>4, <3>5
    <2>8. ASSUME ~a.neg PROVE Amount(y) = P * Amount(a)
        <3>1. Amount(y) = Read(f, n + 1)
            BY <2>5, <2>6, <2>8, Positive
        <3>2. H \in Int
            BY <1>3, BaseIs
        <3>3. P * Read(d, n) \in Int /\ H * Rank(n) \in Int
            BY <1>7, <3>2
        <3>4. Read(f, n + 1) = P * Read(d, n)
            BY <1>5, <2>4, <3>3
        <3>. QED BY <3>1, <3>4, <1>8, <2>8
    <2>. QED BY <2>5, <2>7, <2>8
<1>. QED BY <1>9, <1>10

(* A shift leaves a trimmed number. *)
LEMMA ShiftNumber ==
    ASSUME NEW a, Trimmed(a), NEW s \in Int
    PROVE  Trimmed(shift(a, s))
<1>1. a \in Numbers /\ Len(a.digits) > 0
    BY TrimmedIs
<1>2. CASE s % Bits = 0
    <2>1. s \div Bits \in Int
        BY BitsIs, DivMod
    <2>2. Trimmed(Ranked(a, s \div Bits))
        BY <1>1, <2>1, RankedIs
    <2>. QED BY <2>2, <1>2, ShiftWhole
<1>3. CASE s % Bits # 0
    <2>. DEFINE k == s % Bits
                y == Unrounded(a, Whole(s), Power(2, k), Power(2, Bits - k))
    <2>1. k \in 0..(Bits - 1) /\ Whole(s) \in Int
        BY WholeIs
    <2>2. Splits(Power(2, k), Power(2, Bits - k))
        <3>. HIDE DEF k
        <3>. QED BY <2>1, PartsOf
    <2>3. y \in Numbers /\ Len(y.digits) > 0
        BY <1>1, <2>1, <2>2, UnroundedIs
    <2>4. shift(a, s) = trim(y)
        BY <1>3, ShiftParts
    <2>. HIDE DEF y
    <2>. QED BY <2>3, <2>4, TrimIs
<1>. QED BY <1>2, <1>3

(* A shift to the left of a number that is not negative is exact. *)
LEMMA ShiftValue ==
    ASSUME NEW a \in Numbers, Len(a.digits) > 0, ~a.neg, NEW s \in Nat,
           NEW t \in Int, Bottom(a) + t >= 0
    PROVE  Value(shift(a, s), t) = Value(a, t) * Power(2, s)
<1>. DEFINE k == s % Bits
            q == s \div Bits
            P == Power(2, k)
<1>1. k \in 0..(Bits - 1) /\ s = Bits * q + k /\ q \in Nat /\ Whole(s) = q
    <2>1. s \in Int /\ s >= 0
        OBVIOUS
    <2>2. /\ s % Bits \in 0..(Bits - 1) /\ s = Bits * (s \div Bits) + (s % Bits)
          /\ Whole(s) \in Int /\ (s >= 0 => Whole(s) \in Nat /\ Whole(s) = s \div Bits)
        BY <2>1, WholeIs
    <2>. QED BY <2>1, <2>2
<1>. HIDE DEF k, q
<1>2. Power(2, s) = Rank(q) * P
    <2>1. Power(2, Bits * q) = Rank(q) /\ Bits * q \in Nat
        BY <1>1, PowerOfBase
    <2>2. k \in Nat
        BY <1>1, BitsIs
    <2>3. Power(2, Bits * q + k) = Power(2, Bits * q) * Power(2, k)
        BY <2>1, <2>2, PowerSum
    <2>. QED BY <2>1, <2>3, <1>1
<1>3. Bottom(a) + t \in Nat /\ Amount(a) \in Int /\ Bottom(a) \in Int
    BY NumberIs
<1>4. Rank(Bottom(a) + q + t) = Rank(q) * Rank(Bottom(a) + t)
    <2>1. Bottom(a) + q + t = q + (Bottom(a) + t)
        BY <1>1, <1>3
    <2>2. Rank(q + (Bottom(a) + t)) = Rank(q) * Rank(Bottom(a) + t)
        BY <1>1, <1>3, RankSum
    <2>. QED BY <2>1, <2>2
<1>5. Rank(q) \in Int /\ Rank(Bottom(a) + t) \in Int /\ P \in Int /\ P = Power(2, k)
    <2>1. Rank(q) \in Nat
        BY <1>1, RankNext
    <2>2. Rank(Bottom(a) + t) \in Nat
        BY <1>3, RankNext
    <2>3. P \in Int
        <3>1. k \in Nat
            BY <1>1, BitsIs
        <3>. QED BY <3>1, PowerPositive
    <2>. QED BY <2>1, <2>2, <2>3
<1>6. Value(a, t) = Amount(a) * Rank(Bottom(a) + t)
    BY ValueIs
<1>7. Value(shift(a, s), t) = (P * Amount(a)) * Rank(Bottom(a) + q + t)
    <2>1. CASE k = 0
        <3>1. shift(a, s) = Ranked(a, q)
            <4>1. s % Bits = 0
                BY <2>1 DEF k
            <4>. QED BY <4>1, ShiftWhole DEF q
        <3>2. /\ Ranked(a, q) \in Numbers /\ Bottom(Ranked(a, q)) = Bottom(a) + q
              /\ Amount(Ranked(a, q)) = Amount(a)
            BY <1>1, RankedIs
        <3>3. Value(Ranked(a, q), t) = Amount(a) * Rank(Bottom(a) + q + t)
            BY <3>2, ValueIs
        <3>4. P = 1
            BY <2>1, PowerZero
        <3>5. P * Amount(a) = Amount(a)
            BY <3>4, <1>3
        <3>. QED BY <3>1, <3>3, <3>5
    <2>2. CASE k # 0
        <3>. DEFINE y == Unrounded(a, q, P, Power(2, Bits - k))
        <3>1. Splits(P, Power(2, Bits - k))
            BY <1>1, PartsOf
        <3>2. /\ y \in Numbers /\ Len(y.digits) > 0 /\ Bottom(y) = Bottom(a) + q
              /\ Amount(y) = P * Amount(a)
            BY <1>1, <3>1, UnroundedIs
        <3>3. shift(a, s) = trim(y)
            <4>1. s % Bits # 0
                BY <2>2 DEF k
            <4>. QED BY <4>1, <1>1, ShiftParts DEF k
        <3>. HIDE DEF y, P
        <3>4. Bottom(y) + t >= 0
            BY <3>2, <1>1, <1>3
        <3>5. Value(trim(y), t) = Value(y, t)
            BY <3>2, <3>4, TrimValue
        <3>6. Value(y, t) = Amount(y) * Rank(Bottom(y) + t)
            BY <3>2, ValueIs
        <3>. QED BY <3>2, <3>3, <3>5, <3>6
    <2>. QED BY <2>1, <2>2
<1>. DEFINE A == Amount(a)
            r == Rank(Bottom(a) + t)
            z == Rank(q)
<1>8. /\ Value(shift(a, s), t) = (P * A) * (z * r) /\ Value(a, t) = A * r /\ Power(2, s) = z * P
      /\ A \in Int /\ r \in Int /\ z \in Int /\ P \in Int
    BY <1>2, <1>3, <1>4, <1>5, <1>6, <1>7
<1>. HIDE DEF A, r, z, P
<1>9. (P * A) * (z * r) = (A * r) * (z * P)
    <2>1. P * A = A * P /\ z * r = r * z /\ A * P \in Int /\ A * r \in Int /\ z * P \in Int /\ r * z \in Int
        BY <1>8
    <2>2. (A * P) * (r * z) = A * (P * (r * z)) /\ (A * r) * (z * P) = A * (r * (z * P))
        BY <1>8
    <2>3. P * (r * z) = r * (z * P)
        BY <1>8
    <2>. QED BY <2>1, <2>2, <2>3
<1>. QED BY <1>8, <1>9

(* So is one to the right by less than a digit. *)
LEMMA ShiftRight ==
    ASSUME NEW a \in Numbers, Len(a.digits) > 0, ~a.neg, NEW s \in Int, -Bits < s, s < 0,
           NEW t \in Int, Bottom(a) + t >= 0
    PROVE  Value(shift(a, s), t + 1) * Power(2, -s) = Value(a, t + 1)
<1>. DEFINE k == Bits + s
            P == Power(2, k)
            y == Unrounded(a, -1, P, Power(2, Bits - k))
            m == Bottom(a) + t
<1>1. k \in 1..(Bits - 1) /\ s = Bits * (-1) + k /\ -s \in 0..(Bits - 1) /\ -s = Bits * 0 + (-s)
    BY BitsIs
<1>. HIDE DEF k
<1>2. s % Bits = k
    <2>. DEFINE q == -1
    <2>1. k \in 0..(Bits - 1) /\ q \in Int /\ s = Bits * q + k
        BY <1>1
    <2>. HIDE DEF q
    <2>. QED BY <2>1, BitsIs, Divided2
<1>3. (-s) \div Bits = 0
    <2>. DEFINE n == -s
    <2>1. n \in 0..(Bits - 1) /\ n = Bits * 0 + n /\ n \in Int /\ 0 \in Int
        BY <1>1
    <2>. HIDE DEF n
    <2>2. n \div Bits = 0
        BY <2>1, BitsIs, Divided2
    <2>. QED BY <2>2 DEF n
<1>4. s % Bits # 0 /\ Whole(s) = -1
    BY <1>1, <1>2, <1>3 DEF Whole
<1>5. shift(a, s) = trim(y)
    BY <1>2, <1>4, ShiftParts
<1>6. Splits(P, Power(2, Bits - k))
    <2>1. k \in 0..(Bits - 1)
        BY <1>1
    <2>. QED BY <2>1, PartsOf
<1>7. y \in Numbers /\ Len(y.digits) > 0 /\ Bottom(y) = Bottom(a) + -1 /\ Amount(y) = P * Amount(a)
    <2>1. -1 \in Int
        OBVIOUS
    <2>. QED BY <2>1, <1>6, UnroundedIs
<1>. HIDE DEF y
<1>8. Bottom(a) \in Int /\ Amount(a) \in Int /\ m \in Nat
    BY NumberIs
<1>9. Bottom(y) + (t + 1) = m /\ t + 1 \in Int
    BY <1>7, <1>8
<1>10. Value(trim(y), t + 1) = Amount(y) * Rank(m)
    <2>1. Bottom(y) + (t + 1) >= 0
        BY <1>8, <1>9
    <2>2. Value(trim(y), t + 1) = Value(y, t + 1)
        BY <2>1, <1>7, <1>9, TrimValue
    <2>. QED BY <2>2, <1>7, <1>9, ValueIs
<1>11. Value(a, t + 1) = Amount(a) * Rank(m + 1)
    <2>1. Bottom(a) + (t + 1) = m + 1
        BY <1>8
    <2>. QED BY <2>1, <1>9, ValueIs
<1>12. P * Power(2, -s) = Base /\ P \in Int /\ Power(2, -s) \in Int
    <2>. DEFINE n == -s
    <2>1. k \in Nat /\ n \in Nat /\ k + n = Bits
        BY <1>1, BitsIs
    <2>. HIDE DEF n
    <2>2. Power(2, k + n) = Power(2, k) * Power(2, n)
        BY <2>1, PowerSum
    <2>3. \A i \in Nat : Power(2, i) \in Nat \ {0}
        <3>1. 2 \in Nat \ {0}
            OBVIOUS
        <3>. QED BY <3>1, PowerPositive
    <2>4. Power(2, k) \in Nat /\ Power(2, n) \in Nat
        BY <2>1, <2>3
    <2>5. Power(2, k) * Power(2, n) = Base
        BY <2>1, <2>2, BitsIs
    <2>. QED BY <2>4, <2>5 DEF n
<1>13. Rank(m + 1) = Base * Rank(m) /\ Rank(m) \in Int
    BY <1>8, RankNext
<1>. DEFINE A == Amount(a)
            r == Rank(m)
            z == Power(2, -s)
<1>14. (P * A * r) * z = A * (Base * r)
    <2>1. P * z = Base /\ P \in Int /\ z \in Int /\ A \in Int /\ r \in Int
        BY <1>8, <1>12, <1>13
    <2>. HIDE DEF P, z, A, r
    <2>2. (P * A * r) * z = (P * z) * (A * r) /\ A * (Base * r) = Base * (A * r)
        BY <2>1, BaseIs
    <2>. QED BY <2>1, <2>2
<1>. QED BY <1>5, <1>7, <1>10, <1>11, <1>13, <1>14

-------------------------------------------------------------------------------
(* Numbers are compared *)

Compares(a, b, v, w) ==
    /\ cmp(a, b, "Greater") = (v > w)
    /\ cmp(a, b, "Geq") = (v >= w)
    /\ cmp(a, b, "Eq") = (v = w)

(* Equivalent truth values are equal. *)
LEMMA SameTruth ==
    ASSUME NEW p \in BOOLEAN, NEW q \in BOOLEAN, p <=> q
    PROVE  p = q
OBVIOUS

(* A comparison has a truth value. *)
LEMMA CmpBoolean ==
    ASSUME NEW a \in Numbers, NEW b \in Numbers, NEW t
    PROVE  cmp(a, b, t) \in BOOLEAN
<1>1. a.neg \in BOOLEAN /\ b.neg \in BOOLEAN
    BY NumberIs
<1>. QED BY <1>1 DEF cmp

(* The three comparisons of cmp() tell all six operators. *)
LEMMA ComparesIf ==
    ASSUME NEW a \in Numbers, NEW b \in Numbers, NEW v \in Int, NEW w \in Int,
           cmp(a, b, "Greater") <=> v > w, cmp(a, b, "Geq") <=> v >= w, cmp(a, b, "Eq") <=> v = w
    PROVE  Compares(a, b, v, w)
<1>1. cmp(a, b, "Greater") \in BOOLEAN /\ cmp(a, b, "Geq") \in BOOLEAN /\ cmp(a, b, "Eq") \in BOOLEAN
    BY CmpBoolean
<1>2. (v > w) \in BOOLEAN /\ (v >= w) \in BOOLEAN /\ (v = w) \in BOOLEAN
    OBVIOUS
<1>3. cmp(a, b, "Greater") = (v > w)
    BY <1>1, <1>2, SameTruth, Zenon
<1>4. cmp(a, b, "Geq") = (v >= w)
    BY <1>1, <1>2, SameTruth, Zenon
<1>5. cmp(a, b, "Eq") = (v = w)
    BY <1>1, <1>2, SameTruth, Zenon
<1>. QED BY <1>3, <1>4, <1>5, Zenon DEF Compares

(* Different signs decide. *)
LEMMA CmpSigns ==
    ASSUME NEW a \in Numbers, NEW b \in Numbers, a.neg # b.neg, NEW v \in Int, NEW w \in Int,
           a.neg => v < w, b.neg => w < v
    PROVE  Compares(a, b, v, w)
<1>1. a.neg \in BOOLEAN /\ b.neg \in BOOLEAN
    BY NumberIs
<1>2. CASE b.neg
    <2>1. w < v
        BY <1>2
    <2>2. /\ cmp(a, b, "Greater") <=> TRUE
          /\ cmp(a, b, "Geq") <=> TRUE
          /\ cmp(a, b, "Eq") <=> FALSE
        BY <1>2 DEF cmp
    <2>3. (v > w) /\ (v >= w) /\ ~(v = w)
        BY <2>1
    <2>. QED BY <2>2, <2>3, ComparesIf
<1>3. CASE ~b.neg
    <2>1. a.neg
        BY <1>1, <1>3
    <2>2. v < w
        BY <2>1
    <2>3. /\ cmp(a, b, "Greater") <=> FALSE
          /\ cmp(a, b, "Geq") <=> FALSE
          /\ cmp(a, b, "Eq") <=> FALSE
        BY <1>3 DEF cmp
    <2>4. ~(v > w) /\ ~(v >= w) /\ ~(v = w)
        BY <2>2
    <2>. QED BY <2>3, <2>4, ComparesIf
<1>. QED BY <1>2, <1>3

(* What digits are read as is decided by the first ones. *)
LEMMA ReadSplit ==
    ASSUME NEW d, NEW n \in Nat, Digits(d, n), NEW m \in Nat, m <= n
    PROVE  /\ Read(d, m) \in Nat /\ Read(d, n) \in Nat /\ Rank(n - m) \in Nat
           /\ Read(d, m) * Rank(n - m) <= Read(d, n)
           /\ Read(d, n) < (Read(d, m) + 1) * Rank(n - m)
<1>. DEFINE k == n - m
            e == [i \in 1..k |-> d[m + i]]
<1>1. k \in Nat /\ m + k = n
    OBVIOUS
<1>. HIDE DEF k
<1>2. Digits(d, m) /\ Digits(e, k) /\ Row(d, m + k)
    <2>1. Row(d, n)
        BY DigitsRow
    <2>. QED BY <2>1, <1>1 DEF Digits
<1>3. Follows(e, d, m, k)
    BY DEF Follows
<1>. HIDE DEF e
<1>4. ReadsOn(e, d, m, k)
    BY <1>1, <1>2, <1>3, ReadOn
<1>5. Read(d, m) \in Nat /\ Read(d, n) \in Nat /\ Read(e, k) \in Nat /\ Read(e, k) < Rank(k)
    BY <1>1, <1>2, ReadBound
<1>6. Rank(k) \in Nat
    BY <1>1, RankNext
<1>. DEFINE D == Read(d, m)
            r == Rank(k)
            E == Read(e, k)
<1>7. Read(d, n) = D * r + E /\ D \in Nat /\ r \in Nat /\ E \in Nat /\ E < r
    BY <1>1, <1>4, <1>5, <1>6 DEF ReadsOn
<1>. HIDE DEF D, r, E
<1>8. (D + 1) * r = D * r + r /\ D * r \in Nat
    BY <1>7
<1>9. D * r <= Read(d, n) /\ Read(d, n) < (D + 1) * r
    BY <1>7, <1>8
<1>. QED BY <1>5, <1>6, <1>9 DEF D, r, k

(* The first digit that differs decides between rows of one length. *)
LEMMA Lexicographic ==
    ASSUME NEW d, NEW e, NEW n \in Nat, Digits(d, n), Digits(e, n), NEW i \in 1..n,
           \A j \in 1..(i - 1) : d[j] = e[j], d[i] > e[i]
    PROVE  Read(d, n) > Read(e, n)
<1>. DEFINE m == i - 1
            r == Rank(n - i)
<1>1. m \in Nat /\ i = m + 1 /\ i \in Nat /\ i <= n
    OBVIOUS
<1>. HIDE DEF m
<1>2. Digits(d, i) /\ Digits(e, i) /\ d[i] \in Digit /\ e[i] \in Digit /\ Row(d, m + 1) /\ Row(e, m + 1)
    <2>1. Digits(d, i) /\ Digits(e, i) /\ d[i] \in Digit /\ e[i] \in Digit
        BY <1>1 DEF Digits
    <2>2. Row(d, i) /\ Row(e, i)
        BY <1>1, <2>1, DigitsRow
    <2>. QED BY <2>1, <2>2, <1>1
<1>3. Read(e, m) = Read(d, m)
    <2>1. Row(e, m)
        BY <1>1, <1>2 DEF Row
    <2>2. Row(d, m) /\ \A j \in 1..m : e[j] = d[j]
        BY <1>1, <1>2 DEF Row, m
    <2>. QED BY <2>1, <2>2, <1>1, ReadSame
<1>4. /\ Read(d, m) \in Int /\ Read(d, m + 1) = Read(d, m) * Base + d[m + 1]
      /\ Read(e, m + 1) = Read(e, m) * Base + e[m + 1]
    BY <1>1, <1>2, ReadNext
<1>5. /\ Read(d, i) \in Nat /\ Read(d, n) \in Nat /\ Rank(n - i) \in Nat
      /\ Read(d, i) * Rank(n - i) <= Read(d, n)
    BY <1>1, ReadSplit
<1>6. /\ Read(e, i) \in Nat /\ Read(e, n) \in Nat
      /\ Read(e, n) < (Read(e, i) + 1) * Rank(n - i)
    BY <1>1, ReadSplit
<1>7. Read(e, i) + 1 <= Read(d, i)
    <2>1. Read(d, m) * Base \in Int
        BY <1>4, BaseIs
    <2>. QED BY <2>1, <1>1, <1>2, <1>3, <1>4, BaseIs, SMTT(30)
<1>. DEFINE D == Read(d, i)
            E == Read(e, i)
<1>8. D \in Nat /\ E \in Nat /\ r \in Nat /\ E + 1 <= D
    BY <1>5, <1>6, <1>7
<1>9. D * r <= Read(d, n) /\ Read(e, n) < (E + 1) * r
    BY <1>5, <1>6
<1>. HIDE DEF D, E, r
<1>10. (E + 1) * r <= D * r /\ (E + 1) * r \in Nat /\ D * r \in Nat
    BY <1>8
<1>. QED BY <1>5, <1>6, <1>9, <1>10

(* Powers of the base grow. *)
LEMMA RankOrder ==
    ASSUME NEW m \in Nat, NEW n \in Nat, m <= n
    PROVE  Rank(m) <= Rank(n) /\ Rank(m) \in Nat /\ Rank(n) \in Nat
<1>1. n - m \in Nat /\ m + (n - m) = n
    OBVIOUS
<1>2. Rank(m + (n - m)) = Rank(m) * Rank(n - m)
    BY <1>1, RankSum
<1>3. Rank(m) \in Nat /\ Rank(m) > 0
    BY RankNext
<1>4. Rank(n - m) \in Nat /\ Rank(n - m) > 0
    BY <1>1, RankNext
<1>. DEFINE A == Rank(m)
            B == Rank(n - m)
<1>5. A \in Nat /\ B \in Nat /\ B > 0 /\ Rank(n) = A * B
    BY <1>1, <1>2, <1>3, <1>4
<1>. HIDE DEF A, B
<1>6. A * B >= A /\ A * B \in Nat
    BY <1>5
<1>. QED BY <1>5, <1>6 DEF A

(* A value has its number's sign. *)
LEMMA ValueSign ==
    ASSUME NEW a \in Numbers, NEW s \in Int, Bottom(a) + s >= 0
    PROVE  /\ Value(a, s) \in Int
           /\ a.neg => Value(a, s) < 0
           /\ ~a.neg => Value(a, s) >= 0
<1>1. Value(a, s) = Amount(a) * Rank(Bottom(a) + s)
    BY ValueIs
<1>2. Bottom(a) + s \in Nat /\ Amount(a) \in Int
    BY NumberIs
<1>3. Rank(Bottom(a) + s) \in Nat /\ Rank(Bottom(a) + s) > 0
    BY <1>2, RankNext
<1>4. (a.neg => Amount(a) < 0) /\ (~a.neg => Amount(a) >= 0)
    <2>1. ~a.neg => Amount(a) \in Nat
        BY Positive
    <2>. QED BY <2>1, Negative
<1>. DEFINE A == Amount(a)
            r == Rank(Bottom(a) + s)
<1>5. A \in Int /\ r \in Nat /\ r > 0 /\ Value(a, s) = A * r /\ (a.neg => A < 0) /\ (~a.neg => A >= 0)
    BY <1>1, <1>2, <1>3, <1>4
<1>. HIDE DEF A, r
<1>6. (A < 0 => A * r < 0) /\ (A >= 0 => A * r >= 0) /\ A * r \in Int
    BY <1>5
<1>. QED BY <1>5, <1>6

(* A number that is not negative is less than the next power of the base,   *)
(* and no less than that of its first digit, unless that is 0.              *)
LEMMA ValueRange ==
    ASSUME NEW a \in Numbers, ~a.neg, Len(a.digits) > 0, NEW s \in Int, Bottom(a) + s >= 0
    PROVE  /\ a.exp + s \in Nat /\ Value(a, s) \in Nat /\ Value(a, s) < Rank(a.exp + 1 + s)
           /\ a.digits[1] # 0 => Value(a, s) >= Rank(a.exp + s)
<1>. DEFINE d == a.digits
            n == Len(d)
            t == Bottom(a) + s
            m == n - 1
<1>1. d \in Seq(Digit) /\ n \in Nat /\ n > 0 /\ t \in Nat /\ m \in Nat /\ n = m + 1 /\ a.exp \in Int
    BY NumberIs
<1>2. t + m = a.exp + s /\ t + n = a.exp + 1 + s
    <2>. DEFINE e == a.exp
    <2>1. t = (e - n + 1) + s /\ e \in Int
        BY <1>1 DEF Bottom
    <2>. HIDE DEF e, t, n
    <2>2. t + (n - 1) = e + s /\ t + n = e + 1 + s
        BY <2>1, <1>1
    <2>. QED BY <2>2 DEF e
<1>3. Amount(a) = Read(d, n) /\ Value(a, s) = Amount(a) * Rank(t) /\ Digits(d, n)
    BY Positive, ValueIs, NumberIs
<1>. HIDE DEF d, n, t, m
<1>4. Read(d, n) \in Nat /\ Read(d, n) < Rank(n)
    BY <1>1, <1>3, ReadBound
<1>5. Rank(t + m) = Rank(t) * Rank(m) /\ Rank(t + n) = Rank(t) * Rank(n)
    BY <1>1, RankSum
<1>6. Rank(t) \in Nat /\ Rank(t) > 0
    BY <1>1, RankNext
<1>7. Rank(m) \in Nat
    BY <1>1, RankNext
<1>8. Rank(n) \in Nat
    BY <1>1, RankNext
<1>. DEFINE D == Read(d, n)
            rt == Rank(t)
            rm == Rank(m)
            rn == Rank(n)
<1>9. /\ D \in Nat /\ D < rn /\ rt \in Nat /\ rt > 0 /\ rm \in Nat /\ rn \in Nat
      /\ Value(a, s) = D * rt /\ Rank(t + m) = rt * rm /\ Rank(t + n) = rt * rn
    BY <1>3, <1>4, <1>5, <1>6, <1>7, <1>8
<1>10. d[1] # 0 => D >= rm
    <2>1. /\ Read(d, 1) \in Nat /\ Rank(n - 1) \in Nat
          /\ Read(d, 1) * Rank(n - 1) <= Read(d, n)
        BY <1>1, <1>3, ReadSplit
    <2>2. Read(d, 1) = d[1]
        <3>1. Row(d, 0 + 1)
            BY <1>1, <1>3, BaseIs DEF Digits, Row
        <3>2. Read(d, 0 + 1) = Read(d, 0) * Base + d[0 + 1]
            BY <3>1, ReadNext
        <3>3. d[1] \in Int
            BY <3>1 DEF Row
        <3>. QED BY <3>2, <3>3, ReadZero, BaseIs
    <2>3. n - 1 = m
        BY <1>1
    <2>4. d[1] \in Nat /\ d[1] * rm <= D
        BY <2>1, <2>2, <2>3
    <2>. DEFINE v == d[1]
    <2>5. v \in Nat /\ v * rm <= D
        BY <2>4
    <2>. HIDE DEF D, rm, v
    <2>6. v # 0 => v * rm >= rm
        BY <2>5, <1>9
    <2>7. v # 0 => D >= rm
        BY <2>5, <2>6, <1>9, SMTT(30)
    <2>. QED BY <2>7 DEF v
<1>. HIDE DEF D, rt, rm, rn
<1>11. D * rt \in Nat /\ D * rt < rt * rn
    BY <1>9
<1>12. d[1] # 0 => D * rt >= rt * rm
    BY <1>9, <1>10
<1>13. t + m \in Nat
    BY <1>1
<1>. QED BY <1>2, <1>9, <1>11, <1>12, <1>13 DEF d

(* The first digit is not 0, but for zero itself. *)
LEMMA FirstNotZero ==
    ASSUME NEW a, Trimmed(a), ~a.neg, a.digits # << 0 >>
    PROVE  a.digits[1] # 0
<1>1. a \in Numbers /\ Len(a.digits) > 0
    BY TrimmedIs
<1>0. a.digits \in Seq(Digit) /\ Len(a.digits) \in Nat
    BY <1>1, NumberIs
<1>2. CASE Len(a.digits) > 1
    BY <1>2 DEF Trimmed
<1>3. CASE ~(Len(a.digits) > 1)
    <2>. DEFINE n == Len(a.digits)
    <2>0. n \in Nat /\ n > 0 /\ ~(n > 1)
        BY <1>0, <1>1, <1>3
    <2>. HIDE DEF n
    <2>1. n = 1
        BY <2>0
    <2>. DEFINE d == a.digits
    <2>2. d \in Seq(Digit) /\ Len(d) = 1 /\ d # << 0 >>
        BY <1>0, <2>1 DEF n
    <2>. HIDE DEF d
    <2>3. d = <<d[1]>>
        BY <2>2
    <2>4. d[1] # 0
        BY <2>2, <2>3
    <2>. QED BY <2>4 DEF d
<1>. QED BY <1>2, <1>3

(* Digits first differ at the least place at which they do. *)
FirstDiffers(i, d, e) ==
    i \in 1..Len(d) /\ d[i] # e[i] /\ \A j \in 1..(i - 1) : d[j] = e[j]

(* Where two rows differ first. *)
LEMMA DifferIs ==
    ASSUME NEW d \in Seq(Digit), NEW e \in Seq(Digit), Len(d) = Len(e),
           NEW S, S = {i \in DOMAIN d : d[i] # e[i]}
    PROVE  /\ S = {} => d = e
           /\ S # {} => FirstDiffers(Min(S), d, e)
<1>1. DOMAIN d = 1..Len(d) /\ Len(d) \in Nat /\ DOMAIN e = 1..Len(e)
    OBVIOUS
<1>2. ASSUME S = {} PROVE d = e
    <2>1. \A i \in 1..Len(d) : d[i] = e[i]
        BY <1>1, <1>2
    <2>. QED BY <2>1, <1>1
<1>3. ASSUME S # {}
      PROVE  Min(S) \in S /\ \A y \in S : Min(S) <= y
    <2>1. S \in SUBSET Nat
        BY <1>1
    <2>2. \E c \in S : \A y \in S : c <= y
        BY <2>1, <1>3, LeastNatural
    <2>. QED BY <2>2 DEF Min
<1>4. ASSUME S # {}
      PROVE  FirstDiffers(Min(S), d, e)
    <2>. DEFINE m == Min(S)
    <2>1. m \in S /\ \A y \in S : m <= y
        BY <1>3, <1>4
    <2>. HIDE DEF m
    <2>2. m \in 1..Len(d) /\ d[m] # e[m]
        BY <2>1, <1>1
    <2>3. ASSUME NEW j \in 1..(m - 1) PROVE d[j] = e[j]
        <3>1. j \in 1..Len(d) /\ ~(m <= j)
            BY <2>2, <1>1
        <3>. QED BY <3>1, <2>1, <1>1
    <2>. QED BY <2>2, <2>3 DEF m, FirstDiffers
<1>. QED BY <1>2, <1>4

(* What cmp() says of two numbers of one sign when Decides finds d. *)
Told(d, neg, v, w) == IF d = 0 THEN v = w ELSE v # w /\ ((v > w) <=> (d > 0 <=> ~neg))

(* Between numbers of one sign what Decides finds is all that counts. *)
LEMMA CmpTold ==
    ASSUME NEW a \in Numbers, NEW b \in Numbers, a.neg = b.neg, NEW v \in Int, NEW w \in Int,
           NEW d \in Int, Decides(a, b) = d
    PROVE  Compares(a, b, v, w) <=> Told(d, a.neg, v, w)
<1>1. a.neg \in BOOLEAN /\ ~(a.neg # b.neg)
    BY NumberIs
<1>2. (v > w) \in BOOLEAN /\ (v >= w) \in BOOLEAN /\ (v = w) \in BOOLEAN /\ (d > 0) \in BOOLEAN
    OBVIOUS
<1>3. CASE d = 0
    <2>1. /\ cmp(a, b, "Greater") <=> FALSE
          /\ cmp(a, b, "Geq") <=> TRUE
          /\ cmp(a, b, "Eq") <=> TRUE
        BY <1>1, <1>3 DEF cmp
    <2>2. ASSUME v = w PROVE Compares(a, b, v, w)
        <3>1. ~(v > w) /\ v >= w
            BY <2>2
        <3>. QED BY <2>1, <2>2, <3>1, ComparesIf
    <2>3. ASSUME Compares(a, b, v, w) PROVE v = w
        BY <2>1, <2>3, <1>2 DEF Compares
    <2>. QED BY <2>2, <2>3, <1>3 DEF Told
<1>4. CASE d # 0
    <2>. DEFINE up == (d > 0) # a.neg
    <2>1. /\ cmp(a, b, "Greater") = up
          /\ cmp(a, b, "Geq") = up
          /\ cmp(a, b, "Eq") = FALSE
        BY <1>1, <1>4 DEF cmp
    <2>2. up \in BOOLEAN /\ (up <=> (d > 0 <=> ~a.neg))
        BY <1>1, <1>2, Zenon
    <2>. HIDE DEF up
    <2>3. ASSUME v # w, (v > w) <=> up PROVE Compares(a, b, v, w)
        <3>1. (v >= w) <=> up
            BY <2>3
        <3>. QED BY <2>1, <2>3, <3>1, ComparesIf
    <2>4. ASSUME Compares(a, b, v, w) PROVE v # w /\ ((v > w) <=> up)
        <3>1. up = (v > w) /\ FALSE = (v = w)
            BY <2>1, <2>4, Zenon DEF Compares
        <3>2. v # w
            BY <3>1, Zenon
        <3>3. (v > w) <=> up
            BY <3>1, Zenon
        <3>. QED BY <3>2, <3>3
    <2>5. Compares(a, b, v, w) <=> v # w /\ ((v > w) <=> up)
        BY <2>3, <2>4, Zenon
    <2>6. Told(d, a.neg, v, w) <=> v # w /\ ((v > w) <=> (d > 0 <=> ~a.neg))
        BY <1>4, Zenon DEF Told
    <2>. QED BY <2>2, <2>5, <2>6, Zenon
<1>. QED BY <1>3, <1>4

(* The digits of a with zeros behind them, n in all. *)
Lengthened(a, n) == [i \in 1..n |-> At(a.digits, i)]

(* They stand for the same. *)
LEMMA LengthenedValue ==
    ASSUME NEW a \in Numbers, NEW n \in Nat, Len(a.digits) <= n, NEW s \in Int, a.exp - n + 1 + s >= 0
    PROVE  /\ Digits(Lengthened(a, n), n) /\ Read(Lengthened(a, n), n) \in Nat
           /\ a.exp - n + 1 + s \in Nat
           /\ Value(a, s) = (Read(Lengthened(a, n), n) - (IF a.neg THEN Rank(n) ELSE 0))
                            * Rank(a.exp - n + 1 + s)
<1>. DEFINE m == Len(a.digits)
            k == n - m
            d == Lengthened(a, n)
            t == a.exp - n + 1 + s
<1>1. /\ m \in Nat /\ k \in Nat /\ m + k = n /\ a.exp \in Int /\ t \in Nat /\ a.neg \in BOOLEAN
      /\ a.digits \in Seq(Digit) /\ Digits(a.digits, m) /\ Row(a.digits, m)
    BY NumberIs
<1>2. \A i \in 1..n : d[i] = IF i \in 1..m THEN a.digits[i] ELSE 0
    BY <1>1 DEF Lengthened, At
<1>3. Bottom(a) + s = k + t
    <2>. DEFINE x0 == a.exp
    <2>1. x0 \in Int
        BY <1>1
    <2>2. Bottom(a) = x0 - m + 1
        BY DEF Bottom
    <2>. HIDE DEF x0, m
    <2>3. Bottom(a) + s = (n - m) + (x0 - n + 1 + s)
        BY <1>1, <2>1, <2>2
    <2>. QED BY <2>3 DEF x0
<1>. HIDE DEF t, k, d
<1>4. Digits(d, n) /\ Row(d, n)
    <2>1. ASSUME NEW i \in 1..n PROVE d[i] \in Digit
        <3>1. 0 \in Digit
            BY BaseIs
        <3>2. i \in 1..m => a.digits[i] \in Digit
            BY <1>1 DEF Digits
        <3>. QED BY <1>2, <3>1, <3>2
    <2>2. Digits(d, n)
        BY <2>1 DEF Digits
    <2>. QED BY <2>2, DigitsRow
<1>5. Read(d, n) \in Nat
    BY <1>4, ReadBound
<1>6. Read(d, n) = Read(a.digits, m) * Rank(k)
    <2>1. \A i \in (m + 1)..n : d[i] = 0
        BY <1>1, <1>2
    <2>2. m <= n /\ k = n - m
        BY <1>1
    <2>3. Read(d, n) = Read(d, m) * Rank(k)
        BY <1>1, <1>4, <2>1, <2>2, ReadZerosBehind
    <2>4. Read(d, m) = Read(a.digits, m)
        <3>1. \A i \in 1..m : d[i] = a.digits[i]
            BY <1>1, <1>2
        <3>2. Row(d, m)
            BY <1>1, <1>4 DEF Row
        <3>. QED BY <3>1, <3>2, <1>1, ReadSame
    <2>. QED BY <2>3, <2>4
<1>7. Rank(n) = Rank(m) * Rank(k) /\ Rank(k + t) = Rank(k) * Rank(t)
    BY <1>1, RankSum
<1>8. Value(a, s) = Amount(a) * Rank(k + t)
    BY <1>3, ValueIs
<1>9. Rank(m) \in Nat /\ Rank(k) \in Nat /\ Rank(t) \in Nat /\ Read(a.digits, m) \in Nat
    BY <1>1, RankNext, ReadBound
<1>. DEFINE D == Read(a.digits, m)
            rm == Rank(m)
            rk == Rank(k)
            rt == Rank(t)
            g == IF a.neg THEN 1 ELSE 0
<1>10. /\ D \in Int /\ rm \in Int /\ rk \in Int /\ rt \in Int /\ g \in Int
       /\ Value(a, s) = (D - g * rm) * (rk * rt)
       /\ Read(d, n) = D * rk
       /\ (IF a.neg THEN Rank(n) ELSE 0) = g * (rm * rk)
    <2>1. Amount(a) = D - g * rm
        BY <1>9 DEF Amount
    <2>2. (IF a.neg THEN Rank(n) ELSE 0) = g * (rm * rk)
        BY <1>7, <1>9
    <2>. QED BY <1>6, <1>7, <1>8, <1>9, <2>1, <2>2
<1>. HIDE DEF D, rm, rk, rt, g
<1>11. (D - g * rm) * (rk * rt) = (D * rk - g * (rm * rk)) * rt
    <2>1. D * rk \in Int /\ g * (rm * rk) \in Int /\ g * rm \in Int /\ (g * rm) * rk = g * (rm * rk)
        BY <1>10
    <2>2. (D - g * rm) * rk = D * rk - (g * rm) * rk
        BY <1>10, <2>1
    <2>3. (D - g * rm) * (rk * rt) = ((D - g * rm) * rk) * rt
        <3>. DEFINE y == D - g * rm
        <3>1. y \in Int
            BY <1>10, <2>1
        <3>. HIDE DEF y
        <3>2. y * (rk * rt) = (y * rk) * rt
            BY <1>10, <3>1
        <3>. QED BY <3>2 DEF y
    <2>. QED BY <2>1, <2>2, <2>3
<1>12. Value(a, s) = (Read(d, n) - (IF a.neg THEN Rank(n) ELSE 0)) * Rank(t)
    BY <1>10, <1>11 DEF rt
<1>13. Digits(d, n) /\ Read(d, n) \in Nat /\ t \in Nat
    BY <1>1, <1>4, <1>5
<1>. QED BY <1>12, <1>13 DEF d, t

(* Of one sign and rank, the number whose digits are ahead is the greater. *)
LEMMA AheadIs ==
    ASSUME NEW a \in Numbers, NEW b \in Numbers, a.neg = b.neg, a.exp = b.exp, NEW s \in Int,
           Bottom(a) + s >= 0, Bottom(b) + s >= 0, Ahead(a, b)
    PROVE  Value(a, s) > Value(b, s)
<1>. DEFINE l == Len(a.digits)
            m == Len(b.digits)
            n == IF l > m THEN l ELSE m
            d == Lengthened(a, n)
            e == Lengthened(b, n)
            t == a.exp - n + 1 + s
<1>1. l \in Nat /\ m \in Nat /\ n \in Nat /\ l <= n /\ m <= n /\ a.exp \in Int
    BY NumberIs, SMTT(30)
<1>2. a.exp - n + 1 + s >= 0
    <2>1. l = n => a.exp - n + 1 + s >= 0
        BY DEF Bottom
    <2>2. m = n => a.exp - n + 1 + s >= 0
        BY DEF Bottom
    <2>3. l = n \/ m = n
        BY <1>1
    <2>. HIDE DEF n, l, m
    <2>. QED BY <2>1, <2>2, <2>3
<1>. HIDE DEF n
<1>3. /\ Digits(d, n) /\ Read(d, n) \in Nat /\ t \in Nat
      /\ Value(a, s) = (Read(d, n) - (IF a.neg THEN Rank(n) ELSE 0)) * Rank(t)
    BY <1>1, <1>2, LengthenedValue
<1>4. /\ Digits(e, n) /\ Read(e, n) \in Nat
      /\ Value(b, s) = (Read(e, n) - (IF a.neg THEN Rank(n) ELSE 0)) * Rank(t)
    BY <1>1, <1>2, LengthenedValue
<1>5. PICK i \in DOMAIN a.digits : /\ a.digits[i] > At(b.digits, i)
                                   /\ \A j \in 1..(i - 1) : a.digits[j] = At(b.digits, j)
    BY DEF Ahead
<1>6. i \in 1..l /\ i \in 1..n /\ \A j \in 1..l : j \in DOMAIN a.digits
    <2>1. DOMAIN a.digits = 1..l
        BY NumberIs
    <2>. QED BY <2>1, <1>1
<1>7. d[i] > e[i] /\ \A j \in 1..(i - 1) : d[j] = e[j]
    <2>1. \A j \in 1..n : d[j] = At(a.digits, j) /\ e[j] = At(b.digits, j)
        BY <1>1 DEF Lengthened
    <2>2. \A j \in 1..l : At(a.digits, j) = a.digits[j]
        BY <1>6 DEF At
    <2>3. \A j \in 1..(i - 1) : j \in 1..l /\ j \in 1..n
        BY <1>1, <1>6
    <2>. QED BY <1>5, <1>6, <2>1, <2>2, <2>3
<1>8. Read(d, n) > Read(e, n)
    BY <1>1, <1>3, <1>4, <1>6, <1>7, Lexicographic
<1>9. Rank(t) \in Nat /\ Rank(t) > 0 /\ Rank(n) \in Nat
    BY <1>1, <1>3, RankNext
<1>. DEFINE D == Read(d, n)
            E == Read(e, n)
            r == Rank(t)
            g == IF a.neg THEN Rank(n) ELSE 0
<1>10. D \in Nat /\ E \in Nat /\ D > E /\ r \in Nat /\ r > 0 /\ g \in Int
    BY <1>3, <1>4, <1>8, <1>9
<1>11. Value(a, s) = (D - g) * r /\ Value(b, s) = (E - g) * r
    BY <1>3, <1>4
<1>. HIDE DEF D, E, r, g
<1>12. (D - g) * r > (E - g) * r
    <2>. DEFINE p == D - g
                q == E - g
    <2>1. p \in Int /\ q \in Int /\ p > q
        BY <1>10
    <2>. HIDE DEF p, q
    <2>2. p * r > q * r
        BY <1>10, <2>1
    <2>. QED BY <2>2 DEF p, q
<1>. QED BY <1>11, <1>12

(* Of two different rows that trim left, one is ahead. *)
LEMMA AheadEither ==
    ASSUME NEW a, NEW b, Trimmed(a), Trimmed(b), a.digits # b.digits
    PROVE  Ahead(a, b) \/ Ahead(b, a)
<1>. DEFINE d == a.digits
            e == b.digits
<1>1. a \in Numbers /\ b \in Numbers /\ Len(d) > 0 /\ Len(e) > 0
    BY TrimmedIs
<1>2. /\ d \in Seq(Digit) /\ e \in Seq(Digit) /\ Len(d) \in Nat /\ Len(e) \in Nat
      /\ DOMAIN d = 1..Len(d) /\ DOMAIN e = 1..Len(e)
    BY <1>1, NumberIs
<1>3. (Len(d) > 1 => d[Len(d)] # 0) /\ (Len(e) > 1 => e[Len(e)] # 0)
    BY DEF Trimmed, Last
<1>4. d # e
    OBVIOUS
<1>5. Ahead(a, b) <=> \E i \in DOMAIN d : d[i] > At(e, i) /\ \A j \in 1..(i - 1) : d[j] = At(e, j)
    BY DEF Ahead
<1>6. Ahead(b, a) <=> \E i \in DOMAIN e : e[i] > At(d, i) /\ \A j \in 1..(i - 1) : e[j] = At(d, j)
    BY DEF Ahead
<1>. HIDE DEF d, e
<1>7. PICK k \in Nat \ {0} : At(d, k) # At(e, k)
    <2>1. CASE Len(d) = Len(e)
        <3>1. PICK i \in 1..Len(d) : d[i] # e[i]
            BY <1>2, <1>4, <2>1
        <3>2. At(d, i) = d[i] /\ At(e, i) = e[i] /\ i \in Nat \ {0}
            BY <1>2, <2>1, <3>1 DEF At
        <3>. QED BY <3>1, <3>2
    <2>2. CASE Len(d) > Len(e)
        <3>1. Len(d) \in DOMAIN d /\ Len(d) \notin DOMAIN e /\ Len(d) > 1
            BY <1>1, <1>2, <2>2
        <3>2. At(d, Len(d)) # 0 /\ At(e, Len(d)) = 0
            BY <1>3, <3>1 DEF At
        <3>. QED BY <1>2, <3>1, <3>2
    <2>3. CASE Len(e) > Len(d)
        <3>1. Len(e) \in DOMAIN e /\ Len(e) \notin DOMAIN d /\ Len(e) > 1
            BY <1>1, <1>2, <2>3
        <3>2. At(e, Len(e)) # 0 /\ At(d, Len(e)) = 0
            BY <1>3, <3>1 DEF At
        <3>. QED BY <1>2, <3>1, <3>2
    <2>4. Len(d) = Len(e) \/ Len(d) > Len(e) \/ Len(e) > Len(d)
        <3>. DEFINE p == Len(d)
                    q == Len(e)
        <3>1. p \in Nat /\ q \in Nat
            BY <1>2
        <3>. HIDE DEF p, q
        <3>2. p = q \/ p > q \/ q > p
            BY <3>1
        <3>. QED BY <3>2 DEF p, q
    <2>. QED BY <2>1, <2>2, <2>3, <2>4, Zenon
<1>. DEFINE S == {i \in Nat \ {0} : At(d, i) # At(e, i)}
<1>8. PICK i \in S : \A j \in S : i <= j
    <2>1. S \in SUBSET Nat /\ S # {}
        BY <1>7
    <2>. HIDE DEF S
    <2>. QED BY <2>1, LeastNatural
<1>9. /\ i \in Nat \ {0} /\ At(d, i) # At(e, i)
      /\ \A j \in 1..(i - 1) : At(d, j) = At(e, j)
    <2>1. i \in Nat \ {0} /\ At(d, i) # At(e, i)
        BY <1>8
    <2>2. ASSUME NEW j \in 1..(i - 1), At(d, j) # At(e, j) PROVE FALSE
        <3>1. j \in Nat \ {0} /\ ~(i <= j)
            BY <2>1
        <3>2. j \in S
            BY <2>2, <3>1
        <3>. QED BY <1>8, <3>1, <3>2
    <2>. QED BY <2>1, <2>2
<1>10. At(d, i) \in Nat /\ At(e, i) \in Nat
    <2>1. Digit \subseteq Nat
        BY BaseIs
    <2>2. i \in DOMAIN d => d[i] \in Digit
        BY <1>2
    <2>3. i \in DOMAIN e => e[i] \in Digit
        BY <1>2
    <2>. QED BY <2>1, <2>2, <2>3 DEF At
<1>11. CASE At(d, i) > At(e, i)
    <2>1. i \in DOMAIN d
        BY <1>10, <1>11 DEF At
    <2>2. \A j \in 1..i : j \in DOMAIN d /\ At(d, j) = d[j]
        BY <1>2, <2>1 DEF At
    <2>3. \A j \in 1..(i - 1) : j \in 1..i
        BY <1>9
    <2>. QED BY <1>5, <1>9, <1>11, <2>1, <2>2, <2>3
<1>12. CASE At(e, i) > At(d, i)
    <2>1. i \in DOMAIN e
        BY <1>10, <1>12 DEF At
    <2>2. \A j \in 1..i : j \in DOMAIN e /\ At(e, j) = e[j]
        BY <1>2, <2>1 DEF At
    <2>3. \A j \in 1..(i - 1) : j \in 1..i
        BY <1>9
    <2>. QED BY <1>6, <1>9, <1>12, <2>1, <2>2, <2>3
<1>. QED BY <1>9, <1>10, <1>11, <1>12

(* Where the rank of a is no higher, Decides tells the lengths and then the *)
(* first difference.                                                        *)
LEMMA DecidesIs ==
    ASSUME NEW a \in Numbers, NEW b \in Numbers, ~(a.exp > b.exp)
    PROVE  /\ Decides(a, b) \in Int
           /\ ~SameLength(a, b) => Decides(a, b) = Len(a.digits) - Len(b.digits)
           /\ SameLength(a, b) /\ a.digits = b.digits => Decides(a, b) = 0
           /\ SameLength(a, b) /\ a.digits # b.digits
              => Decides(a, b) # 0 /\ (Decides(a, b) > 0 => Ahead(a, b)) /\ (Decides(a, b) < 0 => Ahead(b, a))
<1>. DEFINE d == a.digits
            e == b.digits
            S == {i \in DOMAIN d : d[i] # e[i]}
<1>1. d \in Seq(Digit) /\ e \in Seq(Digit) /\ Len(d) \in Nat /\ Len(e) \in Nat
    BY NumberIs
<1>2. Decides(a, b) = IF Len(d) # Len(e) THEN Len(d) - Len(e)
                      ELSE IF S = {} THEN 0 ELSE d[Min(S)] - e[Min(S)]
    BY DEF Decides
<1>3. S = {i \in DOMAIN d : d[i] # e[i]}
    OBVIOUS
<1>4. SameLength(a, b) <=> Len(d) = Len(e)
    BY DEF SameLength
<1>5. Ahead(a, b) <=> \E i \in DOMAIN d : d[i] > At(e, i) /\ \A j \in 1..(i - 1) : d[j] = At(e, j)
    BY DEF Ahead
<1>6. Ahead(b, a) <=> \E i \in DOMAIN e : e[i] > At(d, i) /\ \A j \in 1..(i - 1) : e[j] = At(d, j)
    BY DEF Ahead
<1>. HIDE DEF S, d, e
<1>7. CASE Len(d) # Len(e)
    <2>1. Len(d) - Len(e) \in Int
        BY <1>1
    <2>. QED BY <1>2, <1>4, <1>7, <2>1 DEF d, e
<1>8. CASE Len(d) = Len(e) /\ S = {}
    <2>1. d = e
        BY <1>1, <1>3, <1>8, DifferIs
    <2>. QED BY <1>2, <1>4, <1>8, <2>1 DEF d, e
<1>9. CASE Len(d) = Len(e) /\ S # {}
    <2>. DEFINE i == Min(S)
    <2>0. FirstDiffers(i, d, e)
        <3>1. Len(d) = Len(e) /\ S # {}
            BY <1>9
        <3>. QED BY <1>1, <1>3, <3>1, DifferIs
    <2>1. i \in 1..Len(d) /\ d[i] # e[i] /\ \A j \in 1..(i - 1) : d[j] = e[j]
        BY <2>0 DEF FirstDiffers
    <2>2. Decides(a, b) = d[i] - e[i]
        BY <1>2, <1>9
    <2>. HIDE DEF i
    <2>3. \A j \in 1..Len(d) : j \in DOMAIN d /\ j \in DOMAIN e /\ At(d, j) = d[j] /\ At(e, j) = e[j]
        BY <1>1, <1>9 DEF At
    <2>4. \A j \in 1..(i - 1) : j \in 1..Len(d)
        BY <1>1, <2>1
    <2>5. d[i] \in Int /\ e[i] \in Int
        <3>1. d[i] \in Digit /\ e[i] \in Digit
            BY <1>1, <1>9, <2>1
        <3>. QED BY <3>1, BaseIs
    <2>6. d[i] > e[i] => Ahead(a, b)
        BY <1>5, <2>1, <2>3, <2>4
    <2>7. e[i] > d[i] => Ahead(b, a)
        BY <1>6, <2>1, <2>3, <2>4
    <2>8. d # e
        BY <2>1
    <2>. QED BY <1>4, <1>9, <2>1, <2>2, <2>5, <2>6, <2>7, <2>8 DEF d, e
<1>. QED BY <1>7, <1>8, <1>9

(* Between which powers of the base a negative number is. *)
LEMMA NegativeRange ==
    ASSUME NEW a, Trimmed(a), a.neg, NEW s \in Int, Bottom(a) + s >= 0
    PROVE  /\ a.exp + s \in Nat /\ a.exp + 1 + s \in Nat /\ Value(a, s) \in Int
           /\ Value(a, s) <= -Rank(a.exp + s)
           /\ Value(a, s) = -Rank(a.exp + s) <=> a.digits = << MAX >>
           /\ Value(a, s) >= -Rank(a.exp + 1 + s)
           /\ Value(a, s) = -Rank(a.exp + 1 + s) <=> a.digits = << 0 >>
<1>. DEFINE d == a.digits
            n == Len(d)
            t == Bottom(a) + s
            m == n - 1
<1>0. a \in Numbers /\ Len(a.digits) > 0
    BY TrimmedIs
<1>1. d \in Seq(Digit) /\ n \in Nat /\ n > 0 /\ t \in Nat /\ m \in Nat /\ n = m + 1 /\ a.exp \in Int
    BY <1>0, NumberIs
<1>2. t + m = a.exp + s /\ t + n = a.exp + 1 + s
    <2>. DEFINE e == a.exp
    <2>1. t = (e - n + 1) + s /\ e \in Int
        BY <1>1 DEF Bottom
    <2>. HIDE DEF e, t, n
    <2>2. t + (n - 1) = e + s /\ t + n = e + 1 + s
        BY <2>1, <1>1
    <2>. QED BY <2>2 DEF e
<1>3. Amount(a) = Read(d, n) - Rank(n) /\ Value(a, s) = Amount(a) * Rank(t) /\ Digits(d, n)
    BY <1>0, Negative, ValueIs, NumberIs
<1>31. n > 1 => d[n] # 0 /\ d[1] # MAX
    BY DEF Trimmed, Last
<1>. HIDE DEF d, n, t, m
<1>4. Read(d, n) \in Nat /\ Read(d, n) < Rank(n)
    BY <1>1, <1>3, ReadBound
<1>5. Rank(t + m) = Rank(t) * Rank(m) /\ Rank(t + n) = Rank(t) * Rank(n) /\ Rank(n) = Base * Rank(m)
    BY <1>1, RankSum, RankNext
<1>6. Rank(t) \in Nat /\ Rank(t) > 0 /\ Rank(n) \in Nat /\ Rank(m) \in Nat /\ Rank(m) > 0
    BY <1>1, RankNext
<1>7. d[1] \in Nat /\ d[1] <= MAX /\ Read(d, 1) = d[1]
    <2>1. Row(d, 0 + 1)
        BY <1>1, <1>3, BaseIs DEF Digits, Row
    <2>2. Read(d, 0 + 1) = Read(d, 0) * Base + d[0 + 1]
        BY <2>1, ReadNext
    <2>3. d[1] \in Digit
        BY <1>1, <1>3 DEF Digits
    <2>. QED BY <2>2, <2>3, ReadZero, BaseIs
<1>. DEFINE D == Read(d, n)
            rt == Rank(t)
            rm == Rank(m)
            rn == Rank(n)
            f == d[1]
<1>8. f * rm <= D /\ D < (f + 1) * rm
    <2>1. /\ Read(d, 1) * Rank(n - 1) <= Read(d, n)
          /\ Read(d, n) < (Read(d, 1) + 1) * Rank(n - 1)
        BY <1>1, <1>3, ReadSplit
    <2>2. n - 1 = m
        BY <1>1
    <2>. QED BY <2>1, <2>2, <1>7
<1>9. /\ D \in Nat /\ D < rn /\ rt \in Nat /\ rt > 0 /\ rm \in Nat /\ rm > 0 /\ rn \in Nat
      /\ rn = Base * rm /\ f \in Nat /\ f <= MAX /\ f * rm <= D /\ D < (f + 1) * rm
      /\ Value(a, s) = (D - rn) * rt
      /\ Rank(a.exp + s) = rt * rm /\ Rank(a.exp + 1 + s) = rt * rn
    BY <1>2, <1>3, <1>4, <1>5, <1>6, <1>7, <1>8
<1>10. n = 1 => rm = 1 /\ D = f /\ d = << f >>
    <2>1. n = 1 => m = 0
        BY <1>1
    <2>2. ASSUME n = 1 PROVE d = << d[1] >>
        <3>1. d \in Seq(Digit) /\ Len(d) = 1
            BY <1>1, <2>2 DEF n
        <3>. QED BY <3>1
    <2>. QED BY <2>1, <2>2, Ranks0, <1>7
<1>11. d = << MAX >> => n = 1 /\ f = MAX
    BY DEF n
<1>12. d = << 0 >> => n = 1 /\ f = 0
    BY DEF n
<1>13. n # 1 => f # MAX /\ D # 0
    <2>1. ASSUME n # 1, D = 0 PROVE FALSE
        <3>1. n > 1
            BY <1>1, <2>1
        <3>2. Row(d, m + 1)
            BY <1>1, <1>3, DigitsRow
        <3>3. Read(d, m + 1) = Read(d, m) * Base + d[m + 1]
            BY <1>1, <3>2, ReadNext
        <3>4. Digits(d, m) /\ d[n] \in Digit
            BY <1>1, <1>3 DEF Digits
        <3>5. Read(d, m) \in Nat
            BY <1>1, <3>4, ReadBound
        <3>6. Read(d, m) * Base \in Nat /\ d[n] \in Nat
            BY <3>4, <3>5, BaseIs
        <3>7. d[n] = 0
            BY <2>1, <3>3, <3>6, <1>1
        <3>. QED BY <3>1, <3>7, <1>31
    <2>2. n # 1 => f # MAX
        BY <1>1, <1>31
    <2>. QED BY <2>1, <2>2
<1>. HIDE DEF D, rt, rm, rn, f
<1>14. rn - D >= rm /\ (rn - D = rm <=> d = << MAX >>)
    <2>1. ASSUME n # 1 PROVE rn - D > rm /\ d # << MAX >>
        <3>1. f + 1 <= MAX
            BY <1>9, <1>13, <2>1, BaseIs
        <3>2. (f + 1) * rm <= MAX * rm
            BY <1>9, <3>1, BaseIs
        <3>3. MAX * rm = Base * rm - rm /\ Base * rm \in Nat
            BY <1>9, BaseIs
        <3>4. (f + 1) * rm \in Nat
            BY <1>9
        <3>. QED BY <1>9, <1>11, <2>1, <3>2, <3>3, <3>4
    <2>2. ASSUME n = 1 PROVE rn - D >= rm /\ (rn - D = rm <=> d = << MAX >>)
        <3>1. rn = Base /\ rm = 1 /\ D = f
            BY <1>9, <1>10, <2>2, BaseIs
        <3>2. rn - D = rm <=> f = MAX
            BY <1>9, <3>1, BaseIs
        <3>3. f = MAX <=> d = << MAX >>
            BY <1>10, <1>11, <2>2
        <3>. QED BY <1>9, <3>1, <3>2, <3>3, BaseIs
    <2>. QED BY <2>1, <2>2, <1>9
<1>15. D = 0 <=> d = << 0 >>
    BY <1>9, <1>10, <1>12, <1>13
<1>. DEFINE y == rn - D
<1>16. y \in Int /\ y >= rm /\ y <= rn /\ (y = rm <=> d = << MAX >>) /\ (y = rn <=> d = << 0 >>)
    BY <1>9, <1>14, <1>15
<1>17. Value(a, s) = -(rt * y)
    BY <1>9
<1>. HIDE DEF y
<1>18. /\ rt * y >= rt * rm /\ (rt * y = rt * rm <=> y = rm)
       /\ rt * y <= rt * rn /\ (rt * y = rt * rn <=> y = rn)
       /\ rt * y \in Int /\ rt * rm \in Int /\ rt * rn \in Int
    <2>1. y > rm => rt * y > rt * rm
        BY <1>9, <1>16
    <2>2. y < rn => rt * y < rt * rn
        BY <1>9, <1>16
    <2>3. rt * y \in Int /\ rt * rm \in Int /\ rt * rn \in Int
        BY <1>9, <1>16
    <2>. QED BY <2>1, <2>2, <2>3, <1>9, <1>16
<1>19. t + m \in Nat /\ t + n \in Nat
    BY <1>1
<1>20. d = a.digits
    BY DEF d
<1>21. a.exp + s \in Nat /\ a.exp + 1 + s \in Nat
    BY <1>2, <1>19
<1>. DEFINE V == Value(a, s)
            P == rt * y
            Q == rt * rm
            R == rt * rn
<1>22. /\ V = -P /\ P \in Int /\ Q \in Int /\ R \in Int /\ P >= Q /\ (P = Q <=> d = << MAX >>)
       /\ P <= R /\ (P = R <=> d = << 0 >>) /\ Rank(a.exp + s) = Q /\ Rank(a.exp + 1 + s) = R
    BY <1>9, <1>16, <1>17, <1>18
<1>. HIDE DEF V, P, Q, R
<1>23. V \in Int /\ V <= -Q /\ (V = -Q <=> d = << MAX >>) /\ V >= -R /\ (V = -R <=> d = << 0 >>)
    BY <1>22
<1>. QED BY <1>20, <1>21, <1>22, <1>23 DEF V

(* Zero is worth nothing, whatever its rank. *)
LEMMA ZeroValue ==
    ASSUME NEW a \in Numbers, ~a.neg, a.digits = << 0 >>, NEW s \in Int, Bottom(a) + s >= 0
    PROVE  Value(a, s) = 0
<1>1. Value(a, s) = Amount(a) * Rank(Bottom(a) + s)
    BY ValueIs
<1>2. Amount(a) = Read(a.digits, 1)
    <2>1. Len(a.digits) = 1
        OBVIOUS
    <2>. QED BY <2>1, Positive
<1>3. Read(a.digits, 1) = 0
    <2>1. \A i \in 1..1 : a.digits[i] = 0
        OBVIOUS
    <2>. QED BY <2>1, ReadZeros
<1>4. Rank(Bottom(a) + s) \in Int
    <2>1. Bottom(a) + s \in Nat
        BY NumberIs
    <2>2. Rank(Bottom(a) + s) \in Nat
        BY <2>1, RankNext
    <2>. QED BY <2>2
<1>. QED BY <1>1, <1>2, <1>3, <1>4

(* Of numbers that are not negative the one of higher rank is the greater,  *)
(* unless it is 0.                                                          *)
LEMMA HigherPositive ==
    ASSUME NEW a, NEW b, Trimmed(a), Trimmed(b), ~a.neg, ~b.neg, a.exp > b.exp, a.digits # << 0 >>,
           NEW s \in Int, Bottom(a) + s >= 0, Bottom(b) + s >= 0
    PROVE  Value(a, s) > Value(b, s)
<1>1. a \in Numbers /\ b \in Numbers /\ Len(a.digits) > 0 /\ Len(b.digits) > 0
    BY TrimmedIs
<1>2. a.exp \in Int /\ b.exp \in Int
    BY <1>1, NumberIs
<1>. DEFINE v == Value(a, s)
            w == Value(b, s)
<1>3. a.digits[1] # 0
    BY FirstNotZero
<1>4. a.exp + s \in Nat /\ v \in Nat /\ v >= Rank(a.exp + s)
    BY <1>1, <1>3, ValueRange
<1>5. b.exp + s \in Nat /\ w \in Nat /\ w < Rank(b.exp + 1 + s)
    BY <1>1, ValueRange
<1>6. b.exp + 1 + s \in Nat /\ b.exp + 1 + s <= a.exp + s
    BY <1>2, <1>5
<1>7. Rank(b.exp + 1 + s) <= Rank(a.exp + s) /\ Rank(b.exp + 1 + s) \in Nat /\ Rank(a.exp + s) \in Nat
    BY <1>4, <1>6, RankOrder
<1>. HIDE DEF v, w
<1>8. v > w
    BY <1>4, <1>5, <1>7
<1>. QED BY <1>8 DEF v, w

(* Powers of the base are all different. *)
LEMMA RankStrict ==
    ASSUME NEW m \in Nat, NEW n \in Nat, m < n
    PROVE  Rank(m) < Rank(n) /\ Rank(m) \in Nat /\ Rank(n) \in Nat
<1>1. Rank(m + 1) = Base * Rank(m) /\ Rank(m) \in Nat /\ Rank(m) > 0
    BY RankNext
<1>2. Rank(m + 1) <= Rank(n) /\ Rank(n) \in Nat
    <2>1. m + 1 \in Nat /\ m + 1 <= n
        OBVIOUS
    <2>. QED BY <2>1, RankOrder
<1>3. Base * Rank(m) > Rank(m) /\ Base * Rank(m) \in Nat
    <2>. DEFINE r == Rank(m)
    <2>1. r \in Nat /\ r > 0
        BY <1>1
    <2>. HIDE DEF r
    <2>2. Base * r > r /\ Base * r \in Nat
        BY <2>1, BaseIs
    <2>. QED BY <2>2 DEF r
<1>. QED BY <1>1, <1>2, <1>3

(* Of negative numbers the one of higher rank is the less, unless both are  *)
(* the same power.                                                          *)
LEMMA HigherNegative ==
    ASSUME NEW a, NEW b, Trimmed(a), Trimmed(b), a.neg, b.neg, a.exp > b.exp,
           NEW s \in Int, Bottom(a) + s >= 0, Bottom(b) + s >= 0
    PROVE  /\ Value(a, s) <= Value(b, s)
           /\ Value(a, s) = Value(b, s) <=> SamePower(a, b)
<1>1. a \in Numbers /\ b \in Numbers
    BY TrimmedIs
<1>2. a.exp \in Int /\ b.exp \in Int
    BY <1>1, NumberIs
<1>. DEFINE v == Value(a, s)
            w == Value(b, s)
            m == b.exp + 1 + s
            n == a.exp + s
            A == a.digits = << MAX >>
            B == b.digits = << 0 >>
<1>3. n \in Nat /\ v \in Int /\ v <= -Rank(n) /\ (v = -Rank(n) <=> A)
    BY NegativeRange
<1>4. m \in Nat /\ w \in Int /\ w >= -Rank(m) /\ (w = -Rank(m) <=> B)
    BY NegativeRange
<1>5. m <= n /\ (m = n <=> b.exp = a.exp - 1)
    BY <1>2
<1>6. SamePower(a, b) <=> A /\ B /\ m = n
    BY <1>5 DEF SamePower
<1>. HIDE DEF v, w, m, n, A, B
<1>7. CASE m = n
    <2>1. Rank(m) = Rank(n)
        BY <1>7
    <2>2. Rank(n) \in Nat
        BY <1>3, RankNext
    <2>. DEFINE r == Rank(n)
    <2>3. r \in Nat /\ v <= -r /\ w >= -r /\ (v = -r <=> A) /\ (w = -r <=> B)
        BY <1>3, <1>4, <2>1, <2>2
    <2>. HIDE DEF r
    <2>4. v <= w /\ (v = w <=> v = -r /\ w = -r)
        BY <2>3, <1>3, <1>4
    <2>. QED BY <1>6, <1>7, <2>3, <2>4 DEF v, w
<1>8. CASE m < n
    <2>1. Rank(m) < Rank(n) /\ Rank(m) \in Nat /\ Rank(n) \in Nat
        BY <1>3, <1>4, <1>8, RankStrict
    <2>. DEFINE r == Rank(n)
                q == Rank(m)
    <2>2. r \in Nat /\ q \in Nat /\ q < r /\ v <= -r /\ w >= -q
        BY <2>1, <1>3, <1>4
    <2>. HIDE DEF r, q
    <2>3. v < w
        BY <2>2, <1>3, <1>4
    <2>4. m # n
        BY <1>3, <1>4, <1>8
    <2>5. v <= w /\ v # w
        BY <2>3, <1>3, <1>4
    <2>. QED BY <1>6, <2>4, <2>5 DEF v, w
<1>9. m = n \/ m < n
    BY <1>3, <1>4, <1>5
<1>. QED BY <1>7, <1>8, <1>9

(* Not both of two rows are ahead. *)
LEMMA AheadOnce ==
    ASSUME NEW a \in Numbers, NEW b \in Numbers, Ahead(a, b)
    PROVE  ~Ahead(b, a) /\ a.digits # b.digits
<1>. DEFINE d == a.digits
            e == b.digits
<1>1. /\ d \in Seq(Digit) /\ e \in Seq(Digit) /\ Len(d) \in Nat /\ Len(e) \in Nat
      /\ DOMAIN d = 1..Len(d) /\ DOMAIN e = 1..Len(e)
    BY NumberIs
<1>2. PICK i \in DOMAIN d : d[i] > At(e, i) /\ \A j \in 1..(i - 1) : d[j] = At(e, j)
    BY DEF Ahead
<1>3. ASSUME Ahead(b, a) PROVE FALSE
    <2>1. PICK k \in DOMAIN e : e[k] > At(d, k) /\ \A j \in 1..(k - 1) : e[j] = At(d, j)
        BY <1>3 DEF Ahead
    <2>. HIDE DEF d, e
    <2>2. i \in Nat /\ i > 0 /\ k \in Nat /\ k > 0 /\ i \in 1..Len(d) /\ k \in 1..Len(e)
        BY <1>1, <1>2, <2>1
    <2>3. Digit \subseteq Nat /\ d[i] \in Digit /\ e[k] \in Digit
        BY <1>1, <1>2, <2>1, BaseIs
    <2>4. At(d, i) = d[i] /\ At(e, k) = e[k]
        BY <1>2, <2>1 DEF At
    <2>5. CASE i = k
        <3>1. d[i] > e[i] /\ e[i] > d[i] /\ d[i] \in Nat /\ e[i] \in Nat
            BY <1>2, <2>1, <2>3, <2>4, <2>5
        <3>. QED BY <3>1
    <2>6. CASE i < k
        <3>1. i \in 1..(k - 1) /\ i \in DOMAIN e
            BY <1>1, <2>2, <2>6
        <3>2. e[i] = d[i] /\ At(e, i) = e[i]
            BY <2>1, <2>4, <3>1 DEF At
        <3>3. d[i] > d[i] /\ d[i] \in Nat
            BY <1>2, <2>3, <3>2
        <3>. QED BY <3>3
    <2>7. CASE k < i
        <3>1. k \in 1..(i - 1) /\ k \in DOMAIN d
            BY <1>1, <2>2, <2>7
        <3>2. d[k] = e[k] /\ At(d, k) = d[k]
            BY <1>2, <2>4, <3>1 DEF At
        <3>3. e[k] > e[k] /\ e[k] \in Nat
            BY <2>1, <2>3, <3>2
        <3>. QED BY <3>3
    <2>. QED BY <2>2, <2>5, <2>6, <2>7
<1>4. ASSUME d = e PROVE FALSE
    <2>. HIDE DEF d, e
    <2>1. At(e, i) = d[i]
        BY <1>2, <1>4 DEF At
    <2>2. d[i] \in Nat
        <3>1. Digit \subseteq Nat /\ d[i] \in Digit
            BY <1>1, <1>2, BaseIs
        <3>. QED BY <3>1
    <2>. QED BY <1>2, <2>1, <2>2
<1>. QED BY <1>3, <1>4

(* What Decides finds unless the rank of a is higher. *)
LEMMA DecidesTells ==
    ASSUME NEW a, NEW b, Trimmed(a), Trimmed(b), ~(a.exp > b.exp)
    PROVE  /\ Decides(a, b) \in Int
           /\ Decides(a, b) < 0 <=> FoundLess(a, b)
           /\ Decides(a, b) = 0 <=> a.digits = b.digits
           /\ ~SameLength(a, b) => (Decides(a, b) < 0 <=> Short(a, b)) /\ a.digits # b.digits
           /\ SameLength(a, b) => (Decides(a, b) < 0 <=> Ahead(b, a))
<1>1. a \in Numbers /\ b \in Numbers
    BY TrimmedIs
<1>2. Len(a.digits) \in Nat /\ Len(b.digits) \in Nat
    BY <1>1, NumberIs
<1>. DEFINE d == Decides(a, b)
<1>3. /\ d \in Int
      /\ ~SameLength(a, b) => d = Len(a.digits) - Len(b.digits)
      /\ SameLength(a, b) /\ a.digits = b.digits => d = 0
      /\ SameLength(a, b) /\ a.digits # b.digits => d # 0 /\ (d > 0 => Ahead(a, b)) /\ (d < 0 => Ahead(b, a))
    BY <1>1, DecidesIs
<1>. HIDE DEF d
<1>4. CASE SameLength(a, b)
    <2>1. ~Short(a, b)
        BY <1>2, <1>4 DEF SameLength, Short
    <2>2. d < 0 <=> Ahead(b, a)
        <3>1. ASSUME Ahead(b, a) PROVE d < 0
            <4>1. ~Ahead(a, b) /\ a.digits # b.digits
                BY <1>1, <3>1, AheadOnce
            <4>. QED BY <1>3, <1>4, <4>1
        <3>2. ASSUME d < 0 PROVE Ahead(b, a)
            BY <1>3, <1>4, <3>2
        <3>. QED BY <3>1, <3>2
    <2>3. d = 0 <=> a.digits = b.digits
        BY <1>3, <1>4
    <2>. QED BY <1>3, <1>4, <2>1, <2>2, <2>3 DEF FoundLess, d
<1>5. CASE ~SameLength(a, b)
    <2>1. a.digits # b.digits
        BY <1>5 DEF SameLength
    <2>2. d = Len(a.digits) - Len(b.digits) /\ Len(a.digits) # Len(b.digits)
        BY <1>3, <1>5 DEF SameLength
    <2>3. d # 0 /\ (d < 0 <=> Short(a, b))
        <3>. DEFINE p == Len(a.digits)
                    q == Len(b.digits)
        <3>1. p \in Nat /\ q \in Nat /\ d = p - q /\ p # q /\ (Short(a, b) <=> p < q)
            BY <1>2, <2>2 DEF Short
        <3>. HIDE DEF p, q
        <3>2. d # 0 /\ (d < 0 <=> p < q)
            BY <3>1
        <3>. QED BY <3>1, <3>2, Zenon
    <2>. QED BY <1>3, <1>5, <2>1, <2>3 DEF FoundLess, d
<1>. QED BY <1>4, <1>5

(* Comparison of two numbers of one sign is right just where Misordered     *)
(* says so.                                                                 *)
LEMMA OrderOfOne ==
    ASSUME NEW a, NEW b, Trimmed(a), Trimmed(b), a.neg = b.neg, NEW s \in Int,
           Bottom(a) + s >= 0, Bottom(b) + s >= 0
    PROVE  Told(Decides(a, b), a.neg, Value(a, s), Value(b, s)) <=> ~Misordered(a, b)
<1>1. a \in Numbers /\ b \in Numbers /\ Len(a.digits) > 0 /\ Len(b.digits) > 0
    BY TrimmedIs
<1>2. /\ a.neg \in BOOLEAN /\ a.exp \in Int /\ b.exp \in Int
      /\ Len(a.digits) \in Nat /\ Len(b.digits) \in Nat
    BY <1>1, NumberIs
<1>. DEFINE v == Value(a, s)
            w == Value(b, s)
            d == Decides(a, b)
<1>3. v \in Int /\ w \in Int /\ (~a.neg => v >= 0 /\ w >= 0)
    BY <1>1, ValueSign
<1>4. CASE a.exp > b.exp
    <2>1. d = 1
        BY <1>4 DEF Decides
    <2>2. Misordered(a, b) <=> IF a.neg THEN SamePower(a, b) ELSE a.digits = << 0 >>
        BY <1>2, <1>4 DEF Misordered, HigherMisleads, LowerMisleads, LengthMisleads, DigitsMislead
    <2>3. ~a.neg => (v > w <=> a.digits # << 0 >>)
        <3>1. ASSUME ~a.neg, a.digits # << 0 >> PROVE v > w
            BY <1>4, <3>1, HigherPositive
        <3>2. ASSUME ~a.neg, a.digits = << 0 >> PROVE ~(v > w)
            <4>1. v = 0
                BY <1>1, <3>2, ZeroValue
            <4>. QED BY <1>3, <3>2, <4>1
        <3>. QED BY <3>1, <3>2
    <2>4. a.neg => v <= w /\ (v = w <=> SamePower(a, b))
        BY <1>4, HigherNegative
    <2>. HIDE DEF v, w, d
    <2>5. Told(d, a.neg, v, w) <=> v # w /\ ((v > w) <=> ~a.neg)
        BY <2>1 DEF Told
    <2>6. CASE a.neg
        <3>1. Told(d, a.neg, v, w) <=> ~SamePower(a, b)
            <4>1. v <= w => ~(v > w)
                BY <1>3
            <4>2. Told(d, a.neg, v, w) <=> v # w
                BY <2>4, <2>5, <2>6, <4>1, Zenon
            <4>. QED BY <2>4, <2>6, <4>2, Zenon
        <3>. QED BY <2>2, <2>6, <3>1, Zenon DEF v, w, d
    <2>7. CASE ~a.neg
        <3>1. v > w => v # w
            BY <1>3
        <3>. QED BY <3>1, <2>2, <2>3, <2>5, <2>7 DEF v, w, d
    <2>. QED BY <2>6, <2>7
<1>5. CASE ~(a.exp > b.exp)
    <2>1. /\ d \in Int /\ (d < 0 <=> FoundLess(a, b)) /\ (d = 0 <=> a.digits = b.digits)
          /\ ~SameLength(a, b) => (d < 0 <=> Short(a, b)) /\ a.digits # b.digits
          /\ SameLength(a, b) => (d < 0 <=> Ahead(b, a))
        BY <1>5, DecidesTells
    <2>2. CASE a.exp < b.exp
        <3>1. Misordered(a, b) <=> IF a.neg THEN ~(d < 0) \/ SamePower(b, a)
                                   ELSE ~(d < 0) /\ b.digits # << 0 >>
            <4>1. HigherMisleads(a, b) <=> FALSE
                BY <1>5 DEF HigherMisleads
            <4>2. ~(a.exp = b.exp)
                BY <1>2, <2>2
            <4>3. LengthMisleads(a, b) <=> FALSE
                BY <4>2, Zenon DEF LengthMisleads
            <4>4. DigitsMislead(a, b) <=> FALSE
                BY <4>2, Zenon DEF DigitsMislead
            <4>5. LowerMisleads(a, b) <=> IF a.neg THEN ~(d < 0) \/ SamePower(b, a)
                                          ELSE ~(d < 0) /\ b.digits # << 0 >>
                BY <2>1, <2>2 DEF LowerMisleads
            <4>. QED BY <4>1, <4>3, <4>4, <4>5, Zenon DEF Misordered
        <3>2. ASSUME a.neg PROVE w <= v /\ (w = v <=> SamePower(b, a))
            <4>1. b.exp > a.exp
                BY <1>2, <2>2
            <4>. QED BY <3>2, <4>1, HigherNegative
        <3>3. SamePower(b, a) => d < 0
            <4>1. ASSUME SamePower(b, a) PROVE Ahead(b, a) /\ SameLength(a, b)
                <5>1. a.digits = << 0 >> /\ b.digits = << MAX >>
                    BY <4>1 DEF SamePower
                <5>2. SameLength(a, b)
                    BY <5>1 DEF SameLength
                <5>3. 1 \in DOMAIN b.digits /\ b.digits[1] > At(a.digits, 1) /\ \A j \in 1..0 : FALSE
                    BY <5>1, BaseIs DEF At
                <5>4. \A j \in 1..(1 - 1) : b.digits[j] = At(a.digits, j)
                    OBVIOUS
                <5>. QED BY <5>2, <5>3, <5>4 DEF Ahead
            <4>. QED BY <2>1, <4>1
        <3>4. ASSUME ~a.neg, b.digits # << 0 >> PROVE w > v
            <4>1. b.exp > a.exp
                BY <1>2, <2>2
            <4>. QED BY <3>4, <4>1, HigherPositive
        <3>5. ASSUME ~a.neg, b.digits = << 0 >> PROVE w = 0 /\ ~(d < 0) /\ (d = 0 <=> v = 0)
            <4>1. w = 0
                BY <1>1, <3>5, ZeroValue
            <4>2. d = 0 => v = 0
                <5>1. d = 0 => a.digits = << 0 >>
                    BY <2>1, <3>5
                <5>. QED BY <5>1, <1>1, <3>5, ZeroValue
            <4>3. ASSUME a.digits = << 0 >> PROVE d = 0
                BY <2>1, <3>5, <4>3
            <4>4. ASSUME a.digits # << 0 >> PROVE v # 0
                <5>1. a.exp + s \in Nat /\ v >= Rank(a.exp + s)
                    BY <1>1, <3>5, <4>4, FirstNotZero, ValueRange
                <5>2. Rank(a.exp + s) \in Nat /\ Rank(a.exp + s) > 0
                    BY <5>1, RankNext
                <5>. HIDE DEF v
                <5>. QED BY <5>1, <5>2, <1>3
            <4>5. ~(d < 0)
                <5>1. Len(b.digits) = 1
                    BY <3>5
                <5>2. ~Short(a, b)
                    BY <1>1, <1>2, <5>1 DEF Short
                <5>3. ~Ahead(b, a)
                    <6>1. ASSUME NEW i \in DOMAIN b.digits, b.digits[i] > At(a.digits, i) PROVE FALSE
                        <7>1. i = 1 /\ b.digits[i] = 0
                            BY <3>5
                        <7>2. At(a.digits, i) \in Nat
                            <8>1. a.digits \in Seq(Digit) /\ Digit \subseteq Nat
                                BY <1>1, NumberIs, BaseIs
                            <8>. DEFINE u == a.digits
                            <8>2. u \in Seq(Digit)
                                BY <8>1
                            <8>. HIDE DEF u
                            <8>3. i \in DOMAIN u => u[i] \in Digit
                                BY <8>2
                            <8>4. At(u, i) \in Nat
                                BY <8>1, <8>3 DEF At
                            <8>. QED BY <8>4 DEF u
                        <7>. QED BY <6>1, <7>1, <7>2
                    <6>. QED BY <6>1 DEF Ahead
                <5>. QED BY <2>1, <5>2, <5>3
            <4>. QED BY <4>1, <4>2, <4>3, <4>4, <4>5
        <3>. HIDE DEF v, w, d
        <3>6. CASE a.neg
            <4>1. CASE d < 0
                <5>1. d # 0 /\ ~(d > 0)
                    BY <2>1, <4>1
                <5>2. Told(d, a.neg, v, w) <=> v # w /\ v > w
                    BY <3>6, <5>1 DEF Told
                <5>3. Told(d, a.neg, v, w) <=> ~SamePower(b, a)
                    <6>1. v > w => v # w
                        BY <1>3
                    <6>2. w <= v /\ v # w => v > w
                        BY <1>3
                    <6>3. (v = w) <=> SamePower(b, a)
                        BY <3>2, <3>6
                    <6>. QED BY <3>2, <3>6, <5>2, <6>1, <6>2, <6>3, Zenon
                <5>. QED BY <3>1, <3>6, <4>1, <5>3 DEF v, w, d
            <4>2. CASE ~(d < 0)
                <5>1. w < v
                    BY <1>3, <3>2, <3>3, <3>6, <4>2
                <5>2. v # w /\ v > w
                    BY <1>3, <5>1
                <5>3. ~Told(d, a.neg, v, w)
                    BY <2>1, <3>6, <4>2, <5>2 DEF Told
                <5>. QED BY <3>1, <3>6, <4>2, <5>3 DEF v, w, d
            <4>. QED BY <4>1, <4>2
        <3>7. CASE ~a.neg /\ b.digits # << 0 >>
            <4>1. w > v
                BY <3>4, <3>7
            <4>2. v # w /\ ~(v > w)
                BY <1>3, <4>1
            <4>3. Told(d, a.neg, v, w) <=> d < 0
                BY <2>1, <3>7, <4>2 DEF Told
            <4>. QED BY <3>1, <3>7, <4>3 DEF v, w, d
        <3>8. CASE ~a.neg /\ b.digits = << 0 >>
            <4>1. w = 0 /\ ~(d < 0) /\ (d = 0 <=> v = 0)
                BY <3>5, <3>8
            <4>2. Told(d, a.neg, v, w)
                BY <1>3, <2>1, <3>8, <4>1 DEF Told
            <4>. QED BY <3>1, <3>8, <4>1, <4>2 DEF v, w, d
        <3>. QED BY <3>6, <3>7, <3>8
    <2>3. CASE a.exp = b.exp
        <3>1. Misordered(a, b) <=> LengthMisleads(a, b) \/ DigitsMislead(a, b)
            <4>1. ~(a.exp > b.exp) /\ ~(a.exp < b.exp)
                BY <1>2, <2>3
            <4>. QED BY <4>1 DEF Misordered, HigherMisleads, LowerMisleads
        <3>2. Ahead(a, b) => v > w
            BY <1>1, <2>3, AheadIs
        <3>3. Ahead(b, a) => w > v
            BY <1>1, <2>3, AheadIs
        <3>4. a.digits # b.digits => Ahead(a, b) \/ Ahead(b, a)
            BY AheadEither
        <3>5. a.digits = b.digits => v = w
            <4>1. ASSUME a.digits = b.digits PROVE v = w
                BY <2>3, <4>1 DEF Value
            <4>. QED BY <4>1
        <3>. HIDE DEF v, w, d
        <3>6. (Ahead(a, b) => ~Ahead(b, a)) /\ (v > w => v # w) /\ (w > v => v # w /\ ~(v > w))
            BY <1>3, <3>2, <3>3
        <3>7. d # 0 => (d > 0 <=> ~(d < 0))
            BY <2>1
        <3>8. CASE SameLength(a, b)
            <4>1. Misordered(a, b) <=> a.neg /\ a.digits # b.digits
                BY <2>3, <3>1, <3>8 DEF LengthMisleads, DigitsMislead
            <4>2. CASE a.digits = b.digits
                <5>1. Told(d, a.neg, v, w)
                    BY <2>1, <3>5, <4>2 DEF Told
                <5>. QED BY <4>1, <4>2, <5>1 DEF v, w, d
            <4>3. CASE a.digits # b.digits
                <5>1. d # 0 /\ (d < 0 <=> Ahead(b, a)) /\ v # w /\ (v > w <=> ~Ahead(b, a))
                    BY <2>1, <3>2, <3>3, <3>4, <3>6, <3>8, <4>3
                <5>2. Told(d, a.neg, v, w) <=> (d > 0 <=> (d > 0 <=> ~a.neg))
                    BY <3>7, <5>1 DEF Told
                <5>. QED BY <1>2, <4>1, <4>3, <5>2 DEF v, w, d
            <4>. QED BY <4>2, <4>3
        <3>9. CASE ~SameLength(a, b)
            <4>1. Misordered(a, b) <=> IF Short(a, b) # a.neg THEN Ahead(a, b) ELSE Ahead(b, a)
                BY <2>3, <3>1, <3>9 DEF LengthMisleads, DigitsMislead
            <4>2. a.digits # b.digits /\ (d < 0 <=> Short(a, b)) /\ d # 0
                BY <2>1, <3>9
            <4>3. Short(a, b) \in BOOLEAN /\ (Short(a, b) # a.neg <=> ~(Short(a, b) <=> a.neg))
                <5>1. Short(a, b) \in BOOLEAN
                    <6>. DEFINE p == Len(a.digits)
                                q == Len(b.digits)
                    <6>1. p \in Nat /\ q \in Nat
                        BY <1>2
                    <6>. HIDE DEF p, q
                    <6>2. (p < q) \in BOOLEAN
                        BY <6>1
                    <6>. QED BY <6>2 DEF Short, p, q
                <5>2. a.neg \in BOOLEAN
                    BY <1>2
                <5>. QED BY <5>1, <5>2, Zenon
            <4>4. v # w /\ (v > w <=> Ahead(a, b)) /\ (Ahead(b, a) <=> ~Ahead(a, b))
                BY <3>2, <3>3, <3>4, <3>6, <4>2
            <4>5. Told(d, a.neg, v, w) <=> (Ahead(a, b) <=> (~Short(a, b) <=> ~a.neg))
                BY <3>7, <4>2, <4>4 DEF Told
            <4>6. Misordered(a, b) <=> IF ~(Short(a, b) <=> a.neg) THEN Ahead(a, b) ELSE ~Ahead(a, b)
                BY <4>1, <4>3, <4>4
            <4>. QED BY <1>2, <4>5, <4>6 DEF v, w, d
        <3>. QED BY <3>8, <3>9
    <2>. QED BY <1>2, <1>5, <2>2, <2>3
<1>. QED BY <1>4, <1>5

(* cmp() tells the order of two values just where Misordered says so.       *)
LEMMA OrderIff ==
    ASSUME NEW a, NEW b, Trimmed(a), Trimmed(b), NEW s \in Int,
           Bottom(a) + s >= 0, Bottom(b) + s >= 0
    PROVE  Compares(a, b, Value(a, s), Value(b, s)) <=> ~Misordered(a, b)
<1>1. a \in Numbers /\ b \in Numbers /\ Len(a.digits) > 0 /\ Len(b.digits) > 0
    BY TrimmedIs
<1>. DEFINE v == Value(a, s)
            w == Value(b, s)
<1>2. /\ v \in Int /\ (a.neg => v < 0) /\ (~a.neg => v >= 0)
      /\ w \in Int /\ (b.neg => w < 0) /\ (~b.neg => w >= 0)
    BY <1>1, ValueSign
<1>3. CASE a.neg # b.neg
    <2>1. ~Misordered(a, b)
        BY <1>3 DEF Misordered
    <2>. HIDE DEF v, w
    <2>2. a.neg \in BOOLEAN /\ b.neg \in BOOLEAN
        BY <1>1, NumberIs
    <2>3. (a.neg => v < w) /\ (b.neg => w < v)
        BY <1>2, <1>3, <2>2
    <2>4. Compares(a, b, v, w)
        BY <1>1, <1>2, <1>3, <2>3, CmpSigns
    <2>. QED BY <2>1, <2>4 DEF v, w
<1>4. CASE a.neg = b.neg
    <2>1. Told(Decides(a, b), a.neg, v, w) <=> ~Misordered(a, b)
        BY <1>4, OrderOfOne
    <2>2. Decides(a, b) \in Int
        <3>1. a.exp > b.exp => Decides(a, b) = 1
            BY DEF Decides
        <3>2. ~(a.exp > b.exp) => Decides(a, b) \in Int
            BY DecidesTells
        <3>. QED BY <3>1, <3>2
    <2>. HIDE DEF v, w
    <2>3. Compares(a, b, v, w) <=> Told(Decides(a, b), a.neg, v, w)
        BY <1>1, <1>2, <1>4, <2>2, CmpTold
    <2>. QED BY <2>1, <2>3 DEF v, w
<1>. QED BY <1>3, <1>4

-------------------------------------------------------------------------------
(* Sums, and where the code goes wrong *)

(* Digits that differ in the last place stand for different numbers. *)
LEMMA LastDiffers ==
    ASSUME NEW d, NEW e, NEW n \in Nat, Digits(d, n + 1), Digits(e, n + 1), d[n + 1] # e[n + 1]
    PROVE  Read(d, n + 1) # Read(e, n + 1)
<1>1. n + 1 \in Nat /\ Row(d, n + 1) /\ Row(e, n + 1)
    BY DigitsRow
<1>2. /\ Read(d, n) \in Int /\ Read(d, n + 1) = Read(d, n) * Base + d[n + 1]
      /\ Read(e, n) \in Int /\ Read(e, n + 1) = Read(e, n) * Base + e[n + 1]
    BY <1>1, ReadNext
<1>3. d[n + 1] \in Digit /\ e[n + 1] \in Digit
    BY <1>1 DEF Digits
<1>. DEFINE D == Read(d, n)
            E == Read(e, n)
            p == d[n + 1]
            q == e[n + 1]
<1>4. /\ D \in Int /\ E \in Int /\ p \in Int /\ q \in Int /\ p # q
      /\ Base \in Int /\ p - q < Base /\ q - p < Base
      /\ Read(d, n + 1) = D * Base + p /\ Read(e, n + 1) = E * Base + q
    BY <1>2, <1>3, BaseIs
<1>. HIDE DEF D, E, p, q
<1>5. ASSUME D * Base + p = E * Base + q PROVE FALSE
    <2>. DEFINE z == D - E
    <2>1. z \in Int /\ z * Base = D * Base - E * Base /\ D * Base \in Int /\ E * Base \in Int
        BY <1>4
    <2>2. z * Base = q - p
        BY <2>1, <1>4, <1>5
    <2>. HIDE DEF z
    <2>3. z >= 1 => z * Base >= Base
        BY <2>1, <1>4, BaseIs
    <2>4. z <= -1 => z * Base <= -Base
        BY <2>1, <1>4, BaseIs
    <2>5. z = 0 => z * Base = 0
        BY <1>4
    <2>. QED BY <2>1, <2>2, <2>3, <2>4, <2>5, <1>4
<1>. QED BY <1>4, <1>5

(* The digits of e are those of h, each less one. *)
OneLess(e, h, n) == Digits(h, n) /\ \A i \in 1..n : e[i] = (h[i] - 1) % Base

(* A digit less one. *)
LEMMA DigitLess ==
    ASSUME NEW v \in Digit
    PROVE  /\ (v - 1) % Base \in Digit /\ (v - 1) % Base # v
           /\ v = 0 => (v - 1) % Base = MAX
           /\ v # 0 => (v - 1) % Base = v - 1
<1>1. Carries(0, -1)
    BY DEF Carries
<1>2. (v + -1) % Base \in Digit /\ (v # 0 => (v + -1) % Base = v + -1)
    BY <1>1, CarryIs
<1>20. (-1) % Base = MAX
    BY BaseIs
<1>3. v + -1 = v - 1 /\ (v = 0 => v - 1 = -1) /\ v \in Nat
    BY BaseIs
<1>4. v = 0 => (v - 1) % Base = MAX
    BY <1>20, <1>3
<1>5. v # 0 => (v - 1) % Base = v - 1
    BY <1>2, <1>3
<1>6. (v - 1) % Base \in Digit
    BY <1>2, <1>3
<1>7. (v - 1) % Base # v
    BY <1>3, <1>4, <1>5, BaseIs
<1>. QED BY <1>4, <1>5, <1>6, <1>7

(* They never stand for the same, *)
LEMMA OneLessDiffers ==
    ASSUME NEW e, NEW h, NEW n \in Nat, OneLess(e, h, n)
    PROVE  /\ Digits(h, n) /\ Digits(e, n)
           /\ n > 0 => Read(e, n) # Read(h, n)
<1>1. Digits(h, n)
    BY DEF OneLess
<1>2. \A i \in 1..n : h[i] \in Digit /\ e[i] \in Digit /\ e[i] # h[i]
    <2>1. ASSUME NEW i \in 1..n PROVE h[i] \in Digit /\ e[i] \in Digit /\ e[i] # h[i]
        <3>1. h[i] \in Digit
            BY <1>1 DEF Digits
        <3>2. (h[i] - 1) % Base \in Digit /\ (h[i] - 1) % Base # h[i]
            BY <3>1, DigitLess
        <3>3. e[i] = (h[i] - 1) % Base
            BY DEF OneLess
        <3>. QED BY <3>1, <3>2, <3>3
    <2>. QED BY <2>1
<1>3. Digits(e, n)
    BY <1>2 DEF Digits
<1>4. ASSUME n > 0 PROVE Read(e, n) # Read(h, n)
    <2>. DEFINE m == n - 1
    <2>1. m \in Nat /\ n = m + 1 /\ n \in 1..n
        BY <1>4
    <2>. HIDE DEF m
    <2>2. e[m + 1] # h[m + 1]
        BY <1>2, <2>1
    <2>3. Digits(e, m + 1) /\ Digits(h, m + 1)
        BY <1>1, <1>3, <2>1
    <2>. QED BY <2>1, <2>2, <2>3, LastDiffers
<1>. QED BY <1>1, <1>3, <1>4

(* and for one less only if there are zeros behind the first of h. *)
LEMMA OneLessByOne ==
    ASSUME NEW e, NEW h, NEW n \in Nat, OneLess(e, h, n), n > 0, Read(e, n) = Read(h, n) - 1
    PROVE  \A i \in 2..n : h[i] = 0
<1>. DEFINE N == {j \in Nat : 0 < j /\ j <= n /\ Read(e, j) = Read(h, j) - 1 => \A i \in 2..j : h[i] = 0}
<1>1. 0 \in N
    OBVIOUS
<1>2. ASSUME NEW j \in N PROVE j + 1 \in N
    <2>1. SUFFICES ASSUME j + 1 <= n, Read(e, j + 1) = Read(h, j + 1) - 1
                   PROVE  \A i \in 2..(j + 1) : h[i] = 0
        OBVIOUS
    <2>2. CASE j = 0
        BY <2>2
    <2>3. CASE j # 0
        <3>0. j \in Nat /\ j > 0 /\ j <= n
            BY <2>1, <2>3
        <3>1. OneLess(e, h, j + 1) /\ OneLess(e, h, j)
            BY <2>1, <3>0 DEF OneLess, Digits
        <3>2. Row(e, j + 1) /\ Row(h, j + 1)
            <4>1. j + 1 \in Nat
                BY <3>0
            <4>. QED BY <3>1, <4>1, OneLessDiffers, DigitsRow
        <3>3. /\ Read(e, j) \in Int /\ Read(e, j + 1) = Read(e, j) * Base + e[j + 1]
              /\ Read(h, j) \in Int /\ Read(h, j + 1) = Read(h, j) * Base + h[j + 1]
            BY <3>0, <3>2, ReadNext
        <3>4. Read(e, j) # Read(h, j)
            BY <3>0, <3>1, OneLessDiffers
        <3>5. h[j + 1] \in Digit /\ e[j + 1] = (h[j + 1] - 1) % Base
            <4>1. j + 1 \in 1..(j + 1)
                BY <3>0
            <4>. QED BY <3>1, <4>1 DEF OneLess, Digits
        <3>. DEFINE D == Read(e, j)
                    E == Read(h, j)
                    v == h[j + 1]
        <3>6. D \in Int /\ E \in Int /\ D # E /\ v \in Int /\ D * Base + e[j + 1] = E * Base + v - 1
            BY <2>1, <3>3, <3>4, <3>5, BaseIs
        <3>7. (v = 0 => e[j + 1] = Base - 1) /\ (v # 0 => e[j + 1] = v - 1)
            BY <3>5, DigitLess, BaseIs
        <3>. HIDE DEF D, E, v, N
        <3>8. D * Base \in Int /\ E * Base \in Int /\ (D - E) * Base = D * Base - E * Base
            BY <3>6, BaseIs
        <3>. DEFINE z == D - E
        <3>9. z \in Int /\ z # 0 /\ z * Base = D * Base - E * Base
            BY <3>6, <3>8
        <3>. HIDE DEF z
        <3>10. v = 0
            <4>1. ASSUME v # 0 PROVE FALSE
                <5>1. z * Base = 0
                    BY <3>6, <3>7, <3>8, <3>9, <4>1
                <5>. QED BY <5>1, <3>9, BaseIs
            <4>. QED BY <4>1
        <3>11. z = -1
            <4>1. z * Base = -Base
                BY <3>6, <3>7, <3>8, <3>9, <3>10, BaseIs
            <4>2. (z + 1) * Base = 0
                BY <4>1, <3>9, BaseIs
            <4>. QED BY <4>2, <3>9, BaseIs
        <3>12. Read(e, j) = Read(h, j) - 1
            BY <3>6, <3>11 DEF z, D, E
        <3>13. \A i \in 2..j : h[i] = 0
            BY <1>2, <3>0, <3>12 DEF N
        <3>14. \A i \in 2..(j + 1) : i \in 2..j \/ i = j + 1
            BY <3>0
        <3>. QED BY <3>10, <3>13, <3>14 DEF v
    <2>. QED BY <2>2, <2>3
<1>3. N = Nat
    <2>1. N \in SUBSET Nat
        OBVIOUS
    <2>. HIDE DEF N
    <2>. QED BY <1>1, <1>2, <2>1, AllNaturals
<1>. QED BY <1>3

(* When h is added to a negative number of lower rank, whose sign stands for *)
(* a 1 to be taken from h, the code makes e of it and tells the sign by      *)
(* whether c was carried into h or h had a digit that is not 0.  This says   *)
(* that e and that sign amount to h less 1, and c.                           *)
Nonzero(h, m, n) == \E i \in m..n : h[i] # 0
Borrows(e, h, n, c) ==
    Read(e, n) = Read(h, n) + One(c) - 1 + (1 - One(c \/ Nonzero(h, 1, n))) * Rank(n)

(* They do just if nothing was carried, and there are zeros behind the first *)
(* digit.                                                                    *)
LEMMA BorrowsIf ==
    ASSUME NEW e, NEW h, NEW n \in Nat, OneLess(e, h, n), n > 0, NEW c \in BOOLEAN
    PROVE  Borrows(e, h, n, c) <=> ~(c \/ Nonzero(h, 2, n))
<1>. DEFINE D == Read(e, n)
            E == Read(h, n)
            r == Rank(n)
            o == One(c \/ Nonzero(h, 1, n))
<1>1. Digits(h, n) /\ Digits(e, n) /\ D # E
    BY OneLessDiffers
<1>2. D \in Nat /\ E \in Nat /\ r \in Nat /\ Row(h, n) /\ Row(e, n)
    BY <1>1, ReadBound, RankNext, DigitsRow
<1>3. Borrows(e, h, n, c) <=> D = E + One(c) - 1 + (1 - o) * r
    BY DEF Borrows
<1>4. ASSUME c PROVE ~Borrows(e, h, n, c)
    <2>1. One(c) = 1 /\ o = 1
        BY <1>4 DEF One
    <2>. HIDE DEF D, E, r, o
    <2>2. E + One(c) - 1 + (1 - o) * r = E
        BY <2>1, <1>2
    <2>. QED BY <2>2, <1>1, <1>3
<1>5. ASSUME ~c, Nonzero(h, 2, n) PROVE ~Borrows(e, h, n, c)
    <2>1. Nonzero(h, 1, n)
        BY <1>5 DEF Nonzero
    <2>2. One(c) = 0 /\ o = 1
        BY <1>5, <2>1 DEF One
    <2>3. D # E - 1
        BY <1>5, OneLessByOne DEF Nonzero
    <2>. HIDE DEF D, E, r, o
    <2>4. E + One(c) - 1 + (1 - o) * r = E - 1
        BY <2>2, <1>2
    <2>. QED BY <2>3, <2>4, <1>3
<1>6. ASSUME ~c, ~Nonzero(h, 2, n) PROVE Borrows(e, h, n, c)
    <2>. DEFINE k == n - 1
                q == Rank(k)
    <2>1. k \in Nat /\ n = 1 + k /\ n - 1 = k /\ 1 <= n /\ 1 \in 1..n
        OBVIOUS
    <2>2. One(c) = 0
        BY <1>6 DEF One
    <2>3. \A i \in (1 + 1)..n : h[i] = 0
        BY <1>6 DEF Nonzero
    <2>4. h[1] \in Digit /\ e[1] = (h[1] - 1) % Base
        BY <2>1, <1>1 DEF Digits, OneLess
    <2>5. Read(h, n) = Read(h, 1) * Rank(n - 1)
        BY <2>1, <2>3, <1>2, ReadZerosBehind
    <2>6. Row(h, 0 + 1) /\ Row(e, 0 + 1)
        BY <2>1, <1>2 DEF Row
    <2>7. Read(h, 1) = h[1] /\ Read(e, 1) = e[1]
        <3>1. Read(h, 0 + 1) = Read(h, 0) * Base + h[0 + 1] /\ Read(e, 0 + 1) = Read(e, 0) * Base + e[0 + 1]
            BY <2>6, ReadNext
        <3>2. h[1] \in Int /\ e[1] \in Int
            BY <2>6 DEF Row
        <3>. QED BY <3>1, <3>2, ReadZero, BaseIs
    <2>. DEFINE f == [i \in 1..k |-> e[1 + i]]
    <2>8. \A i \in 1..k : f[i] = MAX
        <3>1. ASSUME NEW i \in 1..k PROVE f[i] = MAX
            <4>1. 1 + i \in (1 + 1)..n /\ 1 + i \in 1..n
                BY <2>1
            <4>2. h[1 + i] = 0 /\ e[1 + i] = (h[1 + i] - 1) % Base
                BY <2>3, <4>1 DEF OneLess
            <4>3. (-1) % Base = MAX
                BY BaseIs
            <4>4. (0 - 1) % Base = MAX
                BY <4>3
            <4>. QED BY <4>2, <4>4
        <3>. QED BY <3>1
    <2>9. Read(f, k) = q - 1
        <3>. HIDE DEF f, k
        <3>. QED BY <2>1, <2>8, ReadFull
    <2>10. ReadsOn(f, e, 1, k)
        <3>1. Row(e, 1 + k) /\ Follows(f, e, 1, k)
            BY <2>1, <1>2 DEF Follows
        <3>. HIDE DEF f, k
        <3>. QED BY <2>1, <3>1, ReadOn
    <2>. HIDE DEF f
    <2>11. D = e[1] * q + (q - 1) /\ E = h[1] * q
        BY <2>1, <2>5, <2>7, <2>9, <2>10 DEF ReadsOn
    <2>12. q \in Nat /\ r = Base * q
        <3>1. Rank(k) \in Nat /\ Rank(k + 1) = Base * Rank(k)
            BY <2>1, RankNext
        <3>2. k + 1 = n
            BY <2>1
        <3>. QED BY <3>1, <3>2
    <2>13. CASE h[1] # 0
        <3>1. o = 1
            BY <2>1, <2>13 DEF One, Nonzero
        <3>. DEFINE v == h[1]
        <3>2. e[1] = v - 1 /\ v \in Int
            <4>1. (h[1] - 1) % Base = h[1] - 1
                BY <2>4, <2>13, DigitLess
            <4>. QED BY <4>1, <2>4, BaseIs
        <3>3. D = (v - 1) * q + (q - 1) /\ E = v * q
            BY <2>11, <3>2
        <3>. HIDE DEF D, E, r, o, q, v
        <3>4. (v - 1) * q = v * q - q /\ v * q \in Int
            BY <2>12, <3>2
        <3>5. D = E - 1
            BY <2>12, <3>3, <3>4
        <3>6. E + One(c) - 1 + (1 - o) * r = E - 1
            BY <2>2, <3>1, <1>2
        <3>. QED BY <3>5, <3>6, <1>3
    <2>14. CASE h[1] = 0
        <3>1. o = 0
            <4>1. \A i \in 1..n : h[i] = 0
                <5>1. \A i \in 1..n : i = 1 \/ i \in (1 + 1)..n
                    BY <2>1
                <5>. QED BY <5>1, <2>3, <2>14
            <4>. QED BY <4>1, <1>6 DEF One, Nonzero
        <3>2. e[1] = MAX
            BY <2>4, <2>14, DigitLess
        <3>3. D = MAX * q + (q - 1) /\ E = 0 * q
            BY <2>11, <2>14, <3>2
        <3>. HIDE DEF D, E, r, o, q
        <3>4. MAX * q = Base * q - q /\ Base * q \in Int /\ 0 * q = 0
            BY <2>12, BaseIs
        <3>5. D = r - 1 /\ E = 0
            BY <2>12, <3>3, <3>4
        <3>6. E + One(c) - 1 + (1 - o) * r = r - 1
            BY <2>2, <3>1, <3>5, <1>2
        <3>. QED BY <3>5, <3>6, <1>3
    <2>. QED BY <2>13, <2>14
<1>. QED BY <1>4, <1>5, <1>6

(* Only zeros stand for 0. *)
LEMMA ReadNone ==
    ASSUME NEW d, NEW n \in Nat, Digits(d, n), Read(d, n) = 0
    PROVE  \A i \in 1..n : d[i] = 0
<1>1. ASSUME NEW i \in 1..n PROVE d[i] = 0
    <2>. DEFINE m == i - 1
    <2>1. m \in Nat /\ i = m + 1 /\ i \in Nat /\ i <= n
        OBVIOUS
    <2>. HIDE DEF m
    <2>2. /\ Read(d, i) \in Nat /\ Rank(n - i) \in Nat /\ Read(d, i) * Rank(n - i) <= Read(d, n)
        BY <2>1, ReadSplit
    <2>3. Rank(n - i) > 0
        <3>1. n - i \in Nat
            BY <2>1
        <3>. QED BY <3>1, RankNext
    <2>4. Read(d, i) = 0
        <3>. DEFINE D == Read(d, i)
                    r == Rank(n - i)
        <3>1. D \in Nat /\ r \in Nat /\ r > 0 /\ D * r <= 0
            BY <2>2, <2>3
        <3>. HIDE DEF D, r
        <3>2. D > 0 => D * r > 0
            BY <3>1
        <3>3. D * r \in Nat
            BY <3>1
        <3>4. D = 0
            BY <3>1, <3>2, <3>3
        <3>. QED BY <3>4 DEF D
    <2>5. Row(d, m + 1) /\ Digits(d, m) /\ d[i] \in Digit
        <3>1. Row(d, n)
            BY DigitsRow
        <3>. QED BY <3>1, <2>1 DEF Row, Digits
    <2>6. Read(d, m + 1) = Read(d, m) * Base + d[m + 1] /\ Read(d, m) \in Nat
        BY <2>1, <2>5, ReadNext, ReadBound
    <2>7. Read(d, m) * Base \in Nat /\ d[i] \in Nat
        BY <2>5, <2>6, BaseIs
    <2>. QED BY <2>1, <2>4, <2>6, <2>7
<1>. QED BY <1>1

(* A row that stands for less than a unit of place p is zeros up to there. *)
LEMMA ZerosUpTo ==
    ASSUME NEW d, NEW n \in Nat, Digits(d, n), NEW p \in Nat, p <= n
    PROVE  Read(d, n) < Rank(n - p) <=> \A i \in 1..p : d[i] = 0
<1>1. /\ Read(d, p) \in Nat /\ Read(d, n) \in Nat /\ Rank(n - p) \in Nat
      /\ Read(d, p) * Rank(n - p) <= Read(d, n)
      /\ Read(d, n) < (Read(d, p) + 1) * Rank(n - p)
    BY ReadSplit
<1>2. Digits(d, p)
    BY DEF Digits
<1>3. ASSUME \A i \in 1..p : d[i] = 0 PROVE Read(d, n) < Rank(n - p)
    <2>1. Read(d, p) = 0
        BY <1>3, ReadZeros
    <2>. DEFINE r == Rank(n - p)
    <2>2. Read(d, n) < (0 + 1) * r /\ r \in Nat
        BY <1>1, <2>1
    <2>. HIDE DEF r
    <2>3. Read(d, n) < r
        BY <2>2
    <2>. QED BY <2>3 DEF r
<1>4. ASSUME Read(d, n) < Rank(n - p) PROVE \A i \in 1..p : d[i] = 0
    <2>. DEFINE D == Read(d, p)
                r == Rank(n - p)
                N == Read(d, n)
    <2>1. D \in Nat /\ r \in Nat /\ N \in Nat /\ D * r <= N /\ N < r
        BY <1>1, <1>4
    <2>. HIDE DEF D, r, N
    <2>2. D >= 1 => D * r >= r
        BY <2>1
    <2>3. D * r \in Nat
        BY <2>1
    <2>4. D = 0
        BY <2>1, <2>2, <2>3
    <2>. QED BY <2>4, <1>2, ReadNone DEF D
<1>. QED BY <1>3, <1>4

(* Whether a sum of the digits of b and those of w at their places is      *)
(* carried.                                                                 *)
Beside(w, b) == [i \in 1..Len(b.digits) |-> w.digits[w.exp - b.exp + i]]
Over(w, b) ==
    Read(Beside(w, b), Len(b.digits)) + Read(b.digits, Len(b.digits)) >= Rank(Len(b.digits))

(* The sums of the digits carry just where the rows do. *)
LEMMA OverIs ==
    ASSUME NEW w, NEW b, Covers(w, b), NEW top, top = w.exp - b.exp,
           NEW at, NEW low, SumsUp(at, w, b, top), Lowered(low, w, b, top, at)
    PROVE  at[top + 1].carry \in BOOLEAN /\ (at[top + 1].carry <=> Over(w, b))
<1>. DEFINE d == w.digits
            L == Len(w.digits)
            o == b.digits
            m == Len(b.digits)
            p == top + m
            c == at[top + 1].carry
            e == Beside(w, b)
            f == [i \in 1..m |-> low[top + i]]
<1>1. /\ w \in Numbers /\ b \in Numbers /\ top \in Nat /\ L \in Nat /\ m \in Nat /\ m > 0 /\ p \in Nat /\ p <= L
    <2>1. w \in Numbers /\ b \in Numbers /\ m > 0
        BY DEF Covers
    <2>2. top \in Nat /\ L \in Nat /\ m \in Nat /\ top + m <= L
        BY CoversIs
    <2>. HIDE DEF L, m
    <2>. QED BY <2>1, <2>2
<1>2. c \in BOOLEAN
    <2>1. top + 1 \in (top + 1)..(top + Len(b.digits) + 1)
        BY <1>1
    <2>. QED BY <2>1 DEF SumsUp
<1>3. /\ low \in Seq(Digit) /\ Len(low) = L
      /\ \A i \in 1..L : low[i] = IF i \in (top + 1)..p THEN at[i].digit ELSE d[i]
      /\ Read(low, L) = Read(d, L) + (Read(o, m) - One(c) * Rank(m)) * Rank(L - p)
    BY DEF Lowered
<1>4. /\ Digits(d, L) /\ Digits(o, m) /\ d \in Seq(Digit)
    BY <1>1, NumberIs
<1>. HIDE DEF d, L, o, m, c
<1>5. Digits(low, L)
    BY <1>1, <1>3, SeqRow
<1>6. Row(low, L) /\ Row(d, L) /\ Row(low, p) /\ Row(d, p) /\ Digits(low, p) /\ Digits(d, p) /\ Row(d, top)
    <2>1. Digits(low, p) /\ Digits(d, p) /\ Digits(d, top)
        <3>1. \A i \in 1..p : i \in 1..L
            BY <1>1
        <3>2. \A i \in 1..top : i \in 1..L
            BY <1>1
        <3>. QED BY <3>1, <3>2, <1>4, <1>5 DEF Digits
    <2>. HIDE DEF p
    <2>2. Row(low, L) /\ Row(d, L) /\ Row(low, p) /\ Row(d, p) /\ Row(d, top)
        BY <2>1, <1>1, <1>4, <1>5, DigitsRow
    <2>. QED BY <2>1, <2>2
<1>7. Read(low, L) = Read(d, L) + (Read(low, p) - Read(d, p)) * Rank(L - p)
    <2>1. \A j \in (p + 1)..L : low[j] = d[j]
        BY <1>1, <1>3
    <2>. QED BY <2>1, <1>1, <1>6, ReadChanged
<1>8. Read(low, top) = Read(d, top)
    <2>1. \A i \in 1..top : low[i] = d[i]
        BY <1>1, <1>3
    <2>. QED BY <2>1, <1>1, <1>6, ReadSame
<1>9. e = [i \in 1..m |-> d[top + i]]
    BY DEF Beside, d, m
<1>10. ReadsOn(e, d, top, m)
    <2>1. Follows(e, d, top, m) /\ Row(d, top + m)
        BY <1>6, <1>9 DEF Follows
    <2>. HIDE DEF e
    <2>. QED BY <2>1, <1>1, ReadOn
<1>11. ReadsOn(f, low, top, m)
    <2>1. Follows(f, low, top, m) /\ Row(low, top + m)
        BY <1>6 DEF Follows
    <2>. HIDE DEF f
    <2>. QED BY <2>1, <1>1, ReadOn
<1>12. Digits(e, m) /\ Digits(f, m)
    <2>1. \A i \in 1..m : top + i \in 1..p
        BY <1>1
    <2>. QED BY <2>1, <1>6, <1>9 DEF Digits
<1>. HIDE DEF e, f
<1>13. /\ Read(e, m) \in Nat /\ Read(f, m) \in Nat /\ Read(f, m) < Rank(m) /\ Read(o, m) \in Nat
       /\ Read(d, top) \in Int /\ Read(d, L) \in Int /\ Read(low, p) \in Int /\ Read(d, p) \in Int
    BY <1>1, <1>4, <1>6, <1>12, ReadBound, ReadInt
<1>14. Rank(m) \in Nat /\ Rank(L - p) \in Nat /\ Rank(L - p) > 0
    <2>1. L - p \in Nat
        BY <1>1
    <2>2. Rank(L - p) \in Nat /\ Rank(L - p) > 0
        BY <2>1, RankNext
    <2>3. Rank(m) \in Nat
        BY <1>1, RankNext
    <2>. QED BY <2>2, <2>3
<1>. DEFINE E == Read(e, m)
            F == Read(f, m)
            B == Read(o, m)
            rm == Rank(m)
            rk == Rank(L - p)
            oc == One(c)
            H == Read(d, top)
            y == Read(low, p) - Read(d, p)
            v == B - oc * rm
<1>15. E \in Nat /\ F \in Nat /\ F < rm /\ B \in Nat /\ rm \in Nat /\ rk \in Nat /\ rk > 0 /\ H \in Int
    BY <1>13, <1>14
<1>16. oc = IF c THEN 1 ELSE 0
    BY DEF One
<1>17. y \in Int /\ v \in Int
    <2>1. y \in Int
        BY <1>13
    <2>2. oc \in Int
        BY <1>16
    <2>. HIDE DEF oc, rm, B
    <2>3. v \in Int
        BY <2>2, <1>15
    <2>. QED BY <2>1, <2>3
<1>18. y * rk = v * rk
    <2>. DEFINE Y == y * rk
                V == v * rk
    <2>1. Read(low, L) = Read(d, L) + Y /\ Read(low, L) = Read(d, L) + V
        BY <1>3, <1>7
    <2>2. Y \in Int /\ V \in Int
        <3>. HIDE DEF y, v, rk
        <3>. QED BY <1>15, <1>17
    <2>. HIDE DEF Y, V
    <2>3. Y = V
        BY <2>1, <2>2, <1>13
    <2>. QED BY <2>3 DEF Y, V
<1>19. y = F - E
    <2>1. Read(d, p) = H * rm + E /\ Read(low, p) = H * rm + F
        BY <1>8, <1>10, <1>11 DEF ReadsOn
    <2>. HIDE DEF E, F, H, rm
    <2>2. H * rm \in Int
        BY <1>15
    <2>. QED BY <2>1, <2>2, <1>15
<1>20. Over(w, b) <=> E + B >= rm
    BY DEF Over, e, o, m
<1>. HIDE DEF E, F, B, rm, rk, oc, H, y
<1>21. oc * rm = IF c THEN rm ELSE 0
    BY <1>15, <1>16
<1>22. v = B - (IF c THEN rm ELSE 0)
    BY <1>21
<1>. HIDE DEF v
<1>23. y = v
    BY <1>15, <1>17, <1>18
<1>24. c <=> E + B >= rm
    BY <1>15, <1>19, <1>22, <1>23
<1>. QED BY <1>2, <1>20, <1>24 DEF c

(* What Upper looks for. *)
AllZero(b, top, u) ==
    /\ \A i \in (top + 1)..(top + Len(b.digits)) : u[i] = 0
    /\ b.neg => \A i \in 1..top : u[i] = 0

(* The sum of a padded number is made in these steps, and ends so. *)
LEMMA PaddedIs ==
    ASSUME NEW w, NEW b, Covers(w, b), NEW top, top = w.exp - b.exp
    PROVE  \E at, low, u, out :
               /\ SumsUp(at, w, b, top) /\ Lowered(low, w, b, top, at)
               /\ u = Above(b, top, low, at[top + 1].carry)
               /\ out = CarryOut(w, b, top, low, at[top + 1].carry)
               /\ Padded(w, b) = Carry(Summed(w, u), b, out, AllZero(b, top, u))
<1>1. w \in Numbers /\ b \in Numbers
    BY DEF Covers
<1>2. top \in Nat /\ top + Len(b.digits) <= Len(w.digits)
    BY CoversIs
<1>. DEFINE at == Sums(w, b, top)
            low == Below(w, b, top, at)
            c == at[top + 1].carry
            u == Above(b, top, low, c)
            out == CarryOut(w, b, top, low, c)
<1>3. SumsUp(at, w, b, top)
    BY <1>1, <1>2, SumsAre
<1>4. Lowered(low, w, b, top, at)
    <2>. HIDE DEF at
    <2>. QED BY <1>1, <1>2, <1>3, BelowRead
<1>5. Padded(w, b) = Upper(w, b, top, low, c)
    BY DEF Padded, Lower, Below
<1>6. Upper(w, b, top, low, c) = Carry(Summed(w, u), b, out, AllZero(b, top, u))
    BY DEF Upper, Above, CarryOut, Decremented, Summed, AllZero
<1>7. /\ u = Above(b, top, low, at[top + 1].carry)
      /\ out = CarryOut(w, b, top, low, at[top + 1].carry)
    OBVIOUS
<1>. HIDE DEF u, out, c, at, low
<1>. QED BY <1>3, <1>4, <1>5, <1>6, <1>7

(* The sum of two negative numbers, and that of one whose digits are 0. *)
LEMMA CarryBoth ==
    ASSUME NEW w \in Numbers, NEW b \in Numbers, b.neg, w.neg, Len(w.digits) > 0,
           NEW carry \in BOOLEAN, NEW zero \in BOOLEAN
    PROVE  LET y == Carry(w, b, carry, zero)
           IN /\ y \in Numbers /\ Len(y.digits) > 0
              /\ ~(carry /\ zero) => Adds(y, w, (One(carry) - 1) * Rank(Len(w.digits)))
              /\ carry /\ zero => y.exp = w.exp + 1 /\ y.neg /\ y.digits = << MAX >>
<1>. DEFINE L == Len(w.digits)
            R == Read(w.digits, L)
            y == Carry(w, b, carry, zero)
<1>1. w.neg = TRUE /\ b.neg = TRUE
    BY DEF Numbers
<1>2. w.exp \in Int /\ L \in Nat /\ Rank(L) \in Nat
    <2>1. w.exp \in Int /\ L \in Nat
        BY NumberIs
    <2>2. Rank(L) \in Nat
        BY <2>1, RankNext
    <2>. QED BY <2>1, <2>2
<1>3. R \in Int /\ Amount(w) = R - Rank(L)
    <2>1. R \in Int
        BY NumberIs, ReadInt
    <2>. QED BY <2>1, <1>1 DEF Amount
<1>4. CASE carry /\ zero
    <2>. DEFINE f == << MAX >>
    <2>1. y = [w EXCEPT !.exp = @ + 1, !.digits = f]
        BY <1>1, <1>4 DEF Carry
    <2>2. f \in Seq(Digit) /\ Len(f) = 1
        BY BaseIs
    <2>. HIDE DEF f, y
    <2>3. y = [neg |-> w.neg, exp |-> w.exp + 1, digits |-> f]
        <3>1. w = [neg |-> w.neg, exp |-> w.exp, digits |-> w.digits]
            BY DEF Numbers
        <3>2. y = [w EXCEPT !.exp = w.exp + 1, !.digits = f]
            BY <2>1
        <3>. QED BY <3>1, <3>2
    <2>4. y \in Numbers /\ y.exp = w.exp + 1 /\ y.neg /\ y.digits = f
        BY <2>2, <2>3, <1>1, <1>2 DEF Numbers
    <2>6. Len(y.digits) = 1
        BY <2>2, <2>4
    <2>5. Len(y.digits) > 0
        BY <2>6
    <2>7. y.digits = << MAX >>
        BY <2>4 DEF f
    <2>. QED BY <2>4, <2>5, <2>7, <1>4 DEF y
<1>5. CASE carry /\ ~zero
    <2>1. y = w
        BY <1>1, <1>5 DEF Carry
    <2>2. (One(carry) - 1) * Rank(L) = 0
        <3>. HIDE DEF L
        <3>. QED BY <1>2, <1>5 DEF One
    <2>. HIDE DEF y
    <2>3. Adds(y, w, (One(carry) - 1) * Rank(L))
        BY <2>1, <2>2, <1>2, <1>3 DEF Adds
    <2>. QED BY <2>1, <2>3, <1>5 DEF y
<1>6. CASE ~carry
    <2>1. y = [w EXCEPT !.exp = @ + 1, !.digits = << MAX - 1 >> \o @]
        BY <1>1, <1>6 DEF Carry
    <2>2. MAX - 1 \in Digit
        BY BaseIs
    <2>3. /\ y \in Numbers /\ Len(y.digits) > 0 /\ Bottom(y) = Bottom(w)
          /\ Amount(y) = (MAX - 1) * Rank(L) + R - (IF w.neg THEN Base * Rank(L) ELSE 0)
        BY <2>1, <2>2, LedIs
    <2>4. Amount(y) = Amount(w) + (One(carry) - 1) * Rank(L)
        <3>. DEFINE r == Rank(L)
                    A == Amount(y)
                    o == One(carry)
        <3>1. A = (MAX - 1) * r + R - Base * r /\ r \in Nat /\ o = 0 /\ Amount(w) = R - r
            BY <2>3, <1>1, <1>2, <1>3, <1>6 DEF One
        <3>. HIDE DEF r, A, o, R
        <3>2. (MAX - 1) * r = Base * r - 2 * r /\ Base * r \in Int
            BY <3>1, BaseIs
        <3>3. (o - 1) * r = -r
            BY <3>1
        <3>4. A = Amount(w) + (o - 1) * r
            BY <3>1, <3>2, <3>3, <1>3
        <3>. QED BY <3>4 DEF r, A, o
    <2>. HIDE DEF y
    <2>. QED BY <2>3, <2>4, <1>6 DEF Adds, y
<1>. QED BY <1>4, <1>5, <1>6

(* When b is negative, u are the digits of the sum of w and b, the first of *)
(* which are those of w less one; c is the carry into these and out the one *)
(* that the sign is told by, and zero says that all of u are 0 down to the  *)
(* end of b.                                                                *)
Exactly(w, b) ==
    Read(w.digits, Len(w.digits))
    + (Read(b.digits, Len(b.digits)) - Rank(Len(b.digits))) * Rank(Bottom(b) - Bottom(w))
Top(w, b) == w.exp - b.exp
NegativeSum(w, b, u, c, out, zero) ==
    /\ u \in Seq(Digit) /\ Len(u) = Len(w.digits)
    /\ c \in BOOLEAN /\ out \in BOOLEAN /\ zero \in BOOLEAN
    /\ Padded(w, b) = Carry(Summed(w, u), b, out, zero)
    /\ c <=> Over(w, b)
    /\ out <=> c \/ Nonzero(w.digits, 1, Top(w, b))
    /\ zero <=> \A i \in 1..(Top(w, b) + Len(b.digits)) : u[i] = 0
    /\ OneLess(u, w.digits, Top(w, b))
    /\ Read(u, Len(w.digits))
       = Exactly(w, b) + (1 - One(c) + Read(u, Top(w, b)) - Read(w.digits, Top(w, b)))
                         * Rank(Len(w.digits) - Top(w, b))

(* The amount that the sum should have is one. *)
LEMMA ExactlyInt ==
    ASSUME NEW w, NEW b, Covers(w, b)
    PROVE  Exactly(w, b) \in Int
<1>. DEFINE B == Read(b.digits, Len(b.digits))
            rm == Rank(Len(b.digits))
            rk == Rank(Bottom(b) - Bottom(w))
            R == Read(w.digits, Len(w.digits))
<1>1. w \in Numbers /\ b \in Numbers /\ Bottom(w) <= Bottom(b)
    BY DEF Covers
<1>2. R \in Int /\ B \in Int
    BY <1>1, NumberIs, ReadInt
<1>3. rm \in Int
    <2>1. Len(b.digits) \in Nat
        BY <1>1, NumberIs
    <2>2. rm \in Nat
        BY <2>1, RankNext
    <2>. QED BY <2>2
<1>4. rk \in Int
    <2>1. Bottom(b) - Bottom(w) \in Nat
        BY <1>1, NumberIs
    <2>2. rk \in Nat
        BY <2>1, RankNext
    <2>. QED BY <2>2
<1>5. Exactly(w, b) = R + (B - rm) * rk
    BY DEF Exactly
<1>. HIDE DEF B, rm, rk, R
<1>. QED BY <1>2, <1>3, <1>4, <1>5

LEMMA NegativeSumIs ==
    ASSUME NEW w, NEW b, Covers(w, b), b.neg
    PROVE  \E u, c, out, zero : NegativeSum(w, b, u, c, out, zero)
<1>. DEFINE top == Top(w, b)
            d == w.digits
            L == Len(w.digits)
            m == Len(b.digits)
            k == L - (top + m)
<1>1. top = w.exp - b.exp
    BY DEF Top
<1>. HIDE DEF top
<1>2. PICK at, low, u, out :
          /\ SumsUp(at, w, b, top) /\ Lowered(low, w, b, top, at)
          /\ u = Above(b, top, low, at[top + 1].carry)
          /\ out = CarryOut(w, b, top, low, at[top + 1].carry)
          /\ Padded(w, b) = Carry(Summed(w, u), b, out, AllZero(b, top, u))
    BY <1>1, PaddedIs
<1>. DEFINE c == at[top + 1].carry
            zero == AllZero(b, top, u)
<1>3. /\ w \in Numbers /\ b \in Numbers /\ top \in Nat /\ L \in Nat /\ m \in Nat
      /\ top + m <= L /\ k = Bottom(b) - Bottom(w)
    <2>1. /\ top \in Nat /\ L \in Nat /\ m \in Nat /\ top + m <= L
          /\ L - (top + m) = Bottom(b) - Bottom(w)
        BY <1>1, CoversIs
    <2>2. w \in Numbers /\ b \in Numbers
        BY DEF Covers
    <2>. HIDE DEF L, m
    <2>. QED BY <2>1, <2>2
<1>4. c \in BOOLEAN /\ (c <=> Over(w, b))
    BY <1>1, <1>2, OverIs
<1>5. /\ low \in Seq(Digit) /\ Len(low) = L
      /\ Read(low, L) = Read(d, L) + (Read(b.digits, m) - One(c) * Rank(m)) * Rank(k)
      /\ \A i \in 1..L : low[i] = IF i \in (top + 1)..(top + m) THEN at[i].digit ELSE d[i]
    BY <1>2 DEF Lowered
<1>6. u = Decremented(low, top)
    BY <1>2 DEF Above
<1>7. (out <=> c \/ Nonzero(d, 1, top)) /\ out \in BOOLEAN
    BY <1>2, <1>4 DEF CarryOut, Nonzero
<1>8. zero \in BOOLEAN
    BY DEF AllZero
<1>9. zero <=> \A i \in 1..(top + m) : u[i] = 0
    <2>1. zero <=> /\ \A i \in (top + 1)..(top + m) : u[i] = 0
                   /\ \A i \in 1..top : u[i] = 0
        BY DEF AllZero
    <2>. HIDE DEF zero, m
    <2>2. \A i \in 1..(top + m) : i \in 1..top \/ i \in (top + 1)..(top + m)
        BY <1>3
    <2>3. /\ \A i \in 1..top : i \in 1..(top + m)
          /\ \A i \in (top + 1)..(top + m) : i \in 1..(top + m)
        BY <1>3
    <2>. QED BY <2>1, <2>2, <2>3
<1>. HIDE DEF zero, c
<1>10. u \in Seq(Digit) /\ Len(u) = L
    <2>. HIDE DEF L
    <2>0. b \in Numbers /\ top \in Nat /\ low \in Seq(Digit) /\ c \in BOOLEAN
        BY <1>3, <1>4, <1>5
    <2>1. Above(b, top, low, c) \in Seq(Digit) /\ Len(Above(b, top, low, c)) = Len(low)
        BY <2>0, AboveIs
    <2>2. u = Above(b, top, low, c)
        BY <1>2 DEF c
    <2>. QED BY <2>1, <2>2, <1>5
<1>11. \A i \in 1..L : u[i] = IF i <= top THEN (low[i] - 1) % Base ELSE low[i]
    <2>. HIDE DEF L
    <2>. QED BY <1>5, <1>6 DEF Decremented
<1>12. d \in Seq(Digit) /\ Digits(d, L) /\ Row(low, L) /\ Row(u, L) /\ Row(d, L)
    <2>1. d \in Seq(Digit) /\ Digits(d, L)
        BY <1>3, NumberIs
    <2>. HIDE DEF d, L
    <2>2. Row(low, L) /\ Row(u, L) /\ Row(d, L)
        BY <2>1, <1>3, <1>5, <1>10, DigitsRow, SeqRow
    <2>. QED BY <2>1, <2>2
<1>. HIDE DEF d, L, m
<1>13. \A i \in 1..top : i \in 1..L /\ low[i] = d[i]
    BY <1>3, <1>5
<1>14. OneLess(u, d, top)
    <2>1. Digits(d, top)
        BY <1>12, <1>13 DEF Digits
    <2>2. \A i \in 1..top : u[i] = (d[i] - 1) % Base
        BY <1>3, <1>11, <1>13
    <2>. QED BY <2>1, <2>2 DEF OneLess
<1>15. Read(low, top) = Read(d, top)
    <2>1. Row(d, top)
        BY <1>12, <1>13 DEF Row
    <2>. QED BY <2>1, <1>3, <1>13, ReadSame
<1>16. Read(u, L) = Read(low, L) + (Read(u, top) - Read(d, top)) * Rank(L - top)
    <2>1. \A j \in (top + 1)..L : u[j] = low[j]
        BY <1>3, <1>11
    <2>2. top <= L
        BY <1>3
    <2>3. Read(u, L) = Read(low, L) + (Read(u, top) - Read(low, top)) * Rank(L - top)
        BY <2>1, <2>2, <1>3, <1>12, ReadChanged
    <2>. QED BY <2>3, <1>15
<1>17. k \in Nat /\ L - top = m + k
    BY <1>3
<1>18. /\ Rank(m) \in Nat /\ Rank(k) \in Nat /\ Rank(L - top) = Rank(m) * Rank(k)
    <2>1. m \in Nat
        BY <1>3
    <2>2. Rank(m) \in Nat /\ Rank(k) \in Nat
        BY <2>1, <1>17, RankNext
    <2>3. Rank(m + k) = Rank(m) * Rank(k)
        BY <2>1, <1>17, RankSum
    <2>. QED BY <2>2, <2>3, <1>17
<1>19. /\ Read(u, top) \in Int /\ Read(d, top) \in Int /\ Read(b.digits, m) \in Int /\ Read(d, L) \in Int
    <2>1. Row(u, top) /\ Row(d, top)
        BY <1>12, <1>13 DEF Row
    <2>2. Row(b.digits, m)
        BY <1>3, NumberIs DEF m
    <2>. QED BY <2>1, <2>2, <1>3, <1>12, ReadInt
<1>20. Exactly(w, b) = Read(d, L) + (Read(b.digits, m) - Rank(m)) * Rank(k)
    BY <1>3 DEF Exactly, d, L, m
<1>. DEFINE U == Read(u, L)
            R == Read(d, L)
            B == Read(b.digits, m)
            rm == Rank(m)
            rk == Rank(k)
            z == Rank(L - top)
            oc == One(c)
            H == Read(d, top)
            G == Read(u, top)
            Q == Exactly(w, b)
<1>21. U = Q + (1 - oc + G - H) * z
    <2>1. /\ R \in Int /\ B \in Int /\ rm \in Nat /\ rk \in Nat /\ z = rm * rk /\ oc \in Int
          /\ H \in Int /\ G \in Int
        BY <1>18, <1>19 DEF One
    <2>2. U = (R + (B - oc * rm) * rk) + (G - H) * z /\ Q = R + (B - rm) * rk
        BY <1>5, <1>16, <1>20
    <2>. HIDE DEF U, R, B, rm, rk, z, oc, H, G, Q
    <2>3. z \in Int /\ (oc * rm) * rk = oc * z /\ B * rk \in Int /\ oc * z \in Int
        <3>1. (oc * rm) * rk = oc * (rm * rk) /\ rm * rk \in Int /\ B * rk \in Int
            BY <2>1
        <3>2. z \in Int
            BY <2>1, <3>1
        <3>. QED BY <3>1, <3>2, <2>1
    <2>4. (B - oc * rm) * rk = B * rk - oc * z
        <3>1. (B - oc * rm) * rk = B * rk - (oc * rm) * rk
            <4>1. oc * rm \in Int
                BY <2>1
            <4>. QED BY <4>1, <2>1
        <3>. QED BY <3>1, <2>3
    <2>5. (B - rm) * rk = B * rk - z
        BY <2>1
    <2>6. (1 - oc + G - H) * z = z - oc * z + (G - H) * z /\ (G - H) * z \in Int
        BY <2>1, <2>3
    <2>. QED BY <2>1, <2>2, <2>3, <2>4, <2>5, <2>6
<1>22. Padded(w, b) = Carry(Summed(w, u), b, out, zero)
    BY <1>2 DEF zero
<1>23. NegativeSum(w, b, u, c, out, zero)
    BY <1>4, <1>7, <1>8, <1>9, <1>10, <1>14, <1>21, <1>22 DEF NegativeSum, top, d, L, m
<1>. QED BY <1>23

(* The digits of a sum and its last carry are right just where the digits   *)
(* above those of b may all be decremented, *)
Undone(w, b) ==
    /\ Top(w, b) > 0
    /\ Over(w, b) \/ Nonzero(w.digits, 2, Top(w, b))
LEMMA NegativeSumRight ==
    ASSUME NEW w, NEW b, Covers(w, b), b.neg,
           NEW u, NEW c, NEW out, NEW zero, NegativeSum(w, b, u, c, out, zero)
    PROVE  Read(u, Len(w.digits)) = Exactly(w, b) + (1 - One(out)) * Rank(Len(w.digits))
           <=> ~Undone(w, b)
<1>. DEFINE top == Top(w, b)
            d == w.digits
            L == Len(w.digits)
            n == L - top
            U == Read(u, L)
            Q == Exactly(w, b)
            z == Rank(n)
            rt == Rank(top)
            H == Read(d, top)
            G == Read(u, top)
            oc == One(c)
            o == One(out)
<1>1. /\ c \in BOOLEAN /\ out \in BOOLEAN /\ (c <=> Over(w, b)) /\ (out <=> c \/ Nonzero(d, 1, top))
      /\ OneLess(u, d, top) /\ U = Q + (1 - oc + G - H) * z
    BY DEF NegativeSum
<1>2. top \in Nat /\ L \in Nat /\ top <= L
    <2>1. w.exp - b.exp = top
        BY DEF Top
    <2>2. top \in Nat /\ L \in Nat /\ top + Len(b.digits) <= L /\ Len(b.digits) \in Nat
        BY <2>1, CoversIs
    <2>. HIDE DEF top, L
    <2>. QED BY <2>2
<1>3. n \in Nat /\ top + n = L
    <2>. HIDE DEF top, L
    <2>. QED BY <1>2
<1>4. z \in Nat /\ z > 0 /\ rt \in Nat /\ Rank(L) = rt * z
    <2>. HIDE DEF top, L, n
    <2>1. z \in Nat /\ z > 0 /\ rt \in Nat
        BY <1>2, <1>3, RankNext
    <2>2. Rank(top + n) = Rank(top) * Rank(n)
        BY <1>2, <1>3, RankSum
    <2>. QED BY <2>1, <2>2, <1>3
<1>5. H \in Int /\ G \in Int
    <2>. HIDE DEF top, d
    <2>1. Digits(d, top) /\ Digits(u, top)
        BY <1>1, <1>2, OneLessDiffers
    <2>. QED BY <2>1, <1>2, ReadBound
<1>6. Borrows(u, d, top, c) <=> G = H + oc - 1 + (1 - o) * rt
    <2>1. o = One(c \/ Nonzero(d, 1, top))
        BY <1>1 DEF One
    <2>. HIDE DEF top, d, o
    <2>. QED BY <2>1 DEF Borrows
<1>7. Borrows(u, d, top, c) <=> ~Undone(w, b)
    <2>1. CASE top > 0
        <3>1. Borrows(u, d, top, c) <=> ~(c \/ Nonzero(d, 2, top))
            <4>. HIDE DEF top, d
            <4>. QED BY <2>1, <1>1, <1>2, BorrowsIf
        <3>2. Undone(w, b) <=> Over(w, b) \/ Nonzero(d, 2, top)
            BY <2>1 DEF Undone
        <3>. QED BY <3>1, <3>2, <1>1
    <2>2. CASE ~(top > 0)
        <3>1. top = 0
            <4>. HIDE DEF top
            <4>. QED BY <2>2, <1>2
        <3>2. H = 0 /\ G = 0 /\ rt = 1
            <4>. HIDE DEF top
            <4>. QED BY <3>1, ReadZero, Ranks0
        <3>3. o = oc
            <4>1. ~Nonzero(d, 1, top)
                BY <3>1 DEF Nonzero
            <4>. QED BY <4>1, <1>1 DEF One
        <3>4. G = H + oc - 1 + (1 - o) * rt
            <4>1. oc \in Int
                BY DEF One
            <4>. HIDE DEF o, oc, G, H, rt
            <4>. QED BY <4>1, <3>2, <3>3
        <3>. QED BY <3>4, <1>6, <2>2 DEF Undone
    <2>. QED BY <2>1, <2>2
<1>8. o \in Int /\ oc \in Int
    BY DEF One
<1>9. Q \in Int
    BY ExactlyInt
<1>10. U = Q + (1 - o) * Rank(L) <=> G = H + oc - 1 + (1 - o) * rt
    <2>. DEFINE v == 1 - oc + G - H
                t == (1 - o) * rt
    <2>1. U = Q + v * z /\ (1 - o) * Rank(L) = t * z
        <3>1. (1 - o) * (rt * z) = ((1 - o) * rt) * z
            <4>. HIDE DEF o, rt, z
            <4>. QED BY <1>4, <1>8
        <3>. QED BY <3>1, <1>1, <1>4
    <2>2. v \in Int /\ t \in Int
        <3>. HIDE DEF o, rt, oc, G, H
        <3>. QED BY <1>4, <1>5, <1>8
    <2>3. G = H + oc - 1 + t <=> v = t
        <3>. HIDE DEF t, oc, G, H
        <3>. QED BY <2>2, <1>5, <1>8
    <2>4. (v - t) * z = v * z - t * z /\ v * z \in Int /\ t * z \in Int
        <3>. HIDE DEF v, t, z
        <3>. QED BY <2>2, <1>4
    <2>5. v # t => (v - t) * z # 0
        <3>. HIDE DEF v, t, z
        <3>. QED BY <2>2, <1>4
    <2>. HIDE DEF v, t, U, Q, z
    <2>6. U = Q + t * z <=> v = t
        BY <2>1, <2>2, <2>4, <2>5, <1>9
    <2>. QED BY <2>1, <2>3, <2>6 DEF t
<1>. QED BY <1>6, <1>7, <1>10

(* and what is all 0 is less than a unit of the lowest digit of b; should   *)
(* more have been decremented than may be, the sum is not less than that.   *)
LEMMA NegativeSumZero ==
    ASSUME NEW w, NEW b, Covers(w, b), b.neg,
           NEW u, NEW c, NEW out, NEW zero, NegativeSum(w, b, u, c, out, zero)
    PROVE  /\ Read(u, Len(w.digits)) \in Nat /\ Read(u, Len(w.digits)) < Rank(Len(w.digits))
           /\ zero <=> Read(u, Len(w.digits)) < Rank(Bottom(b) - Bottom(w))
           /\ zero /\ out /\ Undone(w, b) => Exactly(w, b) >= Rank(Bottom(b) - Bottom(w))
<1>. DEFINE top == Top(w, b)
            d == w.digits
            L == Len(w.digits)
            m == Len(b.digits)
            k == Bottom(b) - Bottom(w)
            U == Read(u, L)
            Q == Exactly(w, b)
            z == Rank(L - top)
            H == Read(d, top)
            G == Read(u, top)
            oc == One(c)
<1>1. /\ c \in BOOLEAN /\ out \in BOOLEAN /\ zero \in BOOLEAN
      /\ (c <=> Over(w, b)) /\ (out <=> c \/ Nonzero(d, 1, top))
      /\ OneLess(u, d, top) /\ U = Q + (1 - oc + G - H) * z
      /\ (zero <=> \A i \in 1..(top + m) : u[i] = 0)
      /\ u \in Seq(Digit) /\ Len(u) = L
    BY DEF NegativeSum
<1>2. top \in Nat /\ L \in Nat /\ m \in Nat /\ top + m <= L /\ L - (top + m) = k
    <2>1. top = w.exp - b.exp
        BY DEF Top
    <2>2. /\ top \in Nat /\ L \in Nat /\ m \in Nat /\ top + m <= L /\ L - (top + m) = k
        BY <2>1, CoversIs
    <2>. HIDE DEF top, L, m, k
    <2>. QED BY <2>2
<1>. HIDE DEF top, d, L, m, k
<1>3. Digits(u, L)
    BY <1>1, <1>2, SeqRow
<1>4. U \in Nat /\ U < Rank(L)
    BY <1>2, <1>3, ReadBound
<1>5. zero <=> U < Rank(k)
    <2>. DEFINE p == top + m
    <2>1. p \in Nat /\ p <= L /\ L - p = k
        BY <1>2
    <2>. HIDE DEF p
    <2>2. U < Rank(L - p) <=> \A i \in 1..p : u[i] = 0
        BY <2>1, <1>2, <1>3, ZerosUpTo
    <2>3. zero <=> \A i \in 1..p : u[i] = 0
        BY <1>1 DEF p
    <2>. HIDE DEF U
    <2>. QED BY <2>1, <2>2, <2>3
<1>6. ASSUME zero, out, Undone(w, b) PROVE Q >= Rank(k)
    <2>1. top > 0 /\ Digits(d, top) /\ Digits(u, top) /\ G # H
        <3>1. top > 0
            BY <1>6 DEF Undone, top
        <3>. QED BY <3>1, <1>1, <1>2, OneLessDiffers
    <2>2. G = 0
        <3>1. \A i \in 1..top : i \in 1..(top + m)
            BY <1>2
        <3>2. \A i \in 1..top : u[i] = 0
            BY <3>1, <1>1, <1>6
        <3>. QED BY <3>2, <1>2, ReadZeros
    <2>3. H \in Nat /\ H # 0
        <3>1. H \in Nat
            BY <2>1, <1>2, ReadBound
        <3>. QED BY <3>1, <2>1, <2>2
    <2>4. One(out) = 1
        BY <1>6 DEF One
    <2>5. U # Q
        <3>1. ~(Read(u, Len(w.digits)) = Exactly(w, b) + (1 - One(out)) * Rank(Len(w.digits)))
            BY <1>6, NegativeSumRight
        <3>. DEFINE o == One(out)
                    rL == Rank(L)
        <3>2. ~(U = Q + (1 - o) * rL) /\ o = 1 /\ rL \in Nat /\ Q \in Int
            <4>1. rL \in Nat
                BY <1>2, RankNext
            <4>. QED BY <3>1, <4>1, <2>4, ExactlyInt DEF L
        <3>. HIDE DEF U, Q, o, rL
        <3>3. (1 - o) * rL = 0
            BY <3>2
        <3>. QED BY <3>2, <3>3
    <2>6. L - top = m + k /\ k \in Nat
        BY <1>2
    <2>7. /\ Rank(m) \in Nat /\ Rank(m) > 0 /\ Rank(k) \in Nat /\ Rank(k) > 0 /\ z = Rank(m) * Rank(k)
        BY <2>6, <1>2, RankNext, RankSum
    <2>8. oc \in 0..1
        BY DEF One
    <2>. DEFINE v == H + oc - 1
                rm == Rank(m)
                rk == Rank(k)
    <2>9. U = Q - v * z /\ v \in Nat /\ z = rm * rk /\ rm \in Nat /\ rm > 0 /\ rk \in Nat /\ rk > 0 /\ Q \in Int
        <3>1. U = Q + (1 - oc + 0 - H) * z
            BY <1>1, <2>2
        <3>2. Q \in Int
            BY ExactlyInt
        <3>3. z \in Int
            <4>. HIDE DEF rm, rk, z
            <4>. QED BY <2>7 DEF rm, rk
        <3>. HIDE DEF U, Q, z, oc, H
        <3>4. (1 - oc + 0 - H) * z = -(v * z) /\ v * z \in Int
            BY <2>3, <2>8, <3>3
        <3>5. U = Q - v * z
            BY <3>1, <3>2, <3>4
        <3>. QED BY <3>2, <3>5, <2>3, <2>7, <2>8 DEF z
    <2>. HIDE DEF U, Q, v, z, rm, rk
    <2>10. z \in Nat /\ z >= rk
        <3>1. rm * rk >= rk /\ rm * rk \in Nat
            BY <2>9
        <3>. QED BY <3>1, <2>9
    <2>11. v # 0
        <3>1. v = 0 => v * z = 0
            BY <2>10
        <3>. QED BY <3>1, <2>5, <2>9
    <2>12. v * z >= z /\ v * z \in Nat
        BY <2>9, <2>10, <2>11
    <2>13. Q >= rk
        BY <2>9, <2>10, <2>12, <1>4 DEF U
    <2>. QED BY <2>13 DEF Q, rk
<1>. QED BY <1>4, <1>5, <1>6 DEF L, k

(* What such a sum amounts to, in units of the lowest digit of w. *)
SumAmount(w, u, out, zero) ==
    IF w.neg /\ out /\ zero THEN -Rank(Len(w.digits))
    ELSE Read(u, Len(w.digits)) + (One(out) - 1 - One(w.neg)) * Rank(Len(w.digits))

LEMMA SumAmountIs ==
    ASSUME NEW w, NEW b, Covers(w, b), b.neg,
           NEW u, NEW c, NEW out, NEW zero, NegativeSum(w, b, u, c, out, zero),
           NEW s \in Int, Bottom(w) + s >= 0
    PROVE  Value(Padded(w, b), s) = SumAmount(w, u, out, zero) * Rank(Bottom(w) + s)
<1>. DEFINE y == Padded(w, b)
            v == Summed(w, u)
            L == Len(w.digits)
            U == Read(u, L)
            rL == Rank(L)
            o == One(out)
            A == SumAmount(w, u, out, zero)
<1>1. /\ u \in Seq(Digit) /\ Len(u) = L /\ out \in BOOLEAN /\ zero \in BOOLEAN
      /\ y = Carry(v, b, out, zero)
    BY DEF NegativeSum
<1>2. /\ w \in Numbers /\ b \in Numbers /\ L \in Nat /\ L > 0 /\ w.exp \in Int /\ w.neg \in BOOLEAN
      /\ Bottom(w) \in Int
    <2>1. w \in Numbers /\ b \in Numbers
        BY DEF Covers
    <2>2. w.exp - b.exp + 1 \in 1..L
        BY CoversIs
    <2>3. L \in Nat /\ w.exp \in Int /\ b.exp \in Int /\ w.neg \in BOOLEAN /\ Bottom(w) \in Int
        BY <2>1, NumberIs
    <2>. HIDE DEF L
    <2>. QED BY <2>1, <2>2, <2>3
<1>. HIDE DEF y, v
<1>3. /\ v \in Numbers /\ v.digits = u /\ v.neg = w.neg /\ v.exp = w.exp /\ Bottom(v) = Bottom(w)
      /\ Amount(v) = Read(u, Len(u)) - (IF w.neg THEN Rank(Len(u)) ELSE 0)
    BY <1>1, <1>2, SummedIs DEF v
<1>4. Len(v.digits) = L
    BY <1>1, <1>3
<1>. HIDE DEF L
<1>5. rL \in Nat /\ U \in Int /\ o \in Int /\ Amount(v) = U - (IF w.neg THEN rL ELSE 0)
    <2>1. rL \in Nat
        BY <1>2, RankNext
    <2>2. Row(u, L)
        BY <1>1, <1>2, SeqRow
    <2>3. U \in Int
        BY <2>2, <1>2, ReadInt
    <2>. QED BY <2>1, <2>3, <1>1, <1>3 DEF One
<1>6. ASSUME ~(w.neg /\ out /\ zero), Adds(y, v, (One(out) - 1) * Rank(Len(v.digits)))
      PROVE  Value(y, s) = A * Rank(Bottom(w) + s)
    <2>1. y \in Numbers /\ Bottom(y) = Bottom(w) /\ Amount(y) = Amount(v) + (o - 1) * rL
        BY <1>3, <1>4, <1>6 DEF Adds
    <2>. DEFINE n == One(w.neg)
    <2>2. A = U + (o - 1 - n) * rL
        BY <1>6 DEF SumAmount, L
    <2>3. n = (IF w.neg THEN 1 ELSE 0)
        BY DEF One
    <2>4. Amount(y) = A
        <3>. HIDE DEF o, rL, U, n, A
        <3>1. CASE w.neg
            <4>1. (o - 1 - 1) * rL = (o - 1) * rL - rL /\ (o - 1) * rL \in Int
                BY <1>5
            <4>2. n = 1 /\ Amount(v) = U - rL
                BY <3>1, <2>3, <1>5
            <4>. QED BY <4>1, <4>2, <2>1, <2>2, <1>5
        <3>2. CASE ~w.neg
            <4>1. n = 0 /\ Amount(v) = U /\ o - 1 - 0 = o - 1
                BY <3>2, <2>3, <1>5
            <4>. QED BY <4>1, <2>1, <2>2
        <3>. QED BY <3>1, <3>2
    <2>5. Value(y, s) = Amount(y) * Rank(Bottom(y) + s)
        BY <2>1, ValueIs
    <2>. QED BY <2>1, <2>4, <2>5
<1>7. CASE ~w.neg
    <2>1. Adds(Carry(v, b, out, zero), v, (One(out) - 1) * Rank(Len(v.digits)))
        BY <1>1, <1>2, <1>3, <1>4, <1>7, CarryNegative
    <2>. QED BY <2>1, <1>1, <1>6, <1>7 DEF y, A
<1>8. CASE w.neg
    <2>1. /\ y \in Numbers /\ Len(y.digits) > 0
          /\ ~(out /\ zero) => Adds(y, v, (One(out) - 1) * Rank(Len(v.digits)))
          /\ out /\ zero => y.exp = v.exp + 1 /\ y.neg /\ y.digits = << MAX >>
        <3>1. v.neg /\ Len(v.digits) > 0
            BY <1>2, <1>3, <1>4, <1>8
        <3>. QED BY <3>1, <1>1, <1>2, <1>3, CarryBoth
    <2>2. CASE ~(out /\ zero)
        BY <2>1, <2>2, <1>6 DEF y, A
    <2>3. CASE out /\ zero
        <3>1. y.exp = w.exp + 1 /\ y.neg /\ y.digits = << MAX >> /\ A = -rL
            BY <2>1, <2>3, <1>3, <1>8 DEF SumAmount, L
        <3>2. y.digits \in Seq(Digit) /\ Len(y.digits) = 1 /\ y.digits[1] = MAX
            <4>. DEFINE f == << MAX >>
            <4>1. Len(f) = 1 /\ f[1] = MAX /\ y.digits = f
                BY <3>1
            <4>2. y.digits \in Seq(Digit)
                BY <2>1, NumberIs
            <4>. HIDE DEF f
            <4>3. Len(y.digits) = 1 /\ y.digits[1] = MAX
                BY <4>1
            <4>. QED BY <4>2, <4>3
        <3>3. Read(y.digits, 1) = MAX
            <4>1. Row(y.digits, 0 + 1)
                BY <3>2, BaseIs DEF Row
            <4>2. Read(y.digits, 0 + 1) = Read(y.digits, 0) * Base + y.digits[0 + 1]
                BY <4>1, ReadNext
            <4>. QED BY <4>2, <3>2, ReadZero, BaseIs
        <3>4. Rank(1) = Base
            <4>1. Rank(0 + 1) = Base * Rank(0)
                BY RankNext
            <4>. QED BY <4>1, Ranks0, BaseIs
        <3>5. Amount(y) = -1
            <4>1. Amount(y) = MAX - Base
                BY <3>1, <3>2, <3>3, <3>4 DEF Amount
            <4>. QED BY <4>1, BaseIs
        <3>6. Bottom(y) + s = L + (Bottom(w) + s)
            <4>1. Bottom(w) = w.exp - L + 1
                BY DEF Bottom, L
            <4>2. Bottom(y) = w.exp + 1
                BY <3>1, <3>2, <1>2 DEF Bottom
            <4>. QED BY <4>1, <4>2, <1>2
        <3>7. Value(y, s) = (-1) * Rank(L + (Bottom(w) + s))
            BY <2>1, <3>5, <3>6, ValueIs
        <3>. DEFINE r == Rank(Bottom(w) + s)
        <3>8. Bottom(w) + s \in Nat
            BY <1>2
        <3>9. r \in Nat /\ Rank(L + (Bottom(w) + s)) = rL * r
            BY <3>8, <1>2, RankNext, RankSum
        <3>. HIDE DEF r, rL, A
        <3>10. (-1) * (rL * r) = (-rL) * r
            BY <3>9, <1>5
        <3>11. Value(y, s) = A * r
            BY <3>1, <3>7, <3>9, <3>10
        <3>. QED BY <3>11 DEF r, y, A
    <2>. QED BY <2>2, <2>3
<1>. QED BY <1>7, <1>8 DEF y, A

(* What the sum of w and a negative number should be. *)
LEMMA ExactlyValue ==
    ASSUME NEW w, NEW b, Covers(w, b), b.neg, NEW s \in Int, Bottom(w) + s >= 0
    PROVE  Value(w, s) + Value(b, s)
           = (Exactly(w, b) - One(w.neg) * Rank(Len(w.digits))) * Rank(Bottom(w) + s)
<1>. DEFINE k == Bottom(b) - Bottom(w)
            q == Bottom(w) + s
            R == Read(w.digits, Len(w.digits))
            B == Read(b.digits, Len(b.digits))
            rL == Rank(Len(w.digits))
            rm == Rank(Len(b.digits))
            rk == Rank(k)
            r == Rank(q)
            n == One(w.neg)
<1>1. /\ w \in Numbers /\ b \in Numbers /\ w.neg \in BOOLEAN /\ k \in Nat /\ q \in Nat
      /\ Bottom(b) + s = k + q
    <2>1. w \in Numbers /\ b \in Numbers /\ Bottom(w) <= Bottom(b)
        BY DEF Covers
    <2>. QED BY <2>1, NumberIs
<1>2. /\ R \in Int /\ B \in Int /\ Len(w.digits) \in Nat /\ Len(b.digits) \in Nat
    BY <1>1, NumberIs, ReadInt
<1>3. rL \in Nat /\ rm \in Nat
    BY <1>2, RankNext
<1>4. rk \in Nat /\ r \in Nat /\ Rank(k + q) = rk * r
    <2>. HIDE DEF k, q
    <2>. QED BY <1>1, RankNext, RankSum
<1>5. Value(w, s) = Amount(w) * r /\ Value(b, s) = Amount(b) * (rk * r)
    <2>1. Value(b, s) = Amount(b) * Rank(Bottom(b) + s)
        BY <1>1, ValueIs
    <2>. QED BY <2>1, <1>1, <1>4, ValueIs
<1>6. Amount(b) = B - rm /\ Amount(w) = R - (IF w.neg THEN rL ELSE 0) /\ n = (IF w.neg THEN 1 ELSE 0)
    BY DEF Amount, One
<1>7. Exactly(w, b) = R + (B - rm) * rk
    BY DEF Exactly
<1>. DEFINE V == Value(w, s)
            W == Value(b, s)
            Q == Exactly(w, b)
<1>8. V = Amount(w) * r /\ W = Amount(b) * (rk * r) /\ Q = R + (B - rm) * rk
    BY <1>5, <1>7
<1>. HIDE DEF R, B, rL, rm, rk, r, n, k, q, V, W, Q
<1>9. n * rL = (IF w.neg THEN rL ELSE 0)
    BY <1>3, <1>6
<1>10. Amount(w) = R - n * rL /\ n * rL \in Int
    BY <1>2, <1>3, <1>6, <1>9
<1>. DEFINE N == n * rL
            M == (B - rm) * rk
<1>11. N \in Int /\ M \in Int /\ V = (R - N) * r /\ W = M * r
    <2>1. (B - rm) * (rk * r) = ((B - rm) * rk) * r /\ (B - rm) * rk \in Int
        <3>1. B - rm \in Int
            BY <1>2, <1>3
        <3>. QED BY <3>1, <1>4
    <2>. QED BY <2>1, <1>6, <1>8, <1>10
<1>12. Q = R + M
    BY <1>8
<1>. HIDE DEF N, M
<1>13. /\ (R - N) * r = R * r - N * r /\ (R + M - N) * r = R * r + M * r - N * r
       /\ R * r \in Int /\ M * r \in Int /\ N * r \in Int
    BY <1>2, <1>4, <1>11
<1>14. V + W = (Q - N) * r
    <2>1. (Q - N) * r = (R + M - N) * r
        <3>1. Q - N = R + M - N
            BY <1>2, <1>11, <1>12
        <3>. QED BY <3>1
    <2>. DEFINE Y == (Q - N) * r
                I == R * r
                J == M * r
                K == N * r
    <2>2. V = I - K /\ W = J /\ Y = I + J - K /\ I \in Int /\ J \in Int /\ K \in Int
        BY <2>1, <1>11, <1>13
    <2>. HIDE DEF Y, I, J, K
    <2>3. V + W = Y
        BY <2>2
    <2>. QED BY <2>3 DEF Y
<1>. QED BY <1>14 DEF V, W, Q, N, n, rL, r, q

(* Two negative numbers whose sum is less than a unit of the lowest digit   *)
(* of b above minus the power beyond w are given as that power.             *)
Lost(w, b) ==
    w.neg /\ 0 < Exactly(w, b) /\ Exactly(w, b) < Rank(Bottom(b) - Bottom(w))

(* A negative number is added to one with places for its digits exactly     *)
(* unless it is undone or lost, and then it is not.                         *)
LEMMA PaddedNegativeIff ==
    ASSUME NEW w, NEW b, Covers(w, b), b.neg, NEW s \in Int, Bottom(w) + s >= 0
    PROVE  Value(Padded(w, b), s) = Value(w, s) + Value(b, s) <=> ~(Undone(w, b) \/ Lost(w, b))
<1>1. PICK u, c, out, zero : NegativeSum(w, b, u, c, out, zero)
    BY NegativeSumIs
<1>. DEFINE L == Len(w.digits)
            U == Read(u, L)
            Q == Exactly(w, b)
            rL == Rank(L)
            rk == Rank(Bottom(b) - Bottom(w))
            r == Rank(Bottom(w) + s)
            o == One(out)
            n == One(w.neg)
            A == SumAmount(w, u, out, zero)
            und == Undone(w, b)
            lost == Lost(w, b)
            V == Value(Padded(w, b), s)
            W == Value(w, s) + Value(b, s)
<1>2. U = Q + (1 - o) * rL <=> ~und
    BY <1>1, NegativeSumRight
<1>3. U \in Nat /\ U < rL /\ (zero <=> U < rk) /\ (zero /\ out /\ und => Q >= rk)
    BY <1>1, NegativeSumZero
<1>4. V = A * r /\ W = (Q - n * rL) * r
    BY <1>1, SumAmountIs, ExactlyValue
<1>5. A = IF w.neg /\ out /\ zero THEN -rL ELSE U + (o - 1 - n) * rL
    BY DEF SumAmount
<1>6. lost <=> w.neg /\ 0 < Q /\ Q < rk
    BY DEF Lost
<1>7. o = (IF out THEN 1 ELSE 0) /\ n = (IF w.neg THEN 1 ELSE 0)
    BY DEF One
<1>8. /\ Q \in Int /\ w.neg \in BOOLEAN /\ out \in BOOLEAN /\ zero \in BOOLEAN
      /\ und \in BOOLEAN /\ lost \in BOOLEAN
    <2>1. w \in Numbers
        BY DEF Covers
    <2>2. out \in BOOLEAN /\ zero \in BOOLEAN
        BY <1>1 DEF NegativeSum
    <2>3. und \in BOOLEAN /\ lost \in BOOLEAN
        BY DEF Undone, Lost
    <2>. QED BY <2>1, <2>2, <2>3, NumberIs, ExactlyInt
<1>9. rL \in Nat /\ rk \in Nat /\ rk > 0 /\ r \in Nat /\ r > 0
    <2>1. w \in Numbers /\ b \in Numbers /\ Bottom(w) <= Bottom(b)
        BY DEF Covers
    <2>2. L \in Nat /\ Bottom(b) - Bottom(w) \in Nat /\ Bottom(w) + s \in Nat
        BY <2>1, NumberIs
    <2>3. rL \in Nat
        BY <2>2, RankNext
    <2>4. rk \in Nat /\ rk > 0
        BY <2>2, RankNext
    <2>5. r \in Nat /\ r > 0
        BY <2>2, RankNext
    <2>. QED BY <2>3, <2>4, <2>5
<1>. HIDE DEF U, Q, rL, rk, r, o, n, A, und, lost, V, W
<1>10. /\ (1 - o) * rL = (IF out THEN 0 ELSE rL)
       /\ n * rL = (IF w.neg THEN rL ELSE 0)
       /\ (o - 1 - n) * rL = (IF out THEN 0 ELSE -rL) - (IF w.neg THEN rL ELSE 0)
    <2>1. CASE out /\ w.neg
        <3>1. o = 1 /\ n = 1
            BY <1>7, <2>1
        <3>. QED BY <3>1, <2>1, <1>9
    <2>2. CASE out /\ ~w.neg
        <3>1. o = 1 /\ n = 0
            BY <1>7, <2>2
        <3>. QED BY <3>1, <2>2, <1>9
    <2>3. CASE ~out /\ w.neg
        <3>1. o = 0 /\ n = 1
            BY <1>7, <2>3
        <3>. QED BY <3>1, <2>3, <1>9
    <2>4. CASE ~out /\ ~w.neg
        <3>1. o = 0 /\ n = 0
            BY <1>7, <2>4
        <3>. QED BY <3>1, <2>4, <1>9
    <2>. QED BY <2>1, <2>2, <2>3, <2>4
<1>. DEFINE T == Q - n * rL
<1>11. A \in Int /\ T \in Int
    BY <1>3, <1>5, <1>8, <1>9, <1>10
<1>12. V = W <=> A = T
    <2>1. V = A * r /\ W = T * r
        BY <1>4
    <2>. HIDE DEF T
    <2>2. (A - T) * r = A * r - T * r /\ A * r \in Int /\ T * r \in Int
        BY <1>9, <1>11
    <2>3. A # T => (A - T) * r # 0
        BY <1>9, <1>11
    <2>. QED BY <2>1, <2>2, <2>3
<1>13. A = T <=> ~(und \/ lost)
    <2>1. ASSUME ~w.neg PROVE A = T <=> ~(und \/ lost)
        <3>1. ~lost
            BY <2>1, <1>6
        <3>2. A = U + (IF out THEN 0 ELSE -rL) /\ T = Q /\ (U = Q + (IF out THEN 0 ELSE rL) <=> ~und)
            BY <2>1, <1>2, <1>3, <1>5, <1>8, <1>9, <1>10
        <3>3. A = T <=> U = Q + (IF out THEN 0 ELSE rL)
            BY <3>2, <1>3, <1>8, <1>9
        <3>. QED BY <3>1, <3>2, <3>3
    <2>2. ASSUME w.neg, ~(out /\ zero) PROVE A = T <=> ~(und \/ lost)
        <3>1. /\ A = U + (IF out THEN 0 ELSE -rL) - rL /\ T = Q - rL
              /\ (U = Q + (IF out THEN 0 ELSE rL) <=> ~und)
            BY <2>2, <1>2, <1>3, <1>5, <1>8, <1>9, <1>10
        <3>2. A = T <=> U = Q + (IF out THEN 0 ELSE rL)
            BY <3>1, <1>3, <1>8, <1>9
        <3>3. U = Q + (IF out THEN 0 ELSE rL) => ~(0 < Q /\ Q < rk)
            BY <2>2, <1>3, <1>8, <1>9
        <3>4. lost => 0 < Q /\ Q < rk
            BY <1>6
        <3>. QED BY <3>1, <3>2, <3>3, <3>4
    <2>3. ASSUME w.neg, out, zero PROVE A = T <=> ~(und \/ lost)
        <3>1. A = -rL /\ T = Q - rL /\ (U = Q + 0 <=> ~und)
            BY <2>3, <1>2, <1>5, <1>10
        <3>2. A = T <=> Q = 0
            BY <3>1, <1>8, <1>9
        <3>3. U < rk /\ (und => Q >= rk)
            BY <2>3, <1>3
        <3>4. ASSUME und PROVE Q # 0
            BY <3>3, <3>4, <1>8, <1>9
        <3>5. ASSUME ~und PROVE Q = 0 <=> ~(0 < Q /\ Q < rk)
            <4>1. U = Q
                BY <3>1, <3>5, <1>8
            <4>. QED BY <4>1, <3>3, <1>3, <1>8, <1>9
        <3>6. lost <=> 0 < Q /\ Q < rk
            BY <2>3, <1>6
        <3>. QED BY <3>2, <3>4, <3>5, <3>6
    <2>. QED BY <2>1, <2>2, <2>3
<1>. QED BY <1>12, <1>13 DEF V, W, und, lost

(* The value of a sum is that of the padded one. *)
LEMMA PlusPadded ==
    ASSUME NEW a \in Numbers, NEW b \in Numbers, Len(b.digits) > 0, NEW w, w = pad(a, b.exp, Bottom(b)),
           NEW s \in Int, Bottom(a) + s >= 0, Bottom(b) + s >= 0
    PROVE  /\ Covers(w, b) /\ Bottom(w) + s >= 0
           /\ Value(Plus(a, b), s) = Value(Padded(w, b), s)
<1>. DEFINE y == Padded(w, b)
<1>1. Plus(a, b) = trim(y)
    BY DEF Plus, Bottom
<1>2. Covers(w, b) /\ Bottom(w) = Least(Bottom(a), Bottom(b))
    BY PlusCovers
<1>3. Bottom(w) + s >= 0 /\ Bottom(w) \in Int
    BY <1>2, NumberIs DEF Least, Covers
<1>4. y \in Numbers /\ Len(y.digits) > 0 /\ Bottom(y) >= Bottom(w)
    BY <1>2, PaddedNumber
<1>. HIDE DEF y
<1>5. Value(trim(y), s) = Value(y, s)
    <2>1. Bottom(y) + s >= 0
        BY <1>3, <1>4, NumberIs
    <2>. QED BY <2>1, <1>4, TrimValue
<1>. QED BY <1>1, <1>2, <1>3, <1>5 DEF y

(* pad() puts the digits at the places of their ranks. *)
LEMMA PaddedDigits ==
    ASSUME NEW a \in Numbers, NEW b \in Numbers, NEW w, Widens(w, a, Front(a, b.exp), Back(a, Bottom(b))),
           a.exp > b.exp
    PROVE  /\ w.exp = a.exp
           /\ \A i \in 1..Len(w.digits) : w.digits[i] = DigitAt(a, a.exp - i + 1)
<1>. DEFINE l == Len(a.digits)
            k == Back(a, Bottom(b))
<1>1. a.exp \in Int /\ b.exp \in Int /\ l \in Nat /\ DOMAIN a.digits = 1..l
    BY NumberIs
<1>2. Front(a, b.exp) = 0
    BY <1>1 DEF Front
<1>3. /\ k \in Nat /\ w.exp = a.exp + 0 /\ Len(w.digits) = 0 + l + k
      /\ \A i \in 1..l : w.digits[0 + i] = a.digits[i]
      /\ \A i \in 1..k : w.digits[0 + l + i] = 0
    BY <1>2 DEF Widens
<1>. HIDE DEF l, k
<1>4. ASSUME NEW i \in 1..Len(w.digits) PROVE w.digits[i] = DigitAt(a, a.exp - i + 1)
    <2>1. i \in 1..(l + k) /\ a.exp - (a.exp - i + 1) + 1 = i
        BY <1>1, <1>3
    <2>2. DigitAt(a, a.exp - i + 1) = IF i \in 1..l THEN a.digits[i] ELSE 0
        BY <2>1, <1>1 DEF DigitAt
    <2>3. CASE i \in 1..l
        <3>1. w.digits[0 + i] = a.digits[i] /\ 0 + i = i
            BY <2>3, <1>3
        <3>. QED BY <2>2, <2>3, <3>1
    <2>4. CASE i \notin 1..l
        <3>1. i - l \in 1..k /\ 0 + l + (i - l) = i
            BY <2>1, <2>4, <1>1, <1>3
        <3>2. w.digits[0 + l + (i - l)] = 0
            BY <3>1, <1>3
        <3>. QED BY <2>2, <2>4, <3>1, <3>2
    <2>. QED BY <2>3, <2>4
<1>5. w.exp = a.exp
    BY <1>1, <1>3
<1>. QED BY <1>4, <1>5

(* Digits are undone where they are wrongly decremented, *)
LEMMA UndoneIs ==
    ASSUME NEW a \in Numbers, NEW b \in Numbers, b.neg, NEW w, Covers(w, b),
           Widens(w, a, Front(a, b.exp), Back(a, Bottom(b)))
    PROVE  Undone(w, b) <=> WronglyDecremented(a, b)
<1>1. a.exp \in Int /\ b.exp \in Int /\ w.exp = a.exp + Front(a, b.exp)
    BY NumberIs DEF Widens
<1>2. CASE ~(a.exp > b.exp)
    <2>1. Top(w, b) = 0
        BY <1>1, <1>2 DEF Top, Front
    <2>2. ~Undone(w, b)
        BY <2>1 DEF Undone
    <2>. QED BY <2>2, <1>2 DEF WronglyDecremented
<1>3. CASE a.exp > b.exp
    <2>. DEFINE top == Top(w, b)
                L == Len(w.digits)
                m == Len(b.digits)
    <2>1. w.exp = a.exp /\ \A i \in 1..L : w.digits[i] = DigitAt(a, a.exp - i + 1)
        BY <1>3, PaddedDigits
    <2>2. /\ top \in Nat /\ top = a.exp - b.exp /\ top > 0
          /\ L \in Nat /\ m \in Nat /\ top + m <= L
        <3>1. top = w.exp - b.exp
            BY DEF Top
        <3>2. L \in Nat /\ m \in Nat /\ top + m <= L
            BY <3>1, CoversIs
        <3>3. top \in Nat /\ top = a.exp - b.exp /\ top > 0
            BY <3>1, <2>1, <1>1, <1>3
        <3>. HIDE DEF top, L, m
        <3>. QED BY <3>2, <3>3
    <2>3. Over(w, b) <=> CarriesOver(a, b)
        <3>1. DOMAIN b.digits = 1..m
            BY NumberIs
        <3>2. ASSUME NEW i \in 1..m PROVE w.digits[w.exp - b.exp + i] = DigitAt(a, b.exp - i + 1)
            <4>1. top + i \in 1..L /\ a.exp - (top + i) + 1 = b.exp - i + 1 /\ w.exp - b.exp + i = top + i
                <5>. HIDE DEF top, L, m
                <5>. QED BY <2>1, <2>2, <1>1
            <4>2. w.digits[top + i] = DigitAt(a, a.exp - (top + i) + 1)
                BY <4>1, <2>1
            <4>. QED BY <4>1, <4>2
        <3>3. Beside(w, b) = Meeting(a, b)
            BY <3>1, <3>2 DEF Beside, Meeting
        <3>. QED BY <3>3 DEF Over, CarriesOver, Rank
    <2>4. Nonzero(w.digits, 2, top) <=> \E e \in (b.exp + 1)..(a.exp - 1) : DigitAt(a, e) # 0
        <3>. HIDE DEF top, L, m
        <3>1. ASSUME NEW i \in 2..top, w.digits[i] # 0
              PROVE  \E e \in (b.exp + 1)..(a.exp - 1) : DigitAt(a, e) # 0
            <4>1. i \in 1..L /\ a.exp - i + 1 \in (b.exp + 1)..(a.exp - 1)
                BY <2>2, <1>1
            <4>. QED BY <4>1, <3>1, <2>1
        <3>2. ASSUME NEW e \in (b.exp + 1)..(a.exp - 1), DigitAt(a, e) # 0
              PROVE  \E i \in 2..top : w.digits[i] # 0
            <4>. DEFINE i == a.exp - e + 1
            <4>1. i \in 1..L /\ i \in 2..top /\ a.exp - i + 1 = e
                BY <2>2, <1>1
            <4>2. w.digits[i] # 0
                BY <4>1, <3>2, <2>1
            <4>. QED BY <4>1, <4>2
        <3>. QED BY <3>1, <3>2 DEF Nonzero
    <2>. QED BY <2>2, <2>3, <2>4, <1>3 DEF Undone, WronglyDecremented
<1>. QED BY <1>2, <1>3

(* and lost where they are cut off. *)
LEMMA LostIs ==
    ASSUME NEW a \in Numbers, NEW b \in Numbers, b.neg, NEW w, Covers(w, b),
           Widens(w, a, Front(a, b.exp), Back(a, Bottom(b))), Bottom(w) + Scale >= 0
    PROVE  Lost(w, b) <=> CutOff(a, b)
<1>. DEFINE k == Bottom(b) - Bottom(w)
            q == Bottom(w) + Scale
            L == Len(w.digits)
            Q == Exactly(w, b)
            r == Rank(q)
            rL == Rank(L)
            rk == Rank(k)
            n == One(w.neg)
            S == Value(a, Scale) + Value(b, Scale)
            e == Max({a.exp, b.exp}) + 1 + Scale
            f == b.exp - Len(b.digits) + 1 + Scale
<1>1. Scale \in Nat /\ Scale \in Int
    BY DigitalAssumption
<1>2. /\ w \in Numbers /\ L \in Nat /\ a.exp \in Int /\ b.exp \in Int /\ Len(b.digits) \in Nat
      /\ Bottom(w) \in Int /\ Bottom(b) \in Int /\ Bottom(w) <= Bottom(b)
      /\ w.exp = a.exp + Front(a, b.exp) /\ w.neg = a.neg /\ w.neg \in BOOLEAN
    BY NumberIs DEF Widens, Covers
<1>3. k \in Nat /\ q \in Nat /\ f = k + q /\ e = L + q
    <2>1. Bottom(w) = w.exp - L + 1 /\ Bottom(b) = b.exp - Len(b.digits) + 1
        BY DEF Bottom
    <2>2. Max({a.exp, b.exp}) = w.exp
        <3>1. Max({a.exp, b.exp}) = IF a.exp > b.exp THEN a.exp ELSE b.exp
            BY <1>2, LargerOf
        <3>. QED BY <3>1, <1>2 DEF Front
    <2>3. w.exp \in Int
        BY <1>2, NumberIs
    <2>. HIDE DEF L
    <2>4. k \in Nat /\ q \in Nat
        BY <1>1, <1>2
    <2>5. f = k + q
        BY <2>1, <1>1, <1>2
    <2>6. e = L + q
        BY <2>1, <2>2, <2>3, <1>1, <1>2
    <2>. QED BY <2>4, <2>5, <2>6
<1>4. /\ r \in Nat /\ r > 0 /\ rL \in Nat /\ rk \in Nat /\ Rank(e) = rL * r /\ Rank(f) = rk * r
    <2>. HIDE DEF k, q, L, e, f
    <2>. QED BY <1>2, <1>3, RankNext, RankSum
<1>5. S = (Q - n * rL) * r
    <2>1. Value(w, Scale) = Value(a, Scale)
        BY <1>1, SameValue
    <2>2. Value(w, Scale) + Value(b, Scale) = (Q - n * rL) * r
        BY <1>1, ExactlyValue
    <2>. QED BY <2>1, <2>2
<1>6. Lost(w, b) <=> w.neg /\ 0 < Q /\ Q < rk
    BY DEF Lost
<1>7. CutOff(a, b) <=> w.neg /\ -(rL * r) < S /\ S < rk * r - rL * r
    BY <1>2, <1>4 DEF CutOff, Rank
<1>8. Q \in Int /\ n = (IF w.neg THEN 1 ELSE 0)
    BY ExactlyInt DEF One
<1>. HIDE DEF k, q, L, Q, r, rL, rk, n, S, e, f
<1>9. ASSUME w.neg PROVE (0 < Q /\ Q < rk) <=> (-(rL * r) < S /\ S < rk * r - rL * r)
    <2>1. S = (Q - rL) * r
        <3>1. n * rL = rL
            BY <1>4, <1>8, <1>9
        <3>. QED BY <3>1, <1>5
    <2>2. (Q - rL) * r = Q * r - rL * r /\ Q * r \in Int /\ rL * r \in Int /\ rk * r \in Int
        BY <1>4, <1>8
    <2>3. 0 < Q <=> 0 < Q * r
        BY <1>4, <1>8
    <2>4. Q < rk <=> Q * r < rk * r
        <3>1. (rk - Q) * r = rk * r - Q * r
            BY <1>4, <1>8
        <3>2. 0 < rk - Q <=> 0 < (rk - Q) * r
            BY <1>4, <1>8
        <3>3. 0 < rk - Q <=> Q < rk
            BY <1>4, <1>8
        <3>. DEFINE Y == (rk - Q) * r
                    I == rk * r
                    J == Q * r
        <3>4. Y = I - J /\ I \in Int /\ J \in Int
            BY <2>2, <3>1
        <3>. HIDE DEF Y, I, J
        <3>5. 0 < Y <=> J < I
            BY <3>4
        <3>. QED BY <3>2, <3>3, <3>5 DEF Y, I, J
    <2>. DEFINE I == rk * r
                J == Q * r
                K == rL * r
    <2>5. S = J - K /\ I \in Int /\ J \in Int /\ K \in Int /\ (0 < Q <=> 0 < J) /\ (Q < rk <=> J < I)
        BY <2>1, <2>2, <2>3, <2>4
    <2>. HIDE DEF I, J, K
    <2>6. (0 < J <=> -K < S) /\ (J < I <=> S < I - K)
        BY <2>5
    <2>. QED BY <2>5, <2>6 DEF I, J, K
<1>. QED BY <1>6, <1>7, <1>9

(* Minus a power of the base extended by zeros is minus the power beyond    *)
(* the other number, and to that the sum is exact.                          *)
LEMMA ExtendedIs ==
    ASSUME NEW a, Trimmed(a), NEW b \in Numbers, Len(b.digits) > 0, WronglyExtended(a, b),
           NEW w, w = pad(a, b.exp, Bottom(b)), Covers(w, b), NEW s \in Int, Bottom(w) + s >= 0
    PROVE  /\ Bottom(w) <= Bottom(a) /\ Value(w, s) # Value(a, s)
           /\ Value(Padded(w, b), s) = Value(w, s) + Value(b, s)
<1>. DEFINE L == Len(w.digits)
            l == Len(a.digits)
            k == Back(a, Bottom(b))
            g == Front(a, b.exp)
<1>1. /\ a \in Numbers /\ l > 0 /\ a.neg /\ Last(a.digits) = 0 /\ a.exp < b.exp
      /\ (l > 1 => Last(a.digits) # 0)
    BY TrimmedIs DEF WronglyExtended, SignAlone, Trimmed
<1>2. /\ a.exp \in Int /\ b.exp \in Int /\ Bottom(a) \in Int /\ Bottom(b) \in Int /\ l \in Nat
      /\ a.digits \in Seq(Digit)
    BY <1>1, NumberIs
<1>3. l = 1 /\ a.digits[1] = 0
    <2>1. l = 1
        <3>. HIDE DEF l
        <3>. QED BY <1>1, <1>2
    <2>. QED BY <2>1, <1>1 DEF Last
<1>4. a.digits = << 0 >>
    <2>1. a.digits \in Seq(Digit) /\ Len(a.digits) = 1
        BY <1>2, <1>3
    <2>. QED BY <2>1, <1>3
<1>5. /\ w \in Numbers /\ w.neg /\ w.exp = a.exp + g /\ g \in Nat /\ k \in Nat
      /\ L = g + l + k /\ Bottom(w) = Bottom(a) - k
      /\ \A i \in 1..g : w.digits[i] = Sign(a)
      /\ \A i \in 1..l : w.digits[g + i] = a.digits[i]
      /\ \A i \in 1..k : w.digits[g + l + i] = 0
    <2>1. Pads(w, a, b.exp, Bottom(b))
        BY <1>1, <1>2, Paddings
    <2>. QED BY <2>1, <1>1 DEF Pads
<1>6. Sign(a) = 0
    BY <1>1 DEF Sign
<1>7. w.exp = b.exp /\ Bottom(w) <= Bottom(a)
    <2>1. g = b.exp - a.exp
        BY <1>1 DEF Front
    <2>. HIDE DEF g, k
    <2>2. w.exp = a.exp + g /\ Bottom(w) = Bottom(a) - k /\ k \in Nat
        BY <1>5
    <2>3. w.exp = b.exp
        BY <2>1, <2>2, <1>2
    <2>4. Bottom(w) <= Bottom(a)
        BY <2>2, <1>2
    <2>. QED BY <2>3, <2>4
<1>8. \A i \in 1..L : w.digits[i] = 0
    <2>. HIDE DEF g, k, l, L
    <2>1. ASSUME NEW i \in 1..L PROVE w.digits[i] = 0
        <3>1. i \in 1..g \/ i = g + 1 \/ i - g - l \in 1..k
            BY <1>3, <1>5
        <3>2. CASE i \in 1..g
            BY <3>2, <1>5, <1>6
        <3>3. CASE i = g + 1
            BY <3>3, <1>3, <1>5
        <3>4. CASE i - g - l \in 1..k
            <4>1. g + l + (i - g - l) = i
                BY <1>3, <1>5
            <4>. QED BY <3>4, <4>1, <1>5
        <3>. QED BY <3>1, <3>2, <3>3, <3>4
    <2>. QED BY <2>1
<1>9. L \in Nat /\ L > 0 /\ Bottom(w) \in Int /\ Read(w.digits, L) = 0
    <2>1. L \in Nat /\ L > 0 /\ Bottom(w) \in Int
        <3>1. Bottom(w) \in Int
            BY <1>5, NumberIs
        <3>. HIDE DEF L, g, k, l
        <3>. QED BY <3>1, <1>3, <1>5
    <2>. HIDE DEF L
    <2>. QED BY <2>1, <1>8, ReadZeros
<1>10. Value(w, s) = -Rank(b.exp + 1 + s)
    <2>. DEFINE q == Bottom(w) + s
    <2>1. Amount(w) = 0 - Rank(L)
        BY <1>5, <1>9 DEF Amount
    <2>2. q \in Nat /\ L + q = b.exp + 1 + s
        <3>1. Bottom(w) = w.exp - L + 1
            BY DEF Bottom
        <3>. HIDE DEF L
        <3>. QED BY <3>1, <1>2, <1>7, <1>9, SMTT(30)
    <2>3. Value(w, s) = Amount(w) * Rank(q)
        BY <1>5, ValueIs
    <2>. HIDE DEF L, q
    <2>4. Rank(L) \in Nat /\ Rank(q) \in Nat /\ Rank(L + q) = Rank(L) * Rank(q)
        BY <2>2, <1>9, RankNext, RankSum
    <2>. DEFINE A == Rank(L)
                B == Rank(q)
    <2>5. (0 - A) * B = -(A * B)
        <3>. HIDE DEF A, B
        <3>1. A \in Nat /\ B \in Nat
            BY <2>4 DEF A, B
        <3>. QED BY <3>1
    <2>. QED BY <2>1, <2>2, <2>3, <2>4, <2>5
<1>11. Value(w, s) # Value(a, s)
    <2>1. Bottom(a) + s >= 0
        BY <1>2, <1>7, <1>9
    <2>2. a.exp + 1 + s \in Nat /\ Value(a, s) = -Rank(a.exp + 1 + s)
        BY <1>1, <1>4, <2>1, NegativeRange
    <2>. DEFINE m == a.exp + 1 + s
                n == b.exp + 1 + s
    <2>3. m \in Nat /\ n \in Nat /\ m < n
        BY <2>2, <1>1, <1>2, SMTT(30)
    <2>. HIDE DEF m, n
    <2>4. Rank(m) < Rank(n) /\ Rank(m) \in Nat /\ Rank(n) \in Nat
        BY <2>3, RankStrict
    <2>5. -Rank(m) # -Rank(n)
        BY <2>4
    <2>. QED BY <2>2, <2>5, <1>10 DEF m, n
<1>12. Value(Padded(w, b), s) = Value(w, s) + Value(b, s)
    <2>1. CASE ~b.neg
        <3>1. Adds(Padded(w, b), w, Amount(b) * Rank(Bottom(b) - Bottom(w)))
            BY <2>1, PaddedPositive
        <3>2. Amount(b) \in Int /\ Bottom(b) >= Bottom(w)
            BY NumberIs DEF Covers
        <3>3. Value(Padded(w, b), s) = Value(w, s) + Amount(b) * Rank(Bottom(b) + s)
            BY <3>1, <3>2, <1>2, <1>5, AddsValue
        <3>. QED BY <3>3, ValueIs
    <2>2. CASE b.neg
        <3>1. Top(w, b) = 0
            BY <1>2, <1>7 DEF Top
        <3>2. ~Undone(w, b)
            BY <3>1 DEF Undone
        <3>3. Exactly(w, b) = Amount(b) * Rank(Bottom(b) - Bottom(w))
            <4>. DEFINE A == Amount(b)
                        r == Rank(Bottom(b) - Bottom(w))
            <4>1. Exactly(w, b) = 0 + A * r
                BY <2>2, <1>9 DEF Exactly, Amount
            <4>2. A \in Int /\ r \in Int
                <5>1. Bottom(b) - Bottom(w) \in Nat
                    BY <1>2, <1>9 DEF Covers
                <5>2. r \in Nat
                    BY <5>1, RankNext
                <5>. QED BY <5>2, NumberIs
            <4>. HIDE DEF A, r
            <4>3. Exactly(w, b) = A * r
                BY <4>1, <4>2
            <4>. QED BY <4>3 DEF A, r
        <3>4. ~Lost(w, b)
            <4>. DEFINE A == Amount(b)
                        r == Rank(Bottom(b) - Bottom(w))
            <4>1. A \in Int /\ A < 0
                BY <2>2, NumberIs, Negative
            <4>2. r \in Nat
                <5>1. Bottom(b) - Bottom(w) \in Nat
                    BY <1>2, <1>9 DEF Covers
                <5>. QED BY <5>1, RankNext
            <4>. HIDE DEF A, r
            <4>3. ~(0 < A * r)
                BY <4>1, <4>2
            <4>. QED BY <3>3, <4>3 DEF Lost, A, r
        <3>. QED BY <2>2, <3>2, <3>4, PaddedNegativeIff
    <2>. QED BY <2>1, <2>2
<1>. QED BY <1>7, <1>11, <1>12

(* A sum of trimmed numbers is exact but where the code goes wrong, and     *)
(* there it never is.                                                       *)
LEMMA SumIff ==
    ASSUME NEW a, Trimmed(a), NEW b, Trimmed(b), Bottom(a) + Scale >= 0, Bottom(b) + Scale >= 0
    PROVE  Value(Plus(a, b), Scale) = Value(a, Scale) + Value(b, Scale)
           <=> ~(WronglyExtended(a, b) \/ WronglyDecremented(a, b) \/ CutOff(a, b))
<1>. DEFINE w == pad(a, b.exp, Bottom(b))
            y == Padded(w, b)
<1>1. a \in Numbers /\ b \in Numbers /\ Len(a.digits) > 0 /\ Len(b.digits) > 0
    BY TrimmedIs
<1>2. Scale \in Int
    BY DigitalAssumption
<1>3. w = pad(a, b.exp, Bottom(b))
    OBVIOUS
<1>. HIDE DEF w
<1>4. /\ Covers(w, b) /\ Bottom(w) + Scale >= 0 /\ Value(Plus(a, b), Scale) = Value(y, Scale)
    BY <1>1, <1>2, <1>3, PlusPadded
<1>5. /\ Value(a, Scale) \in Int /\ Value(b, Scale) \in Int /\ Value(w, Scale) \in Int
    <2>1. w \in Numbers
        BY <1>4 DEF Covers
    <2>. QED BY <2>1, <1>1, <1>2, <1>4, ValueInt
<1>6. CASE WronglyExtended(a, b)
    <2>1. /\ Value(w, Scale) # Value(a, Scale)
          /\ Value(y, Scale) = Value(w, Scale) + Value(b, Scale)
        BY <1>1, <1>2, <1>3, <1>4, <1>6, ExtendedIs
    <2>. HIDE DEF y
    <2>. DEFINE A == Value(a, Scale)
                B == Value(b, Scale)
                W == Value(w, Scale)
    <2>2. A \in Int /\ B \in Int /\ W \in Int /\ W # A /\ Value(Plus(a, b), Scale) = W + B
        BY <2>1, <1>4, <1>5
    <2>. HIDE DEF A, B, W
    <2>3. W + B # A + B
        BY <2>2
    <2>. QED BY <2>2, <2>3, <1>6 DEF A, B
<1>7. CASE ~WronglyExtended(a, b)
    <2>1. Widens(w, a, Front(a, b.exp), Back(a, Bottom(b)))
        <3>1. b.exp \in Int /\ Bottom(b) \in Int
            BY <1>1, NumberIs
        <3>. QED BY <3>1, <1>1, <1>3, <1>7, PadWidens DEF WronglyExtended
    <2>2. Value(w, Scale) = Value(a, Scale)
        BY <2>1, <1>2, <1>4, SameValue
    <2>3. CASE ~b.neg
        <3>1. ~WronglyDecremented(a, b) /\ ~CutOff(a, b)
            BY <2>3 DEF WronglyDecremented, CutOff
        <3>2. Summable(a, b)
            BY <2>3, <1>7 DEF Summable, WronglyExtended
        <3>3. Value(Plus(a, b), Scale) = Value(a, Scale) + Value(b, Scale)
            BY <3>2, <1>1, <1>2, PlusValue
        <3>. QED BY <3>1, <3>3, <1>7
    <2>4. CASE b.neg
        <3>1. Value(y, Scale) = Value(w, Scale) + Value(b, Scale) <=> ~(Undone(w, b) \/ Lost(w, b))
            BY <2>4, <1>2, <1>4, PaddedNegativeIff
        <3>2. Undone(w, b) <=> WronglyDecremented(a, b)
            BY <2>1, <2>4, <1>1, <1>4, UndoneIs
        <3>3. Lost(w, b) <=> CutOff(a, b)
            BY <2>1, <2>4, <1>1, <1>4, LostIs
        <3>. QED BY <3>1, <3>2, <3>3, <2>2, <1>4, <1>7
    <2>. QED BY <2>3, <2>4
<1>. QED BY <1>6, <1>7

-------------------------------------------------------------------------------
(* The products of all pairs of digits *)

(* A digit added to a number that is not negative leaves one that is not. *)
LEMMA AddAtPositive ==
    ASSUME NEW a \in Numbers, ~a.neg, NEW k \in Digit, NEW e \in Int
    PROVE  /\ AddAt(a, k, e) \in Numbers /\ ~AddAt(a, k, e).neg /\ Len(AddAt(a, k, e).digits) > 0
           /\ Bottom(AddAt(a, k, e)) = (IF Bottom(a) > e THEN e ELSE Bottom(a))
           /\ \A s \in Int : Bottom(a) + s >= 0 /\ e + s >= 0
                 => Value(AddAt(a, k, e), s) = Value(a, s) + k * Rank(e + s)
<1>. DEFINE y == AddAt(a, k, e)
<1>1. /\ y \in Numbers /\ Len(y.digits) > 0
      /\ Bottom(y) = (IF Bottom(a) > e THEN e ELSE Bottom(a))
    BY AddAtValue
<1>2. ASSUME NEW s \in Int, Bottom(a) + s >= 0, e + s >= 0
      PROVE  Value(y, s) = Value(a, s) + k * Rank(e + s)
    <2>1. ~SignAlone(a)
        BY DEF SignAlone
    <2>. QED BY <1>2, <2>1, AddAtValue
<1>. HIDE DEF y
<1>3. Bottom(a) \in Int /\ Bottom(y) \in Int /\ k \in Nat
    <2>1. Bottom(a) \in Int
        BY NumberIs
    <2>2. Bottom(y) \in Int
        BY <1>1, NumberIs
    <2>. QED BY <2>1, <2>2, BaseIs
<1>. DEFINE s == IF Bottom(a) > e THEN -e ELSE -Bottom(a)
<1>4. s \in Int /\ Bottom(a) + s >= 0 /\ e + s >= 0 /\ Bottom(y) + s >= 0 /\ e + s \in Nat
    BY <1>1, <1>3
<1>. HIDE DEF s
<1>5. Value(y, s) = Value(a, s) + k * Rank(e + s)
    BY <1>2, <1>4
<1>6. Value(a, s) \in Int /\ Value(a, s) >= 0
    BY <1>4, ValueSign
<1>7. Rank(e + s) \in Nat
    BY <1>4, RankNext
<1>8. k * Rank(e + s) \in Nat
    BY <1>3, <1>7
<1>9. Value(y, s) >= 0
    BY <1>5, <1>6, <1>8
<1>10. y.neg => Value(y, s) < 0
    BY <1>1, <1>4, ValueSign
<1>11. Value(y, s) \in Int
    BY <1>1, <1>4, ValueSign
<1>12. ~y.neg
    BY <1>9, <1>10, <1>11
<1>. QED BY <1>1, <1>2, <1>12 DEF y

(* The product of two digits is added in its two halves. *)
Halves(p, v, w, e) == AddAt(AddAt(p, (v * w) \div Base, e + 1), (v * w) % Base, e)

(* A product of two digits has two digits. *)
LEMMA DigitProduct ==
    ASSUME NEW v \in Digit, NEW w \in Digit
    PROVE  /\ v * w \in Nat /\ (v * w) \div Base \in Digit /\ (v * w) % Base \in Digit
           /\ v * w = ((v * w) \div Base) * Base + ((v * w) % Base)
<1>. DEFINE c == v * w
            q == c \div Base
            r == c % Base
<1>1. v \in Nat /\ w \in Nat /\ v <= Base - 1 /\ w <= Base - 1 /\ Base \in Nat \ {0}
    BY BaseIs
<1>2. c \in Nat
    BY <1>1
<1>3. c < Base * Base
    <2>1. v * w <= v * Base
        BY <1>1
    <2>2. v * Base <= (Base - 1) * Base
        BY <1>1
    <2>3. (Base - 1) * Base < Base * Base
        BY <1>1
    <2>4. v * Base \in Int /\ (Base - 1) * Base \in Int /\ Base * Base \in Int
        BY <1>1
    <2>. DEFINE v1 == v * Base
                v2 == (Base - 1) * Base
                v3 == Base * Base
    <2>5. c \in Int /\ v1 \in Int /\ v2 \in Int /\ v3 \in Int /\ c <= v1 /\ v1 <= v2 /\ v2 < v3
        BY <1>2, <2>1, <2>2, <2>3, <2>4
    <2>. HIDE DEF v1, v2, v3, c
    <2>6. c < v3
        BY <2>5
    <2>. QED BY <2>6 DEF v3
<1>. HIDE DEF c
<1>4. q \in Int /\ r \in 0..(Base - 1) /\ c = Base * q + r
    BY <1>1, <1>2, DivMod
<1>. HIDE DEF q, r
<1>5. q < Base
    <2>1. SUFFICES ASSUME ~(q < Base) PROVE FALSE
        OBVIOUS
    <2>2. Base * q >= Base * Base
        BY <1>1, <1>4, <2>1
    <2>3. Base * q \in Int /\ Base * Base \in Int
        BY <1>1, <1>4
    <2>. QED BY <1>2, <1>3, <1>4, <2>2, <2>3
<1>6. q >= 0
    <2>1. SUFFICES ASSUME ~(q >= 0) PROVE FALSE
        OBVIOUS
    <2>2. Base * q <= Base * (-1)
        BY <1>1, <1>4, <2>1
    <2>3. Base * q \in Int /\ Base * (-1) = -Base
        BY <1>1, <1>4
    <2>. QED BY <1>1, <1>2, <1>4, <2>2, <2>3
<1>7. q \in Digit /\ r \in Digit
    BY <1>1, <1>4, <1>5, <1>6, BaseIs
<1>8. Base * q = q * Base
    BY <1>1, <1>4
<1>. QED BY <1>2, <1>4, <1>7, <1>8 DEF c, q, r

(* The two digits of a product are added at its ranks. *)
LEMMA HalvesAre ==
    ASSUME NEW p \in Numbers, ~p.neg, NEW v \in Digit, NEW w \in Digit, NEW e \in Int,
           NEW y, y = Halves(p, v, w, e)
    PROVE  /\ y \in Numbers /\ ~y.neg /\ Len(y.digits) > 0
           /\ Bottom(y) = (IF Bottom(p) > e THEN e ELSE Bottom(p))
           /\ \A s \in Int : Bottom(p) + s >= 0 /\ e + s >= 0
                 => Value(y, s) = Value(p, s) + v * w * Rank(e + s)
<1>. DEFINE hi == (v * w) \div Base
            lo == (v * w) % Base
            u == AddAt(p, hi, e + 1)
            c == v * w
<1>1. hi \in Digit /\ lo \in Digit /\ c \in Nat /\ c = hi * Base + lo /\ e + 1 \in Int
    BY DigitProduct
<1>2. y = AddAt(u, lo, e)
    BY DEF Halves
<1>. HIDE DEF hi, lo
<1>3. /\ u \in Numbers /\ ~u.neg
      /\ Bottom(u) = (IF Bottom(p) > e + 1 THEN e + 1 ELSE Bottom(p))
    BY <1>1, AddAtPositive
<1>4. ASSUME NEW s \in Int, Bottom(p) + s >= 0, e + 1 + s >= 0
      PROVE  Value(u, s) = Value(p, s) + hi * Rank(e + 1 + s)
    BY <1>1, <1>4, AddAtPositive
<1>. HIDE DEF u
<1>5. /\ y \in Numbers /\ ~y.neg /\ Len(y.digits) > 0
      /\ Bottom(y) = (IF Bottom(u) > e THEN e ELSE Bottom(u))
    BY <1>1, <1>2, <1>3, AddAtPositive
<1>6. ASSUME NEW s \in Int, Bottom(u) + s >= 0, e + s >= 0
      PROVE  Value(y, s) = Value(u, s) + lo * Rank(e + s)
    BY <1>1, <1>2, <1>3, <1>6, AddAtPositive
<1>7. Bottom(p) \in Int /\ Bottom(u) \in Int
    <2>1. Bottom(p) \in Int
        BY NumberIs
    <2>2. Bottom(u) \in Int
        BY <1>3, NumberIs
    <2>. QED BY <2>1, <2>2
<1>8. Bottom(y) = (IF Bottom(p) > e THEN e ELSE Bottom(p))
    BY <1>3, <1>5, <1>7
<1>9. ASSUME NEW s \in Int, Bottom(p) + s >= 0, e + s >= 0
      PROVE  Value(y, s) = Value(p, s) + v * w * Rank(e + s)
    <2>1. Bottom(u) + s >= 0 /\ e + 1 + s >= 0 /\ e + s \in Nat /\ e + 1 + s = (e + s) + 1
        BY <1>3, <1>7, <1>9
    <2>. DEFINE r == Rank(e + s)
    <2>2. r \in Nat /\ Rank(e + 1 + s) = Base * r
        BY <2>1, RankNext
    <2>3. Value(y, s) = Value(p, s) + hi * (Base * r) + lo * r
        BY <1>4, <1>6, <1>9, <2>1, <2>2
    <2>4. Value(p, s) \in Int
        BY <1>9, ValueInt
    <2>. HIDE DEF r
    <2>5. hi \in Int /\ lo \in Int /\ Base \in Int /\ r \in Int /\ c \in Int
        BY <1>1, <2>2, BaseIs
    <2>6. c * r = hi * (Base * r) + lo * r
        <3>1. (hi * Base + lo) * r = hi * (Base * r) + lo * r
            BY <2>5
        <3>. QED BY <3>1, <1>1
    <2>7. hi * (Base * r) \in Int /\ lo * r \in Int /\ c * r \in Int
        BY <2>5
    <2>8. Value(y, s) = Value(p, s) + c * r
        BY <2>3, <2>4, <2>6, <2>7
    <2>. QED BY <2>8 DEF r
<1>. QED BY <1>5, <1>8, <1>9

(* The rows of the products of pairs: all those of the first i digits of d  *)
(* with all of e, and of the next with the first j of e.                    *)
RowOf(d, m, e, n, i, j) == d[i + 1] * Rank(m - i - 1) * (Read(e, j) * Rank(n - j))
Covered(d, m, e, n, i, j) ==
    Read(d, i) * Rank(m - i) * Read(e, n) + (IF j = 0 THEN 0 ELSE RowOf(d, m, e, n, i, j))

(* One more digit of a row is counted at its rank. *)
LEMMA ReadRank ==
    ASSUME NEW d, NEW n \in Nat, Digits(d, n), NEW j \in 0..(n - 1)
    PROVE  /\ Read(d, j) \in Nat /\ Rank(n - j) \in Nat /\ Rank(n - j - 1) \in Nat /\ d[j + 1] \in Nat
           /\ Read(d, j + 1) * Rank(n - (j + 1)) = Read(d, j) * Rank(n - j) + d[j + 1] * Rank(n - j - 1)
<1>. DEFINE r == Rank(n - j - 1)
            v == d[j + 1]
            R == Read(d, j)
<1>1. n - j - 1 \in Nat /\ (n - j - 1) + 1 = n - j /\ n - (j + 1) = n - j - 1 /\ j \in Nat /\ j + 1 \in 1..n
    OBVIOUS
<1>2. r \in Nat /\ Rank(n - j) = Base * r
    BY <1>1, RankNext
<1>3. Digits(d, j) /\ Row(d, j + 1) /\ v \in Nat
    <2>1. Digits(d, j) /\ Digits(d, j + 1)
        BY <1>1 DEF Digits
    <2>2. v \in Digit
        BY <1>1 DEF Digits
    <2>3. j + 1 \in Nat
        BY <1>1
    <2>. QED BY <2>1, <2>2, <2>3, DigitsRow, BaseIs
<1>4. R \in Nat
    BY <1>1, <1>3, ReadBound
<1>5. Read(d, j + 1) = R * Base + v
    BY <1>1, <1>3, ReadNext
<1>6. Base \in Nat
    BY BaseIs
<1>. HIDE DEF r, v, R
<1>7. (R * Base + v) * r = R * (Base * r) + v * r
    BY <1>2, <1>3, <1>4, <1>6
<1>8. Base * r \in Nat
    BY <1>2, <1>6
<1>. QED BY <1>1, <1>2, <1>3, <1>4, <1>5, <1>7, <1>8 DEF r, v, R

(* What the pairs so far stand for. *)
LEMMA CoveredInt ==
    ASSUME NEW d, NEW m \in Nat, Digits(d, m), NEW e, NEW n \in Nat, Digits(e, n),
           NEW i \in 0..m, NEW j \in 0..n, j = 0 \/ i < m
    PROVE  Covered(d, m, e, n, i, j) \in Nat
<1>. DEFINE x1 == Read(d, i)
            x2 == Rank(m - i)
            x3 == Read(e, n)
<1>1. x1 \in Nat
    <2>1. i \in Nat /\ Digits(d, i)
        BY DEF Digits
    <2>. QED BY <2>1, ReadBound
<1>2. x2 \in Nat
    <2>1. m - i \in Nat
        OBVIOUS
    <2>. QED BY <2>1, RankNext
<1>3. x3 \in Nat
    BY ReadBound
<1>. HIDE DEF x1, x2, x3
<1>4. x1 * x2 * x3 \in Nat
    <2>1. x1 * x2 \in Nat
        BY <1>1, <1>2
    <2>. QED BY <2>1, <1>3
<1>5. CASE j = 0
    BY <1>4, <1>5 DEF Covered, x1, x2, x3
<1>6. CASE j # 0
    <2>. DEFINE y1 == d[i + 1]
                y2 == Rank(m - i - 1)
                y3 == Read(e, j)
                y4 == Rank(n - j)
    <2>1. i + 1 \in 1..m /\ m - i - 1 \in Nat /\ n - j \in Nat /\ j \in Nat
        BY <1>6
    <2>2. y1 \in Nat
        <3>1. y1 \in Digit
            BY <2>1 DEF Digits
        <3>. QED BY <3>1, BaseIs
    <2>3. y2 \in Nat
        BY <2>1, RankNext
    <2>4. y3 \in Nat
        <3>1. Digits(e, j)
            BY DEF Digits
        <3>. QED BY <3>1, <2>1, ReadBound
    <2>5. y4 \in Nat
        BY <2>1, RankNext
    <2>. HIDE DEF y1, y2, y3, y4
    <2>6. y1 * y2 \in Nat /\ y3 * y4 \in Nat
        BY <2>2, <2>3, <2>4, <2>5
    <2>7. y1 * y2 * (y3 * y4) \in Nat
        BY <2>6
    <2>. QED BY <1>4, <1>6, <2>7 DEF Covered, RowOf, x1, x2, x3, y1, y2, y3, y4
<1>. QED BY <1>5, <1>6

(* The next pair adds the product of its digits. *)
LEMMA CoveredNext ==
    ASSUME NEW d, NEW m \in Nat, Digits(d, m), NEW e, NEW n \in Nat, Digits(e, n),
           NEW i \in 0..(m - 1), NEW j \in 0..(n - 1), NEW c, c = Covered(d, m, e, n, i, j)
    PROVE  c + d[i + 1] * e[j + 1] * (Rank(m - i - 1) * Rank(n - j - 1))
           = IF j + 1 = n THEN Covered(d, m, e, n, i + 1, 0) ELSE Covered(d, m, e, n, i, j + 1)
<1>. DEFINE A == Read(d, i) * Rank(m - i)
            v == d[i + 1]
            p == Rank(m - i - 1)
            E == Read(e, n)
            B == Read(e, j) * Rank(n - j)
            B1 == Read(e, j + 1) * Rank(n - (j + 1))
            w == e[j + 1]
            q == Rank(n - j - 1)
<1>1. A \in Nat /\ v \in Nat /\ p \in Nat /\ Read(d, i + 1) * Rank(m - (i + 1)) = A + v * p
    <2>1. /\ Read(d, i) \in Nat /\ Rank(m - i) \in Nat /\ p \in Nat /\ v \in Nat
          /\ Read(d, i + 1) * Rank(m - (i + 1)) = Read(d, i) * Rank(m - i) + v * p
        BY ReadRank
    <2>. QED BY <2>1
<1>2. B \in Nat /\ w \in Nat /\ q \in Nat /\ B1 = B + w * q
    <2>1. /\ Read(e, j) \in Nat /\ Rank(n - j) \in Nat /\ q \in Nat /\ w \in Nat
          /\ B1 = Read(e, j) * Rank(n - j) + w * q
        BY ReadRank
    <2>. QED BY <2>1
<1>3. E \in Nat
    BY ReadBound
<1>4. c = A * E + (IF j = 0 THEN 0 ELSE v * p * B)
    BY DEF Covered, RowOf
<1>5. j = 0 => B = 0
    <2>1. SUFFICES ASSUME j = 0 PROVE B = 0
        OBVIOUS
    <2>2. Read(e, 0) = 0 /\ Rank(n - j) \in Nat
        BY ReadZero, ReadRank
    <2>. QED BY <2>1, <2>2
<1>6. j + 1 = n => B1 = E
    <2>1. SUFFICES ASSUME j + 1 = n PROVE B1 = E
        OBVIOUS
    <2>2. n - (j + 1) = 0 /\ Rank(0) = 1
        BY <2>1, Ranks0
    <2>. DEFINE z == Rank(n - (j + 1))
    <2>3. z = 1
        BY <2>2
    <2>. HIDE DEF z
    <2>4. B1 = E * z
        BY <2>1 DEF z
    <2>. QED BY <2>3, <2>4, <1>3
<1>7. Covered(d, m, e, n, i, j + 1) = A * E + v * p * B1
    BY DEF Covered, RowOf
<1>8. Covered(d, m, e, n, i + 1, 0) = Read(d, i + 1) * Rank(m - (i + 1)) * E + 0
    BY DEF Covered
<1>. HIDE DEF A, v, p, E, B, B1, w, q
<1>9. c = A * E + v * p * B /\ A * E \in Nat /\ v * p \in Nat /\ v * p * B \in Nat
    <2>1. v * p \in Nat /\ A * E \in Nat
        BY <1>1, <1>3
    <2>. DEFINE g == v * p
    <2>2. g \in Nat
        BY <2>1
    <2>. HIDE DEF g
    <2>3. g * B \in Nat
        BY <2>2, <1>2
    <2>4. j = 0 => g * B = 0
        BY <2>2, <1>5
    <2>5. c = A * E + g * B
        BY <2>1, <2>3, <2>4, <1>4 DEF g
    <2>. QED BY <2>1, <2>3, <2>5 DEF g
<1>. DEFINE g == v * p
<1>10. v * w * (p * q) = g * (w * q) /\ g * B1 = g * B + g * (w * q)
    <2>1. v * w * (p * q) = (v * p) * (w * q)
        BY <1>1, <1>2
    <2>. DEFINE h == w * q
    <2>2. h \in Nat /\ g \in Nat /\ B1 = B + h
        BY <1>2, <1>9
    <2>. HIDE DEF g, h
    <2>3. g * (B + h) = g * B + g * h
        BY <2>2, <1>2
    <2>. QED BY <2>1, <2>2, <2>3 DEF g, h
<1>11. (A + g) * E = A * E + g * E
    <2>1. g \in Nat
        BY <1>9
    <2>. HIDE DEF g
    <2>. QED BY <2>1, <1>1, <1>3
<1>12. g * (w * q) \in Nat /\ g * B \in Nat /\ A * E \in Nat /\ g * E \in Nat
    <2>1. g \in Nat /\ w * q \in Nat
        BY <1>2, <1>9
    <2>. DEFINE h == w * q
    <2>2. h \in Nat
        BY <2>1
    <2>. HIDE DEF g, h
    <2>3. g * h \in Nat /\ g * E \in Nat
        BY <2>1, <2>2, <1>3
    <2>. QED BY <2>3, <1>9 DEF g, h
<1>13. c + v * w * (p * q) = A * E + g * B1
    <2>. DEFINE x1 == A * E
                x2 == g * B
                x3 == g * (w * q)
    <2>1. c = x1 + x2 /\ v * w * (p * q) = x3 /\ g * B1 = x2 + x3 /\ x1 \in Nat /\ x2 \in Nat /\ x3 \in Nat
        BY <1>9, <1>10, <1>12
    <2>. HIDE DEF x1, x2, x3, g
    <2>2. x1 + x2 + x3 = x1 + (x2 + x3)
        BY <2>1
    <2>. QED BY <2>1, <2>2 DEF x1
<1>14. CASE j + 1 = n
    <2>1. c + v * w * (p * q) = A * E + g * E
        BY <1>6, <1>13, <1>14
    <2>2. Read(d, i + 1) * Rank(m - (i + 1)) * E + 0 = A * E + g * E
        BY <1>1, <1>11, <1>12
    <2>. QED BY <2>1, <2>2, <1>8, <1>14 DEF v, w, p, q
<1>15. CASE j + 1 # n
    BY <1>7, <1>13, <1>15 DEF v, w, p, q
<1>. QED BY <1>14, <1>15

(* what p is after the first i digits of a, and of the next the first j of b *)
PairSums(a, b, i, j) == Covered(a.digits, Len(a.digits), b.digits, Len(b.digits), i, j)
Partial(p, a, b, i, j) ==
    /\ p \in Numbers /\ ~p.neg /\ Bottom(p) >= Bottom(a) + Bottom(b)
    /\ i + j > 0 => Len(p.digits) > 0 /\ Bottom(p) <= a.exp + b.exp
    /\ \A s \in Int : Bottom(a) + Bottom(b) + s >= 0
          => Value(p, s) = PairSums(a, b, i, j) * Rank(Bottom(a) + Bottom(b) + s)

(* So the loop over the pairs keeps the sum of those so far. *)
LEMMA PartialNext ==
    ASSUME NEW a \in Numbers, NEW b \in Numbers, NEW i \in 0..(Len(a.digits) - 1),
           NEW j \in 0..(Len(b.digits) - 1), NEW p, Partial(p, a, b, i, j),
           NEW y, y = Halves(p, a.digits[i + 1], b.digits[j + 1], a.exp - i + b.exp - j)
    PROVE  IF j + 1 = Len(b.digits) THEN Partial(y, a, b, i + 1, 0) ELSE Partial(y, a, b, i, j + 1)
<1>. DEFINE m == Len(a.digits)
            n == Len(b.digits)
            v == a.digits[i + 1]
            w == b.digits[j + 1]
            d == a.digits
            f == b.digits
            ea == a.exp
            eb == b.exp
            e == ea - i + eb - j
            t == Bottom(a) + Bottom(b)
            C == PairSums(a, b, i, j)
            C1 == IF j + 1 = n THEN PairSums(a, b, i + 1, 0) ELSE PairSums(a, b, i, j + 1)
            r == Rank(m - i - 1) * Rank(n - j - 1)
<1>1. /\ m \in Nat /\ n \in Nat /\ i \in 0..(m - 1) /\ j \in 0..(n - 1)
      /\ Digits(a.digits, m) /\ Digits(b.digits, n) /\ ea \in Int /\ eb \in Int /\ t \in Int
      /\ t = (ea - m + 1) + (eb - n + 1)
    <2>1. m \in Nat /\ n \in Nat /\ ea \in Int /\ eb \in Int
        BY NumberIs
    <2>2. Bottom(a) = ea - m + 1 /\ Bottom(b) = eb - n + 1
        BY DEF Bottom
    <2>3. Digits(a.digits, m) /\ Digits(b.digits, n)
        BY NumberIs
    <2>. HIDE DEF m, n, ea, eb
    <2>4. Bottom(a) \in Int /\ Bottom(b) \in Int
        BY <2>1, <2>2
    <2>. QED BY <2>1, <2>2, <2>3, <2>4 DEF m, n
<1>2. v \in Digit /\ w \in Digit
    BY <1>1 DEF Digits
<1>3. /\ p \in Numbers /\ ~p.neg /\ Bottom(p) >= t
      /\ \A s \in Int : t + s >= 0 => Value(p, s) = C * Rank(t + s)
    BY DEF Partial
<1>. DEFINE k == (m - i - 1) + (n - j - 1)
<1>4. /\ e \in Int /\ k \in Nat /\ e = t + k /\ e <= ea + eb /\ m - i - 1 \in Nat /\ n - j - 1 \in Nat
      /\ e = ea - i + eb - j
    <2>. HIDE DEF m, n, ea, eb, t
    <2>. QED BY <1>1
<1>0. Digits(d, m) /\ Digits(f, n) /\ m \in Nat /\ n \in Nat
    BY <1>1
<1>20. i \in 0..(m - 1) /\ j \in 0..(n - 1) /\ i \in 0..m /\ j \in 0..n /\ (j = 0 \/ i < m)
    <2>1. i \in 0..(m - 1) /\ j \in 0..(n - 1)
        BY <1>1
    <2>. HIDE DEF m, n
    <2>2. i \in 0..m /\ i < m
        BY <2>1, <1>0
    <2>3. j \in 0..n
        BY <2>1, <1>0
    <2>. QED BY <2>1, <2>2, <2>3
<1>18. C = Covered(d, m, f, n, i, j)
    BY DEF PairSums
<1>19. C1 = IF j + 1 = n THEN Covered(d, m, f, n, i + 1, 0) ELSE Covered(d, m, f, n, i, j + 1)
    BY DEF PairSums
<1>5. C + v * w * r = C1
    <2>1. v = d[i + 1] /\ w = f[j + 1]
        OBVIOUS
    <2>. HIDE DEF d, f, m, n, C, C1, v, w
    <2>2. C + d[i + 1] * f[j + 1] * (Rank(m - i - 1) * Rank(n - j - 1))
          = IF j + 1 = n THEN Covered(d, m, f, n, i + 1, 0) ELSE Covered(d, m, f, n, i, j + 1)
        BY <1>0, <1>20, <1>18, CoveredNext
    <2>. QED BY <2>1, <2>2, <1>19
<1>6. C \in Nat
    <2>. HIDE DEF d, f, m, n, C
    <2>. QED BY <1>20, <1>0, <1>18, CoveredInt
<1>7. r \in Nat /\ Rank(k) = r
    <2>. DEFINE g == m - i - 1
                h == n - j - 1
    <2>0. g \in Nat /\ h \in Nat
        BY <1>4
    <2>. HIDE DEF g, h
    <2>1. Rank(g) \in Nat
        BY <2>0, RankNext
    <2>2. Rank(h) \in Nat
        BY <2>0, RankNext
    <2>3. Rank(g + h) = Rank(g) * Rank(h)
        BY <2>0, RankSum
    <2>4. r = Rank(g) * Rank(h) /\ k = g + h
        BY DEF g, h
    <2>5. Rank(g) * Rank(h) \in Nat
        BY <2>1, <2>2
    <2>. HIDE DEF r, k
    <2>. QED BY <2>3, <2>4, <2>5
<1>8. y = Halves(p, v, w, e)
    BY DEF e
<1>17. Bottom(p) \in Int
    BY <1>3, NumberIs
<1>. HIDE DEF m, n, v, w, e, t, ea, eb, C, C1, r, k
<1>9. /\ y \in Numbers /\ ~y.neg /\ Len(y.digits) > 0
      /\ Bottom(y) = (IF Bottom(p) > e THEN e ELSE Bottom(p))
    BY <1>2, <1>3, <1>4, <1>8, HalvesAre, SMTT(30)
<1>10. Bottom(y) >= t /\ Bottom(y) <= ea + eb
    <2>1. t \in Int /\ ea + eb \in Int
        BY <1>1
    <2>2. Bottom(p) >= t
        BY <1>3
    <2>3. e \in Int /\ e >= t /\ e <= ea + eb
        BY <1>4, <2>1
    <2>. QED BY <2>1, <2>2, <2>3, <1>9, <1>17
<1>11. ASSUME NEW s \in Int, t + s >= 0
       PROVE  Value(y, s) = C1 * Rank(t + s)
    <2>1. Bottom(p) + s >= 0 /\ e + s >= 0 /\ t + s \in Nat /\ e + s = k + (t + s)
        <3>1. t \in Int /\ e = t + k /\ k \in Nat /\ Bottom(p) >= t
            BY <1>1, <1>3, <1>4
        <3>. QED BY <3>1, <1>11, <1>17
    <2>2. Value(y, s) = Value(p, s) + v * w * Rank(e + s)
        BY <1>2, <1>3, <1>4, <1>8, <2>1, HalvesAre
    <2>. DEFINE R == Rank(t + s)
                c == v * w
    <2>3. R \in Nat
        BY <2>1, RankNext
    <2>4. Rank(e + s) = r * R
        BY <2>1, <1>4, <1>7, RankSum
    <2>5. Value(p, s) = C * R
        BY <1>3, <1>11
    <2>6. c \in Nat
        BY <1>2, DigitProduct
    <2>. HIDE DEF c, R
    <2>7. C1 = C + c * r
        BY <1>5 DEF c
    <2>8. Value(y, s) = C * R + c * (r * R)
        BY <2>2, <2>4, <2>5 DEF c
    <2>9. (C + c * r) * R = C * R + c * (r * R)
        BY <1>6, <1>7, <2>3, <2>6
    <2>10. Value(y, s) = C1 * R
        BY <2>7, <2>8, <2>9
    <2>. QED BY <2>10 DEF R
<1>12. t = Bottom(a) + Bottom(b) /\ ea = a.exp /\ eb = b.exp /\ n = Len(b.digits)
    BY DEF t, ea, eb, n
<1>13. CASE j + 1 = n
    <2>1. C1 = PairSums(a, b, i + 1, 0)
        BY <1>13 DEF C1
    <2>2. Partial(y, a, b, i + 1, 0)
        BY <1>9, <1>10, <1>11, <1>12, <2>1 DEF Partial
    <2>. QED BY <2>2, <1>12, <1>13
<1>14. CASE j + 1 # n
    <2>1. C1 = PairSums(a, b, i, j + 1)
        BY <1>14 DEF C1
    <2>2. Partial(y, a, b, i, j + 1)
        BY <1>9, <1>10, <1>11, <1>12, <2>1 DEF Partial
    <2>. QED BY <2>2, <1>12, <1>14
<1>. QED BY <1>13, <1>14

(* The product begins with no digits at all. *)
LEMMA PartialFirst ==
    ASSUME NEW a \in Numbers, NEW b \in Numbers, Len(a.digits) > 0, Len(b.digits) > 0,
           NEW p, p = [neg |-> FALSE, exp |-> a.exp + b.exp, digits |-> <<>>]
    PROVE  Partial(p, a, b, 0, 0)
<1>. DEFINE t == Bottom(a) + Bottom(b)
            m == Len(a.digits)
            n == Len(b.digits)
            ea == a.exp
            eb == b.exp
<1>1. /\ m \in Nat /\ n \in Nat /\ m > 0 /\ n > 0 /\ ea \in Int /\ eb \in Int /\ t \in Int
      /\ t = (ea - m + 1) + (eb - n + 1)
    <2>1. m \in Nat /\ n \in Nat /\ ea \in Int /\ eb \in Int
        BY NumberIs
    <2>2. Bottom(a) = ea - m + 1 /\ Bottom(b) = eb - n + 1
        BY DEF Bottom
    <2>. HIDE DEF ea, eb
    <2>3. Bottom(a) \in Int /\ Bottom(b) \in Int
        BY <2>1, <2>2
    <2>. QED BY <2>1, <2>2, <2>3
<1>2. p \in Numbers /\ ~p.neg /\ p.digits = <<>> /\ p.exp = ea + eb
    BY <1>1 DEF Numbers
<1>3. Len(p.digits) = 0
    BY <1>2
<1>4. Bottom(p) = ea + eb + 1
    BY <1>1, <1>2, <1>3 DEF Bottom
<1>. HIDE DEF m, n, ea, eb
<1>5. Bottom(p) >= t
    BY <1>1, <1>4
<1>6. PairSums(a, b, 0, 0) = 0
    <2>1. Read(a.digits, 0) = 0
        BY ReadZero
    <2>2. Rank(m - 0) \in Nat
        <3>1. m - 0 \in Nat
            BY <1>1
        <3>. QED BY <3>1, RankNext
    <2>3. Read(b.digits, n) \in Nat
        <3>1. Digits(b.digits, n)
            BY NumberIs DEF n
        <3>. QED BY <3>1, <1>1, ReadBound
    <2>. DEFINE x2 == Rank(m - 0)
                x3 == Read(b.digits, n)
    <2>4. PairSums(a, b, 0, 0) = 0 * x2 * x3 + 0
        BY <2>1 DEF PairSums, Covered, m, n
    <2>5. x2 \in Nat /\ x3 \in Nat
        BY <2>2, <2>3
    <2>. HIDE DEF x2, x3
    <2>. QED BY <2>4, <2>5
<1>7. ASSUME NEW s \in Int, t + s >= 0
      PROVE  Value(p, s) = PairSums(a, b, 0, 0) * Rank(t + s)
    <2>1. Amount(p) = 0
        <3>1. Amount(p) = Read(p.digits, Len(p.digits))
            BY <1>2, Positive
        <3>. QED BY <3>1, <1>3, ReadZero
    <2>2. Bottom(p) + s \in Nat /\ t + s \in Nat
        BY <1>1, <1>4, <1>5, <1>7
    <2>3. Rank(Bottom(p) + s) \in Nat
        BY <2>2, RankNext
    <2>4. Rank(t + s) \in Nat
        BY <2>2, RankNext
    <2>5. Value(p, s) = Amount(p) * Rank(Bottom(p) + s)
        BY <1>2, ValueIs
    <2>. QED BY <2>1, <2>3, <2>4, <2>5, <1>6
<1>8. t = Bottom(a) + Bottom(b) /\ ~(0 + 0 > 0)
    OBVIOUS
<1>. HIDE DEF t
<1>9. \A s \in Int : Bottom(a) + Bottom(b) + s >= 0
          => Value(p, s) = PairSums(a, b, 0, 0) * Rank(Bottom(a) + Bottom(b) + s)
    BY <1>7, <1>8
<1>10. p \in Numbers /\ ~p.neg /\ Bottom(p) >= Bottom(a) + Bottom(b)
    BY <1>2, <1>5, <1>8
<1>. QED BY <1>8, <1>9, <1>10 DEF Partial

(* The place of the k-th pair, and of the one after it. *)
IsPlace(i, j, m, n) == i \in 0..(m - 1) /\ j \in 0..(n - 1)
NextPlace(k, i, j, n) ==
    /\ j + 1 = n => (k + 1) \div n = i + 1 /\ (k + 1) % n = 0
    /\ j + 1 # n => (k + 1) \div n = i /\ (k + 1) % n = j + 1

(* The k-th pair, and the one after it. *)
LEMMA PairPlace ==
    ASSUME NEW m \in Nat, NEW n \in Nat \ {0}, NEW k \in Nat, k < m * n,
           NEW i, i = k \div n, NEW j, j = k % n
    PROVE  IsPlace(i, j, m, n) /\ NextPlace(k, i, j, n)
<1>1. i \in Int /\ j \in 0..(n - 1) /\ k = n * i + j
    BY DivMod
<1>2. i >= 0
    <2>1. SUFFICES ASSUME ~(i >= 0) PROVE FALSE
        OBVIOUS
    <2>2. n * i <= n * (-1)
        BY <1>1, <2>1
    <2>3. n * i \in Int /\ n * (-1) = -n
        BY <1>1
    <2>. QED BY <1>1, <2>2, <2>3
<1>3. i < m
    <2>1. SUFFICES ASSUME ~(i < m) PROVE FALSE
        OBVIOUS
    <2>2. n * i >= n * m
        BY <1>1, <2>1
    <2>3. n * i \in Int /\ n * m \in Int /\ m * n = n * m
        BY <1>1
    <2>. QED BY <1>1, <2>2, <2>3
<1>4. ASSUME j + 1 = n PROVE (k + 1) \div n = i + 1 /\ (k + 1) % n = 0
    <2>1. k + 1 = n * (i + 1) + 0
        <3>1. n * (i + 1) = n * i + n
            BY <1>1
        <3>2. n * i \in Int
            BY <1>1
        <3>. QED BY <3>1, <3>2, <1>1, <1>4
    <2>2. i + 1 \in Int /\ 0 \in 0..(n - 1)
        BY <1>1
    <2>. DEFINE u == k + 1
                i1 == i + 1
    <2>3. u = n * i1 + 0 /\ i1 \in Int
        BY <2>1, <2>2
    <2>. HIDE DEF u, i1
    <2>4. u \div n = i1 /\ u % n = 0
        BY <2>2, <2>3, Divided2
    <2>. QED BY <2>4 DEF u, i1
<1>5. ASSUME j + 1 # n PROVE (k + 1) \div n = i /\ (k + 1) % n = j + 1
    <2>1. k + 1 = n * i + (j + 1)
        <3>1. n * i \in Int
            BY <1>1
        <3>. QED BY <3>1, <1>1
    <2>2. j + 1 \in 0..(n - 1) /\ n \in Nat \ {0} /\ i \in Int
        BY <1>1, <1>5
    <2>. DEFINE u == k + 1
                r == j + 1
    <2>3. u = n * i + r /\ r \in 0..(n - 1)
        BY <2>1, <2>2
    <2>. HIDE DEF u, r
    <2>4. u \div n = i /\ u % n = r
        BY <2>2, <2>3, Divided2
    <2>. QED BY <2>4 DEF u, r
<1>6. IsPlace(i, j, m, n)
    BY <1>1, <1>2, <1>3 DEF IsPlace
<1>. QED BY <1>4, <1>5, <1>6 DEF NextPlace

(* A pair's places are places of the two numbers. *)
LEMMA PairIs ==
    ASSUME NEW m \in Nat, NEW n \in Nat \ {0}, NEW N, N = m * n, NEW k \in 1..N
    PROVE  IsPlace((k - 1) \div n, (k - 1) % n, m, n)
<1>1. N \in Nat
    OBVIOUS
<1>. DEFINE l == k - 1
<1>2. l \in Nat /\ l < N
    BY <1>1
<1>3. l < m * n
    BY <1>2
<1>. HIDE DEF l
<1>. DEFINE i == l \div n
            j == l % n
<1>4. IsPlace(i, j, m, n)
    <2>1. i = l \div n /\ j = l % n
        OBVIOUS
    <2>. HIDE DEF i, j
    <2>. QED BY <2>1, <1>2, <1>3, PairPlace
<1>. QED BY <1>4 DEF l

(* both halves of the product of the pair (i, j), added to p                *)
PairDone(p, a, b, i, j) == Halves(p, a.digits[i + 1], b.digits[j + 1], a.exp - i + b.exp - j)
(* what Products begins with; h[k] is what it has after k pairs             *)
NoDigits(a, b) == [neg |-> FALSE, exp |-> a.exp + b.exp, digits |-> <<>>]
PairsDone(h, a, b) ==
    /\ h[0] = NoDigits(a, b)
    /\ \A k \in 1..(Len(a.digits) * Len(b.digits)) :
          h[k] = PairDone(h[k - 1], a, b, (k - 1) \div Len(b.digits), (k - 1) % Len(b.digits))

(* A pair leaves a number that is not negative. *)
LEMMA PairDoneIs ==
    ASSUME NEW a \in Numbers, NEW b \in Numbers, NEW i \in 0..(Len(a.digits) - 1),
           NEW j \in 0..(Len(b.digits) - 1), NEW p \in Numbers, ~p.neg
    PROVE  PairDone(p, a, b, i, j) \in Numbers /\ ~PairDone(p, a, b, i, j).neg
<1>. DEFINE m == Len(a.digits)
            n == Len(b.digits)
            v == a.digits[i + 1]
            w == b.digits[j + 1]
            e == a.exp - i + b.exp - j
<1>1. v \in Digit
    <2>1. m \in Nat /\ Digits(a.digits, m)
        BY NumberIs
    <2>2. i + 1 \in 1..m
        BY <2>1
    <2>. QED BY <2>1, <2>2 DEF Digits
<1>2. w \in Digit
    <2>1. n \in Nat /\ Digits(b.digits, n)
        BY NumberIs
    <2>2. j + 1 \in 1..n
        BY <2>1
    <2>. QED BY <2>1, <2>2 DEF Digits
<1>3. e \in Int
    <2>1. a.exp \in Int
        BY NumberIs
    <2>2. b.exp \in Int
        BY NumberIs
    <2>. QED BY <2>1, <2>2
<1>. DEFINE y == Halves(p, v, w, e)
<1>4. y = Halves(p, v, w, e)
    OBVIOUS
<1>. HIDE DEF v, w, e, y
<1>5. y \in Numbers /\ ~y.neg
    BY <1>1, <1>2, <1>3, <1>4, HalvesAre
<1>. QED BY <1>5 DEF PairDone, y, v, w, e

(* The products are added pair by pair. *)
LEMMA ProductsUnrolled ==
    ASSUME NEW a \in Numbers, NEW b \in Numbers, Len(b.digits) > 0
    PROVE  \E h : PairsDone(h, a, b) /\ Products(a, b) = trim(h[Len(a.digits) * Len(b.digits)])
<1>. DEFINE m == Len(a.digits)
            n == Len(b.digits)
            N == m * n
            V == {p \in Numbers : ~p.neg}
            z == NoDigits(a, b)
            I(k) == (k - 1) \div n
            J(k) == (k - 1) % n
            F(k, p) == PairDone(p, a, b, I(k), J(k))
            g == [k \in 1..N |-> [p \in V |-> F(k, p)]]
<1>1. m \in Nat /\ n \in Nat \ {0} /\ N \in Nat
    <2>1. m \in Nat /\ n \in Nat /\ n > 0
        BY NumberIs
    <2>. HIDE DEF m, n
    <2>2. m * n \in Nat
        BY <2>1
    <2>. QED BY <2>1, <2>2
<1>2. z \in V
    <2>1. a.exp + b.exp \in Int
        BY NumberIs
    <2>. QED BY <2>1 DEF NoDigits, Numbers
<1>3. ASSUME NEW k \in 1..N, NEW p \in V PROVE F(k, p) \in V
    <2>. DEFINE i == I(k)
                j == J(k)
    <2>1. i \in 0..(m - 1) /\ j \in 0..(n - 1)
        <3>1. N = m * n /\ k \in 1..N
            OBVIOUS
        <3>. HIDE DEF m, n, N
        <3>2. IsPlace((k - 1) \div n, (k - 1) % n, m, n)
            BY <1>1, <3>1, PairIs
        <3>. QED BY <3>2 DEF IsPlace
    <2>. HIDE DEF i, j
    <2>2. PairDone(p, a, b, i, j) \in V
        BY <2>1, PairDoneIs
    <2>. QED BY <2>2 DEF i, j
<1>4. g \in [1..N -> [V -> V]]
    <2>. HIDE DEF F, V, N
    <2>. QED BY <1>3
<1>5. PICK h : Unrolls(h, N, V, z, g)
    <2>. HIDE DEF g, V, z, N
    <2>. QED BY <1>1, <1>2, <1>4, Unrolled
<1>6. h \in [0..N -> V] /\ h[0] = z /\ \A k \in 1..N : h[k] = g[k][h[k - 1]]
    BY <1>5 DEF Unrolls
<1>7. h = [k \in 0..N |-> IF k = 0 THEN z ELSE F(k, h[k - 1])]
    <2>. HIDE DEF F, V, N, z
    <2>1. ASSUME NEW k \in 0..N PROVE h[k] = IF k = 0 THEN z ELSE F(k, h[k - 1])
        <3>1. CASE k = 0
            BY <3>1, <1>6
        <3>2. CASE k # 0
            <4>1. k \in 1..N /\ k - 1 \in 0..N
                BY <3>2, <1>1
            <4>2. h[k - 1] \in V /\ h[k] = g[k][h[k - 1]]
                BY <4>1, <1>6
            <4>3. g[k] = [p \in V |-> F(k, p)]
                BY <4>1
            <4>. QED BY <4>2, <4>3, <3>2
        <3>. QED BY <3>1, <3>2
    <2>. HIDE DEF g
    <2>. QED BY <2>1, <1>6
<1>. DEFINE pairs == [k \in 1..(Len(a.digits) * Len(b.digits)) |->
                         [i |-> (k - 1) \div Len(b.digits), j |-> (k - 1) % Len(b.digits)]]
            t == CHOOSE t : t = [k \in 0..Len(pairs) |->
                     IF k = 0 THEN [neg |-> FALSE, exp |-> a.exp + b.exp, digits |-> <<>>]
                     ELSE AddAt(AddAt(t[k - 1],
                                      (a.digits[pairs[k].i + 1] * b.digits[pairs[k].j + 1]) \div Base,
                                      (a.exp - pairs[k].i + b.exp - pairs[k].j) + 1),
                                (a.digits[pairs[k].i + 1] * b.digits[pairs[k].j + 1]) % Base,
                                a.exp - pairs[k].i + b.exp - pairs[k].j)]
<1>9. Products(a, b) = trim(t[Len(pairs)])
    BY DEF Products
<1>10. Len(pairs) = N
    BY <1>1
<1>11. \A k \in 1..N : pairs[k].i = I(k) /\ pairs[k].j = J(k)
    OBVIOUS
<1>12. ASSUME NEW k \in 1..N, NEW p
       PROVE  F(k, p) = AddAt(AddAt(p,
                                    (a.digits[pairs[k].i + 1] * b.digits[pairs[k].j + 1]) \div Base,
                                    (a.exp - pairs[k].i + b.exp - pairs[k].j) + 1),
                              (a.digits[pairs[k].i + 1] * b.digits[pairs[k].j + 1]) % Base,
                              a.exp - pairs[k].i + b.exp - pairs[k].j)
    <2>1. pairs[k].i = I(k) /\ pairs[k].j = J(k)
        BY <1>11
    <2>. HIDE DEF pairs, N, I, J
    <2>. QED BY <2>1 DEF PairDone, Halves
<1>13. \A k \in 0..N : k # 0 => k \in 1..N
    <2>1. N \in Nat
        BY <1>1
    <2>. HIDE DEF N
    <2>. QED BY <2>1
<1>14. h = [k \in 0..Len(pairs) |->
               IF k = 0 THEN [neg |-> FALSE, exp |-> a.exp + b.exp, digits |-> <<>>]
               ELSE AddAt(AddAt(h[k - 1],
                                (a.digits[pairs[k].i + 1] * b.digits[pairs[k].j + 1]) \div Base,
                                (a.exp - pairs[k].i + b.exp - pairs[k].j) + 1),
                          (a.digits[pairs[k].i + 1] * b.digits[pairs[k].j + 1]) % Base,
                          a.exp - pairs[k].i + b.exp - pairs[k].j)]
    <2>. HIDE DEF pairs, N, F
    <2>. QED BY <1>7, <1>10, <1>12, <1>13 DEF NoDigits
<1>15. t = [k \in 0..Len(pairs) |->
               IF k = 0 THEN [neg |-> FALSE, exp |-> a.exp + b.exp, digits |-> <<>>]
               ELSE AddAt(AddAt(t[k - 1],
                                (a.digits[pairs[k].i + 1] * b.digits[pairs[k].j + 1]) \div Base,
                                (a.exp - pairs[k].i + b.exp - pairs[k].j) + 1),
                          (a.digits[pairs[k].i + 1] * b.digits[pairs[k].j + 1]) % Base,
                          a.exp - pairs[k].i + b.exp - pairs[k].j)]
    <2>. HIDE DEF pairs
    <2>. QED BY <1>14
<1>. HIDE DEF t, pairs, N, F
<1>16. t[0] = NoDigits(a, b)
    <2>1. 0 \in 0..Len(pairs)
        BY <1>1, <1>10
    <2>. QED BY <1>15, <2>1 DEF NoDigits
<1>17. ASSUME NEW k \in 1..N PROVE t[k] = F(k, t[k - 1])
    <2>1. k \in 0..Len(pairs) /\ k # 0
        BY <1>1, <1>10
    <2>. QED BY <2>1, <1>12, <1>15
<1>18. PairsDone(t, a, b)
    BY <1>16, <1>17 DEF PairsDone, F, N
<1>. QED BY <1>9, <1>10, <1>18 DEF N

(* the lengths of two numbers, and where their products end                 *)
Sizes(m, n, a, b) ==
    m = Len(a.digits) /\ n = Len(b.digits) /\ Len(a.digits) > 0 /\ Len(b.digits) > 0

(* After the last pair the sum is that of all pairs. *)
LEMMA PartialAt ==
    ASSUME NEW a \in Numbers, NEW b \in Numbers, NEW h, PairsDone(h, a, b),
           NEW m \in Nat, NEW n \in Nat \ {0}, Sizes(m, n, a, b)
    PROVE  Partial(h[m * n], a, b, m, 0)
<1>1. m \in Nat /\ n \in Nat \ {0} /\ m * n \in Nat
    OBVIOUS
<1>2. ASSUME NEW k \in 1..(m * n)
      PROVE  h[k] = PairDone(h[k - 1], a, b, (k - 1) \div n, (k - 1) % n)
    BY <1>2 DEF PairsDone, Sizes
<1>. DEFINE L == m * n
            N == {k \in Nat : k <= L => Partial(h[k], a, b, k \div n, k % n)}
<1>3. 0 \in N
    <2>1. Partial(h[0], a, b, 0, 0)
        <3>1. h[0] = NoDigits(a, b)
            BY DEF PairsDone
        <3>. QED BY <3>1, PartialFirst DEF NoDigits, Sizes
    <2>2. 0 \div n = 0 /\ 0 % n = 0
        <3>1. 0 = n * 0 + 0 /\ 0 \in 0..(n - 1)
            BY <1>1
        <3>. QED BY <3>1, <1>1, Divided2
    <2>. QED BY <2>1, <2>2
<1>4. ASSUME NEW k \in N PROVE k + 1 \in N
    <2>1. SUFFICES ASSUME k + 1 <= L PROVE Partial(h[k + 1], a, b, (k + 1) \div n, (k + 1) % n)
        OBVIOUS
    <2>. DEFINE i == k \div n
                j == k % n
    <2>2. k \in Nat /\ k < L /\ k <= L /\ k + 1 \in 1..L /\ (k + 1) - 1 = k
        <3>1. k \in Nat /\ L \in Nat
            BY <1>1
        <3>. HIDE DEF L
        <3>. QED BY <2>1, <3>1
    <2>3. Partial(h[k], a, b, i, j)
        BY <2>2
    <2>4. h[k + 1] = PairDone(h[k], a, b, i, j)
        BY <1>2, <2>2
    <2>5. i = k \div n /\ j = k % n /\ k < m * n
        BY <2>2
    <2>. HIDE DEF i, j, N, L
    <2>6. IsPlace(i, j, m, n) /\ NextPlace(k, i, j, n)
        BY <1>1, <2>2, <2>5, PairPlace
    <2>. DEFINE y == h[k + 1]
    <2>7. y = Halves(h[k], a.digits[i + 1], b.digits[j + 1], a.exp - i + b.exp - j)
        BY <2>4 DEF PairDone
    <2>8. i \in 0..(Len(a.digits) - 1) /\ j \in 0..(Len(b.digits) - 1)
        BY <2>6 DEF IsPlace, Sizes
    <2>. HIDE DEF y
    <2>9. IF j + 1 = Len(b.digits) THEN Partial(y, a, b, i + 1, 0) ELSE Partial(y, a, b, i, j + 1)
        BY <2>3, <2>7, <2>8, PartialNext
    <2>10. CASE j + 1 = n
        BY <2>6, <2>9, <2>10 DEF NextPlace, y, Sizes
    <2>11. CASE j + 1 # n
        BY <2>6, <2>9, <2>11 DEF NextPlace, y, Sizes
    <2>. QED BY <2>10, <2>11
<1>5. N = Nat
    <2>1. N \in SUBSET Nat
        OBVIOUS
    <2>. HIDE DEF N
    <2>. QED BY <1>3, <1>4, <2>1, AllNaturals
<1>6. Partial(h[L], a, b, L \div n, L % n)
    <2>1. L \in Nat /\ L <= L
        BY <1>1
    <2>2. L \in N
        <3>. HIDE DEF N, L
        <3>. QED BY <1>5, <2>1
    <2>. QED BY <2>1, <2>2
<1>7. L \div n = m /\ L % n = 0
    <2>1. L = n * m + 0
        <3>1. n * m + 0 = m * n
            BY <1>1
        <3>. QED BY <3>1
    <2>2. 0 \in 0..(n - 1) /\ m \in Int
        BY <1>1
    <2>. HIDE DEF L, N
    <2>3. n \in Nat \ {0}
        BY <1>1
    <2>. QED BY <2>1, <2>2, <2>3, Divided2
<1>. QED BY <1>6, <1>7

(* All zeros leave one, the lowest. *)
LEMMA ZeroTrim ==
    ASSUME NEW a \in Numbers, ~a.neg, Len(a.digits) > 0, trim(a).digits = << 0 >>
    PROVE  trim(a).exp = Bottom(a)
<1>. DEFINE w == trim(a)
            f == Leading(a)
            g == Behind(a)
            n == Len(a.digits)
<1>1. Widens(a, w, f, g)
    BY TrimIs
<1>2. w.digits = << 0 >>
    OBVIOUS
<1>. HIDE DEF w
<1>3. Len(w.digits) = 1 /\ w.digits[1] = 0
    BY <1>2
<1>4. /\ f \in Nat /\ g \in Nat /\ a.exp = w.exp + f /\ n = f + 1 + g /\ w.exp \in Int /\ n \in Nat
      /\ a.digits[f + 1] = 0
    <2>1. /\ w \in Numbers /\ f \in Nat /\ g \in Nat /\ a.exp = w.exp + f /\ n = f + Len(w.digits) + g
          /\ \A i \in 1..Len(w.digits) : a.digits[f + i] = w.digits[i]
        BY <1>1 DEF Widens
    <2>2. w.exp \in Int /\ n \in Nat
        BY <2>1, NumberIs
    <2>. QED BY <2>1, <2>2, <1>3
<1>5. f + 1 < n => a.digits[f + 1] # 0
    BY LeadingIs
<1>6. Bottom(a) = a.exp - n + 1
    BY DEF Bottom
<1>. HIDE DEF f, g, n
<1>7. g = 0
    BY <1>4, <1>5
<1>8. w.exp = Bottom(a)
    BY <1>4, <1>6, <1>7
<1>. QED BY <1>8 DEF w

(* p is the product of the digits of a and b                                *)
Multiplied(p, a, b) ==
    /\ p \in Numbers /\ Trimmed(p) /\ ~p.neg
    /\ Bottom(p) >= Bottom(a) + Bottom(b) /\ p.exp <= a.exp + b.exp + 1
    /\ \A s \in Int : Bottom(a) + Bottom(b) + s >= 0
          => Value(p, s) = Read(a.digits, Len(a.digits)) * Read(b.digits, Len(b.digits))
                           * Rank(Bottom(a) + Bottom(b) + s)

(* The product of the digits of two numbers, their signs left aside. *)
LEMMA ProductsIs ==
    ASSUME NEW a \in Numbers, NEW b \in Numbers, Len(a.digits) > 0, Len(b.digits) > 0
    PROVE  Multiplied(Products(a, b), a, b)
<1>. DEFINE m == Len(a.digits)
            n == Len(b.digits)
            ea == a.exp
            eb == b.exp
            t == Bottom(a) + Bottom(b)
            A == Read(a.digits, m)
            B == Read(b.digits, n)
<1>1. /\ m \in Nat /\ n \in Nat /\ m > 0 /\ n > 0 /\ ea \in Int /\ eb \in Int /\ t \in Int
      /\ t = (ea - m + 1) + (eb - n + 1)
    <2>1. m \in Nat /\ n \in Nat /\ ea \in Int /\ eb \in Int
        BY NumberIs
    <2>2. Bottom(a) = ea - m + 1 /\ Bottom(b) = eb - n + 1
        BY DEF Bottom
    <2>. HIDE DEF ea, eb
    <2>3. Bottom(a) \in Int /\ Bottom(b) \in Int
        BY <2>1, <2>2
    <2>. QED BY <2>1, <2>2, <2>3
<1>2. PICK h : PairsDone(h, a, b) /\ Products(a, b) = trim(h[m * n])
    BY ProductsUnrolled
<1>. DEFINE P == h[m * n]
            p == trim(P)
<1>3. Partial(P, a, b, m, 0)
    <2>1. Sizes(m, n, a, b) /\ n \in Nat \ {0}
        BY <1>1 DEF Sizes
    <2>. HIDE DEF m, n
    <2>. QED BY <1>1, <1>2, <2>1, PartialAt
<1>4. A \in Nat /\ B \in Nat /\ A < Rank(m) /\ B < Rank(n)
    <2>1. Digits(a.digits, m) /\ Digits(b.digits, n)
        BY NumberIs
    <2>2. A \in Nat /\ A < Rank(m)
        BY <1>1, <2>1, ReadBound
    <2>3. B \in Nat /\ B < Rank(n)
        BY <1>1, <2>1, ReadBound
    <2>. QED BY <2>2, <2>3
<1>5. PairSums(a, b, m, 0) = A * B
    <2>1. PairSums(a, b, m, 0) = A * Rank(m - m) * B + 0
        BY DEF PairSums, Covered
    <2>2. m - m = 0
        BY <1>1
    <2>3. Rank(m - m) = 1
        BY <2>2, Ranks0
    <2>. HIDE DEF A, B, m
    <2>. QED BY <1>4, <2>1, <2>3
<1>6. /\ P \in Numbers /\ ~P.neg /\ Bottom(P) >= t /\ Len(P.digits) > 0 /\ Bottom(P) <= ea + eb
      /\ \A s \in Int : t + s >= 0 => Value(P, s) = A * B * Rank(t + s)
    <2>1. m + 0 > 0
        BY <1>1
    <2>. HIDE DEF P, A, B, m, n
    <2>2. /\ P \in Numbers /\ ~P.neg /\ Bottom(P) >= t /\ Len(P.digits) > 0 /\ Bottom(P) <= ea + eb
        BY <2>1, <1>3 DEF Partial
    <2>3. ASSUME NEW s \in Int, t + s >= 0 PROVE Value(P, s) = A * B * Rank(t + s)
        BY <2>3, <1>3, <1>5 DEF Partial
    <2>. QED BY <2>2, <2>3
<1>7. p = trim(P) /\ p = Products(a, b)
    BY <1>2
<1>. HIDE DEF P, p, m, n, ea, eb, t, A, B
<1>8. p \in Numbers /\ (p.neg <=> P.neg) /\ Bottom(p) >= Bottom(P) /\ Trimmed(p)
    BY <1>6, <1>7, TrimFits, TrimIs
<1>9. ~p.neg /\ Len(p.digits) > 0 /\ Bottom(p) \in Int /\ Bottom(P) \in Int /\ p.exp \in Int
    <2>1. Len(p.digits) > 0
        BY <1>8, TrimmedIs
    <2>2. Bottom(p) \in Int /\ p.exp \in Int
        BY <1>8, NumberIs
    <2>3. Bottom(P) \in Int
        BY <1>6, NumberIs
    <2>. QED BY <1>6, <1>8, <2>1, <2>2, <2>3
<1>10. Bottom(p) >= t
    BY <1>1, <1>6, <1>8, <1>9
<1>11. ASSUME NEW s \in Int, t + s >= 0
       PROVE  Value(p, s) = A * B * Rank(t + s)
    <2>1. Bottom(P) + s >= 0
        BY <1>1, <1>6, <1>9, <1>11
    <2>2. Value(p, s) = Value(P, s)
        BY <1>6, <1>7, <2>1, TrimValue
    <2>. QED BY <2>2, <1>6, <1>11
<1>12. p.exp <= ea + eb + 1
    <2>1. CASE p.digits = << 0 >>
        <3>1. p.exp = Bottom(P)
            BY <1>6, <1>7, <2>1, ZeroTrim
        <3>. QED BY <3>1, <1>1, <1>6, <1>9
    <2>2. CASE p.digits # << 0 >>
        <3>. DEFINE s == -t
        <3>1. s \in Int /\ t + s = 0 /\ Bottom(p) + s >= 0
            BY <1>1, <1>9, <1>10
        <3>2. p.digits[1] # 0
            BY <1>8, <1>9, <2>2, FirstNotZero
        <3>. HIDE DEF s
        <3>3. p.exp + s \in Nat /\ Value(p, s) >= Rank(p.exp + s)
            BY <1>8, <1>9, <3>1, <3>2, ValueRange
        <3>4. Value(p, s) = A * B
            <4>1. Value(p, s) = A * B * Rank(t + s)
                BY <1>11, <3>1
            <4>2. Rank(t + s) = 1
                BY <3>1, Ranks0
            <4>3. A * B \in Nat
                BY <1>4
            <4>. QED BY <4>1, <4>2, <4>3
        <3>5. A * B < Rank(m + n)
            <4>1. Rank(m + n) = Rank(m) * Rank(n)
                BY <1>1, RankSum
            <4>2. Rank(m) \in Nat /\ Rank(m) > 0
                BY <1>1, RankNext
            <4>3. Rank(n) \in Nat /\ Rank(n) > 0
                BY <1>1, RankNext
            <4>. DEFINE x1 == Rank(m)
                        x2 == Rank(n)
            <4>4. x1 \in Nat /\ x2 \in Nat /\ x2 > 0 /\ A < x1 /\ B < x2
                BY <4>2, <4>3, <1>4
            <4>. HIDE DEF x1, x2
            <4>5. A * B <= A * x2
                BY <4>4, <1>4
            <4>6. A * x2 < x1 * x2
                BY <4>4, <1>4
            <4>7. A * B \in Nat /\ A * x2 \in Nat /\ x1 * x2 \in Nat
                BY <4>4, <1>4
            <4>8. A * B < x1 * x2
                BY <4>5, <4>6, <4>7
            <4>. QED BY <4>1, <4>8 DEF x1, x2
        <3>6. SUFFICES ASSUME ~(p.exp <= ea + eb + 1) PROVE FALSE
            OBVIOUS
        <3>7. m + n \in Nat /\ m + n <= p.exp + s
            <4>1. s = -t
                BY DEF s
            <4>. QED BY <4>1, <1>1, <1>9, <3>6
        <3>8. Rank(m + n) <= Rank(p.exp + s) /\ Rank(m + n) \in Nat /\ Rank(p.exp + s) \in Nat
            BY <3>3, <3>7, RankOrder
        <3>9. A * B \in Nat
            BY <1>4
        <3>. QED BY <3>3, <3>4, <3>5, <3>8, <3>9
    <2>. QED BY <2>1, <2>2
<1>13. Multiplied(p, a, b)
    BY <1>8, <1>9, <1>10, <1>11, <1>12 DEF Multiplied, t, ea, eb, A, B, m, n
<1>. QED BY <1>7, <1>13

-------------------------------------------------------------------------------
(* The product of two numbers *)

(* What the sign of the other factor subtracts, b moved to rank e. *)
Lessens(y, p, b, e, t) ==
    /\ y \in Numbers /\ Trimmed(y) /\ Bottom(y) >= t
    /\ ~SignAlone(b) /\ (b.neg \/ p.exp <= b.exp + e) =>
          \A s \in Int : t + s >= 0
             => Value(y, s) = Value(p, s) - Amount(b) * Rank(Bottom(b) + e + s)

(* What it leaves, where the sum with the opposite is exact. *)
LEMMA MinusRanked ==
    ASSUME NEW p \in Numbers, ~p.neg, NEW b \in Numbers, Len(b.digits) > 0,
           NEW e \in Int, NEW t \in Int, Bottom(p) >= t, Bottom(b) + e >= t
    PROVE  Lessens(Minus(p, Ranked(b, e)), p, b, e, t)
<1>. DEFINE c == Ranked(b, e)
            y == Minus(p, c)
            nc == negate(c)
<1>1. /\ c \in Numbers /\ (c.neg <=> b.neg) /\ c.digits = b.digits /\ c.exp = b.exp + e
      /\ Bottom(c) = Bottom(b) + e /\ Amount(c) = Amount(b)
    BY RankedIs
<1>2. y = Minus(p, c)
    OBVIOUS
<1>. HIDE DEF c, y
<1>3. Bottom(p) \in Int /\ Bottom(c) \in Int /\ Amount(b) \in Int /\ Len(c.digits) > 0
    <2>1. Bottom(p) \in Int
        BY NumberIs
    <2>2. Bottom(c) \in Int
        BY <1>1, NumberIs
    <2>3. Amount(b) \in Int
        BY NumberIs
    <2>. QED BY <1>1, <2>1, <2>2, <2>3
<1>4. y \in Numbers /\ Trimmed(y) /\ Bottom(y) >= Least(Bottom(p), Bottom(c))
    BY <1>1, <1>2, <1>3, MinusNumber
<1>5. Bottom(y) >= t
    <2>1. Bottom(y) \in Int
        BY <1>4, NumberIs
    <2>2. Least(Bottom(p), Bottom(c)) >= t /\ Least(Bottom(p), Bottom(c)) \in Int
        BY <1>1, <1>3 DEF Least
    <2>. QED BY <2>1, <2>2, <1>4
<1>6. ASSUME ~SignAlone(b), b.neg \/ p.exp <= b.exp + e, NEW s \in Int, t + s >= 0
      PROVE  Value(y, s) = Value(p, s) - Amount(b) * Rank(Bottom(b) + e + s)
    <2>1. ~SignAlone(c)
        BY <1>1, <1>6 DEF SignAlone
    <2>2. Negatable(c)
        BY <1>1, <1>3, <2>1, NotSignAlone
    <2>3. Opposite(nc, c)
        BY <1>1, NegateIs
    <2>4. nc \in Numbers /\ nc.exp = c.exp
        BY <2>3 DEF Opposite
    <2>5. nc.neg <=> Amount(c) > 0
        BY <1>1, <2>2, NegateSign
    <2>6. b.neg => Amount(b) < 0
        BY Negative
    <2>. HIDE DEF nc
    <2>7. Summable(p, nc)
        <3>1. CASE nc.neg
            <4>1. ~b.neg
                BY <3>1, <2>5, <2>6, <1>1, <1>3
            <4>2. p.exp <= nc.exp
                BY <4>1, <1>6, <1>1, <2>4
            <4>. QED BY <3>1, <4>2 DEF Summable
        <3>2. CASE ~nc.neg
            BY <3>2 DEF Summable, SignAlone
        <3>. QED BY <3>1, <3>2
    <2>8. Summable(p, negate(c))
        BY <2>7 DEF nc
    <2>9. Bottom(p) + s >= 0 /\ Bottom(c) + s >= 0
        BY <1>1, <1>3, <1>6
    <2>10. Value(y, s) = Value(p, s) - Value(c, s)
        BY <1>1, <1>2, <1>3, <2>2, <2>8, <2>9, MinusValue
    <2>11. Value(c, s) = Amount(b) * Rank(Bottom(b) + e + s)
        BY <1>1, ValueIs
    <2>. QED BY <2>10, <2>11
<1>7. Lessens(y, p, b, e, t)
    BY <1>4, <1>5, <1>6 DEF Lessens
<1>. QED BY <1>7 DEF c, y

(* p is the product of a and b, unless one of them is a sign alone          *)
Multiple(p, a, b) ==
    /\ p \in Numbers /\ Trimmed(p)
    /\ Bottom(p) >= Bottom(a) + Bottom(b)
    /\ ~SignAlone(a) /\ ~SignAlone(b) =>
          \A s \in Int : Bottom(a) + Bottom(b) + s >= 0
             => Value(p, s) = Amount(a) * Amount(b) * Rank(Bottom(a) + Bottom(b) + s)

(* The highest digit of the other factor makes the rank of what is          *)
(* subtracted.                                                              *)
LEMMA RankBeyond ==
    ASSUME NEW a \in Numbers, NEW b \in Numbers, NEW s \in Int, Bottom(a) + Bottom(b) + s >= 0
    PROVE  Rank(Bottom(b) + (a.exp + 1) + s)
           = Rank(Len(a.digits)) * Rank(Bottom(a) + Bottom(b) + s)
<1>. DEFINE m == Len(a.digits)
            ea == a.exp
            u == Bottom(a) + Bottom(b) + s
            c == Bottom(b)
<1>1. m \in Nat /\ ea \in Int /\ c \in Int
    BY NumberIs
<1>2. Bottom(a) = ea - m + 1
    BY DEF Bottom
<1>3. u = (ea - m + 1) + c + s
    BY <1>2
<1>. HIDE DEF m, ea, c
<1>4. u \in Nat
    <2>1. u >= 0
        BY DEF c
    <2>. HIDE DEF u
    <2>. QED BY <1>1, <1>3, <2>1
<1>. HIDE DEF u
<1>5. c + (ea + 1) + s = m + u
    BY <1>1, <1>3
<1>6. Rank(m + u) = Rank(m) * Rank(u)
    BY <1>1, <1>4, RankSum
<1>. QED BY <1>5, <1>6 DEF m, u, ea, c

(* The sizes of a number's amount. *)
LEMMA SizesIs ==
    ASSUME NEW a \in Numbers, Len(a.digits) > 0
    PROVE  /\ Amount(a) \in Int /\ Read(a.digits, Len(a.digits)) \in Nat /\ Rank(Len(a.digits)) \in Nat
           /\ Read(a.digits, Len(a.digits)) < Rank(Len(a.digits))
           /\ a.neg => Amount(a) = Read(a.digits, Len(a.digits)) - Rank(Len(a.digits))
           /\ ~a.neg => Amount(a) = Read(a.digits, Len(a.digits))
           /\ Bottom(a) \in Int /\ a.exp \in Int
           /\ Bottom(a) <= a.exp
<1>1. Len(a.digits) \in Nat /\ Digits(a.digits, Len(a.digits)) /\ Amount(a) \in Int /\ Bottom(a) \in Int
      /\ a.exp \in Int
    BY NumberIs
<1>2. Read(a.digits, Len(a.digits)) \in Nat /\ Read(a.digits, Len(a.digits)) < Rank(Len(a.digits))
    BY <1>1, ReadBound
<1>3. Rank(Len(a.digits)) \in Nat
    BY <1>1, RankNext
<1>4. a.neg => Amount(a) = Read(a.digits, Len(a.digits)) - Rank(Len(a.digits))
    BY Negative
<1>5. ~a.neg => Amount(a) = Read(a.digits, Len(a.digits))
    BY Positive
<1>6. Bottom(a) <= a.exp
    <2>. DEFINE n == Len(a.digits)
                e == a.exp
    <2>1. Bottom(a) = e - n + 1 /\ n \in Nat /\ n > 0 /\ e \in Int
        BY <1>1 DEF Bottom
    <2>. HIDE DEF n, e
    <2>2. Bottom(a) <= e
        BY <2>1
    <2>. QED BY <2>2 DEF e
<1>. QED BY <1>1, <1>2, <1>3, <1>4, <1>5, <1>6

(* What the digits of a negative number have too much, times the other one. *)
LEMMA SignAlgebra ==
    ASSUME NEW A \in Int, NEW B \in Int, NEW M \in Int, NEW N \in Int, NEW R \in Int
    PROVE  /\ A * B * R - B * (M * R) = (A - M) * B * R
           /\ A * B * R - A * (N * R) = A * (B - N) * R
           /\ A * B * R - (B - N) * (M * R) - (A - M) * (N * R) - 1 * (M * N * R) = (A - M) * (B - N) * R
<1>1. A * B * R - B * (M * R) = (A - M) * B * R
    <2>1. (A - M) * B = A * B - B * M
        OBVIOUS
    <2>. DEFINE u == A * B
                v == B * M
    <2>2. u \in Int /\ v \in Int /\ B * (M * R) = v * R
        OBVIOUS
    <2>. HIDE DEF u, v
    <2>3. (u - v) * R = u * R - v * R
        BY <2>2
    <2>. QED BY <2>1, <2>2, <2>3 DEF u, v
<1>2. A * B * R - A * (N * R) = A * (B - N) * R
    <2>1. A * (B - N) = A * B - A * N
        OBVIOUS
    <2>. DEFINE u == A * B
                v == A * N
    <2>2. u \in Int /\ v \in Int /\ A * (N * R) = v * R
        OBVIOUS
    <2>. HIDE DEF u, v
    <2>3. (u - v) * R = u * R - v * R
        BY <2>2
    <2>. QED BY <2>1, <2>2, <2>3 DEF u, v
<1>3. A * B * R - (B - N) * (M * R) - (A - M) * (N * R) - 1 * (M * N * R) = (A - M) * (B - N) * R
    <2>. DEFINE ab == A * B * R
                bm == B * (M * R)
                mn == M * N * R
                an == A * (N * R)
    <2>1. (B - N) * (M * R) = bm - mn
        <3>1. (B - N) * M = B * M - M * N
            OBVIOUS
        <3>. DEFINE u == B * M
                    v == M * N
        <3>2. u \in Int /\ v \in Int /\ u - v = (B - N) * M /\ bm = u * R
            BY <3>1
        <3>. HIDE DEF u, v
        <3>3. (u - v) * R = u * R - v * R
            BY <3>2
        <3>4. (B - N) * (M * R) = ((B - N) * M) * R
            OBVIOUS
        <3>. QED BY <3>2, <3>3, <3>4 DEF v
    <2>2. (A - M) * (N * R) = an - mn
        <3>1. (A - M) * N = A * N - M * N
            OBVIOUS
        <3>. DEFINE u == A * N
                    v == M * N
        <3>2. u \in Int /\ v \in Int /\ u - v = (A - M) * N /\ an = u * R
            BY <3>1
        <3>. HIDE DEF u, v
        <3>3. (u - v) * R = u * R - v * R
            BY <3>2
        <3>4. (A - M) * (N * R) = ((A - M) * N) * R
            OBVIOUS
        <3>. QED BY <3>2, <3>3, <3>4 DEF v
    <2>3. (A - M) * (B - N) * R = ab - bm - an + mn
        <3>1. (A - M) * (B - N) = A * B - B * M - A * N + M * N
            OBVIOUS
        <3>. DEFINE u == A * B
                    v == B * M
                    w == A * N
                    z == M * N
        <3>2. u \in Int /\ v \in Int /\ w \in Int /\ z \in Int /\ (A - M) * (B - N) = u - v - w + z
              /\ ab = u * R /\ mn = z * R
            BY <3>1
        <3>3. bm = v * R
            OBVIOUS
        <3>4. an = w * R
            OBVIOUS
        <3>. HIDE DEF u, v, w, z
        <3>5. (u - v - w + z) * R = u * R - v * R - w * R + z * R
            BY <3>2
        <3>. HIDE DEF ab, bm, an, mn
        <3>. QED BY <3>2, <3>3, <3>4, <3>5
    <2>4. ab \in Int /\ bm \in Int /\ an \in Int /\ mn \in Int
        <3>1. A * B \in Int /\ M * R \in Int /\ N * R \in Int /\ M * N \in Int
            OBVIOUS
        <3>. QED BY <3>1
    <2>. HIDE DEF bm, an
    <2>5. ab - (bm - mn) - (an - mn) - 1 * mn = ab - bm - an + mn
        <3>. HIDE DEF ab, mn
        <3>. QED BY <2>4
    <2>. QED BY <2>1, <2>2, <2>3, <2>5
<1>. QED BY <1>1, <1>2, <1>3

(* A negative amount times another. *)
LEMMA LessTimes ==
    ASSUME NEW A \in Nat, NEW M \in Nat, A < M, NEW u \in Nat
    PROVE  (A - M) * u \in Int /\ (A - M) * u <= 0
<1>1. (A - M) * u = A * u - M * u
    OBVIOUS
<1>2. A * u <= M * u
    OBVIOUS
<1>3. A * u \in Int /\ M * u \in Int
    OBVIOUS
<1>. QED BY <1>1, <1>2, <1>3

(* What is not below the lesser of two is not below what is below both. *)
LEMMA LeastBound ==
    ASSUME NEW m \in Int, NEW n \in Int, NEW t \in Int, m >= t, n >= t,
           NEW y \in Int, y >= Least(m, n)
    PROVE  y >= t
BY DEF Least

(* Whatever the signs, the product is that of the two values. *)
LEMMA TimesIs ==
    ASSUME NEW a \in Numbers, NEW b \in Numbers, Len(a.digits) > 0, Len(b.digits) > 0
    PROVE  Multiple(Times(a, b), a, b)
<1>. DEFINE p == Products(a, b)
            A == Read(a.digits, Len(a.digits))
            B == Read(b.digits, Len(b.digits))
            M == Rank(Len(a.digits))
            N == Rank(Len(b.digits))
            ea == a.exp
            eb == b.exp
            ta == Bottom(a)
            tb == Bottom(b)
            t == ta + tb
            y == Times(a, b)
            ba == Ranked(b, ea + 1)
            ab == Ranked(a, eb + 1)
            p1 == Minus(p, ba)
            p2 == Minus(p1, ab)
<1>1. /\ A \in Nat /\ B \in Nat /\ M \in Nat /\ N \in Nat /\ A < M /\ B < N
      /\ ta \in Int /\ tb \in Int /\ ea \in Int /\ eb \in Int /\ ta <= ea /\ tb <= eb /\ t \in Int
    <2>1. A \in Nat /\ M \in Nat /\ A < M /\ ta \in Int /\ ea \in Int /\ ta <= ea
        BY SizesIs
    <2>2. B \in Nat /\ N \in Nat /\ B < N /\ tb \in Int /\ eb \in Int /\ tb <= eb
        BY SizesIs
    <2>3. t \in Int
        BY <2>1, <2>2
    <2>. QED BY <2>1, <2>2, <2>3
<1>2. (a.neg => Amount(a) = A - M) /\ (~a.neg => Amount(a) = A)
    BY SizesIs
<1>3. (b.neg => Amount(b) = B - N) /\ (~b.neg => Amount(b) = B)
    BY SizesIs
<1>4. /\ p \in Numbers /\ Trimmed(p) /\ ~p.neg /\ Bottom(p) >= t /\ p.exp <= ea + eb + 1
      /\ \A s \in Int : t + s >= 0 => Value(p, s) = A * B * Rank(t + s)
    <2>1. Multiplied(p, a, b)
        BY ProductsIs
    <2>. QED BY <2>1 DEF Multiplied
<1>5. shift(b, Bits * (a.exp + 1)) = ba /\ shift(a, Bits * (b.exp + 1)) = ab
    <2>1. a.exp + 1 \in Int /\ b.exp + 1 \in Int
        BY <1>1, SMTT(30)
    <2>. HIDE DEF ea, eb
    <2>. QED BY <2>1, ShiftDigits DEF ea, eb
<1>6. /\ ~a.neg /\ ~b.neg => y = p
      /\ a.neg /\ ~b.neg => y = p1
      /\ ~a.neg /\ b.neg => y = Minus(p, ab)
      /\ a.neg /\ b.neg => y = sub(p2, 1, a.exp + b.exp + 2)
    <2>. HIDE DEF ab, ba, p
    <2>. QED BY <1>5 DEF Times, Unit, Signed, OfSecond, OfFirst, p
<1>7. ASSUME NEW s \in Int, t + s >= 0
      PROVE  /\ Rank(t + s) \in Nat
             /\ Rank(tb + (ea + 1) + s) = M * Rank(t + s)
             /\ Rank(ta + (eb + 1) + s) = N * Rank(t + s)
    <2>1. t + s \in Nat
        BY <1>1, <1>7
    <2>2. Rank(t + s) \in Nat
        BY <2>1, RankNext
    <2>3. Bottom(a) + Bottom(b) + s >= 0
        BY <1>7
    <2>4. Rank(Bottom(b) + (a.exp + 1) + s) = M * Rank(Bottom(a) + Bottom(b) + s)
        BY <2>3, RankBeyond
    <2>5. Bottom(b) + Bottom(a) + s >= 0 /\ Bottom(b) + Bottom(a) + s = Bottom(a) + Bottom(b) + s
        <3>1. Bottom(b) + Bottom(a) = Bottom(a) + Bottom(b)
            BY <1>1
        <3>. QED BY <3>1, <2>3
    <2>6. Rank(Bottom(a) + (b.exp + 1) + s) = N * Rank(Bottom(b) + Bottom(a) + s)
        BY <2>5, RankBeyond
    <2>. QED BY <2>2, <2>4, <2>5, <2>6
<1>8. Lessens(p1, p, b, ea + 1, t)
    <2>1. ea + 1 \in Int /\ Bottom(b) + (ea + 1) >= t
        BY <1>1
    <2>. HIDE DEF p, t, ea
    <2>. QED BY <1>1, <1>4, <2>1, MinusRanked
<1>9. ta = Bottom(a) /\ tb = Bottom(b) /\ t = Bottom(a) + Bottom(b) /\ ea = a.exp /\ eb = b.exp
    OBVIOUS
<1>10. ASSUME NEW s \in Int, t + s >= 0
       PROVE  LET R == Rank(t + s)
              IN /\ A * B * R - B * (M * R) = (A - M) * B * R
                 /\ A * B * R - A * (N * R) = A * (B - N) * R
                 /\ A * B * R - (B - N) * (M * R) - (A - M) * (N * R) - 1 * (M * N * R)
                    = (A - M) * (B - N) * R
    <2>1. Rank(t + s) \in Int /\ A \in Int /\ B \in Int /\ M \in Int /\ N \in Int
        BY <1>1, <1>7, <1>10
    <2>. DEFINE R == Rank(t + s)
    <2>2. R \in Int
        BY <2>1
    <2>. HIDE DEF A, B, M, N, t, R
    <2>3. /\ A * B * R - B * (M * R) = (A - M) * B * R
          /\ A * B * R - A * (N * R) = A * (B - N) * R
          /\ A * B * R - (B - N) * (M * R) - (A - M) * (N * R) - 1 * (M * N * R)
             = (A - M) * (B - N) * R
        BY <2>1, <2>2, SignAlgebra
    <2>. QED BY <2>3 DEF R
<1>11. CASE ~a.neg /\ ~b.neg
    <2>1. y = p /\ Amount(a) = A /\ Amount(b) = B
        BY <1>2, <1>3, <1>6, <1>11
    <2>. HIDE DEF y, p, t, A, B
    <2>. QED BY <2>1, <1>4 DEF Multiple, t, y
<1>12. CASE a.neg /\ ~b.neg
    <2>1. y = p1 /\ Amount(a) = A - M /\ Amount(b) = B
        BY <1>2, <1>3, <1>6, <1>12
    <2>2. y \in Numbers /\ Trimmed(y) /\ Bottom(y) >= t
        BY <2>1, <1>8 DEF Lessens
    <2>3. p.exp <= b.exp + (ea + 1)
        <3>1. p.exp \in Int
            BY <1>4, NumberIs
        <3>. HIDE DEF p
        <3>. QED BY <3>1, <1>1, <1>4
    <2>. HIDE DEF y, p1, p, t, ea, eb, ta, tb, A, B, M, N
    <2>4. ASSUME ~SignAlone(b), NEW s \in Int, t + s >= 0
          PROVE  Value(y, s) = Amount(a) * Amount(b) * Rank(t + s)
        <3>1. Value(p1, s) = Value(p, s) - Amount(b) * Rank(Bottom(b) + (ea + 1) + s)
            BY <1>8, <2>3, <2>4 DEF Lessens
        <3>2. Value(p, s) = A * B * Rank(t + s)
            BY <1>4, <2>4
        <3>3. Rank(Bottom(b) + (ea + 1) + s) = M * Rank(t + s)
            BY <1>7, <1>9, <2>4
        <3>4. A * B * Rank(t + s) - B * (M * Rank(t + s)) = (A - M) * B * Rank(t + s)
            BY <1>10, <2>4
        <3>. QED BY <2>1, <3>1, <3>2, <3>3, <3>4
    <2>. QED BY <2>2, <2>4, <1>9 DEF Multiple, y
<1>13. CASE ~a.neg /\ b.neg
    <2>. DEFINE q == Minus(p, ab)
    <2>0. Lessens(q, p, a, eb + 1, t)
        <3>1. eb + 1 \in Int /\ Bottom(a) + (eb + 1) >= t
            BY <1>1
        <3>. HIDE DEF p, t, eb
        <3>. QED BY <1>1, <1>4, <3>1, MinusRanked
    <2>1. y = q /\ Amount(a) = A /\ Amount(b) = B - N
        BY <1>2, <1>3, <1>6, <1>13
    <2>2. y \in Numbers /\ Trimmed(y) /\ Bottom(y) >= t
        BY <2>1, <2>0 DEF Lessens
    <2>3. p.exp <= a.exp + (eb + 1)
        <3>1. p.exp \in Int
            BY <1>4, NumberIs
        <3>. HIDE DEF p
        <3>. QED BY <3>1, <1>1, <1>4
    <2>. HIDE DEF y, q, p, t, ea, eb, ta, tb, A, B, M, N
    <2>4. ASSUME ~SignAlone(a), NEW s \in Int, t + s >= 0
          PROVE  Value(y, s) = Amount(a) * Amount(b) * Rank(t + s)
        <3>1. Value(q, s) = Value(p, s) - Amount(a) * Rank(Bottom(a) + (eb + 1) + s)
            BY <2>0, <2>3, <2>4 DEF Lessens
        <3>2. Value(p, s) = A * B * Rank(t + s)
            BY <1>4, <2>4
        <3>3. Rank(Bottom(a) + (eb + 1) + s) = N * Rank(t + s)
            BY <1>7, <1>9, <2>4
        <3>4. A * B * Rank(t + s) - A * (N * Rank(t + s)) = A * (B - N) * Rank(t + s)
            BY <1>10, <2>4
        <3>. QED BY <2>1, <3>1, <3>2, <3>3, <3>4
    <2>. QED BY <2>2, <2>4, <1>9 DEF Multiple, y
<1>14. CASE a.neg /\ b.neg
    <2>. DEFINE k == a.exp + b.exp + 2
    <2>1. y = sub(p2, 1, k) /\ Amount(a) = A - M /\ Amount(b) = B - N
        BY <1>2, <1>3, <1>6, <1>14
    <2>2. p1 \in Numbers /\ Trimmed(p1) /\ Bottom(p1) >= t
        BY <1>8 DEF Lessens
    <2>3. ab \in Numbers /\ Len(ab.digits) > 0
        <3>1. eb + 1 \in Int
            BY <1>1
        <3>. HIDE DEF eb
        <3>2. ab \in Numbers /\ ab.digits = a.digits
            BY <3>1, RankedIs
        <3>. QED BY <3>2
    <2>4. p2 \in Numbers /\ Trimmed(p2)
        <3>. HIDE DEF p1, ab
        <3>. QED BY <2>2, <2>3, MinusNumber
    <2>5. Len(p2.digits) > 0
        <3>. HIDE DEF p2
        <3>. QED BY <2>4, TrimmedIs
    <2>6. 1 \in Digit /\ k \in Int /\ k = ea + eb + 2
        BY BaseIs, <1>1
    <2>7. y \in Numbers /\ Trimmed(y) /\ Bottom(y) >= t
        <3>1. y \in Numbers /\ Trimmed(y) /\ Bottom(y) >= Least(Bottom(p2), k)
            <4>. HIDE DEF y, p2, k
            <4>. QED BY <2>1, <2>4, <2>5, <2>6, SubIs
        <3>2. Bottom(ab) >= t /\ Bottom(ab) \in Int
            <4>1. eb + 1 \in Int
                BY <1>1
            <4>. HIDE DEF eb
            <4>2. Bottom(ab) = Bottom(a) + (eb + 1)
                BY <4>1, RankedIs
            <4>. HIDE DEF ab
            <4>. QED BY <4>2, <1>1
        <3>3. Bottom(p2) >= Least(Bottom(p1), Bottom(ab))
            <4>. HIDE DEF p1, ab
            <4>. QED BY <2>2, <2>3, MinusNumber
        <3>4. Bottom(p1) \in Int
            <4>. HIDE DEF p1
            <4>. QED BY <2>2, NumberIs
        <3>5. Bottom(p2) \in Int
            <4>. HIDE DEF p2
            <4>. QED BY <2>4, NumberIs
        <3>6. Bottom(y) \in Int
            <4>. HIDE DEF y
            <4>. QED BY <3>1, NumberIs
        <3>7. k >= t
            <4>. HIDE DEF k
            <4>. QED BY <1>1, <2>6, SMTT(30)
        <3>. HIDE DEF y, p2, p1, ab, k, t
        <3>8. Bottom(p2) >= t
            BY <3>2, <3>3, <3>4, <3>5, <2>2, <1>1, LeastBound
        <3>9. Bottom(y) >= t
            BY <3>1, <3>5, <3>6, <3>7, <3>8, <2>6, <1>1, LeastBound
        <3>. QED BY <3>1, <3>9
    <2>8. ASSUME ~SignAlone(a), ~SignAlone(b), NEW s \in Int, t + s >= 0
          PROVE  Value(y, s) = Amount(a) * Amount(b) * Rank(t + s)
        <3>. DEFINE R == Rank(t + s)
        <3>0. p.exp \in Int
            BY <1>4, NumberIs
        <3>1. Value(p1, s) = Value(p, s) - Amount(b) * Rank(Bottom(b) + (ea + 1) + s)
            <4>. HIDE DEF p1, p, t, ea
            <4>. QED BY <1>8, <1>14, <2>8 DEF Lessens
        <3>2. Value(p, s) = A * B * R
            BY <1>4, <2>8
        <3>3. Rank(Bottom(b) + (ea + 1) + s) = M * R /\ Rank(Bottom(a) + (eb + 1) + s) = N * R /\ R \in Nat
            <4>. HIDE DEF ea, eb, M, N, t
            <4>. QED BY <1>7, <1>9, <2>8
        <3>4. ~p1.neg
            <4>. DEFINE V1 == Value(p1, s)
            <4>1. V1 = A * B * R - (B - N) * (M * R)
                BY <3>1, <3>2, <3>3, <2>1
            <4>. HIDE DEF V1, A, B, N, M, R
            <4>2. A * B * R \in Nat
                <5>1. A * B \in Nat
                    BY <1>1
                <5>. QED BY <5>1, <3>3
            <4>3. M * R \in Nat
                BY <1>1, <3>3
            <4>4. (B - N) * (M * R) \in Int /\ (B - N) * (M * R) <= 0
                BY <1>1, <4>3, LessTimes
            <4>5. V1 >= 0
                BY <4>1, <4>2, <4>4
            <4>6. Bottom(p1) + s >= 0
                <5>1. Bottom(p1) \in Int
                    <6>. HIDE DEF p1
                    <6>. QED BY <2>2, NumberIs
                <5>. HIDE DEF p1, t
                <5>. QED BY <5>1, <2>2, <2>8, <1>1
            <4>7. V1 \in Int /\ (p1.neg => V1 < 0)
                <5>. HIDE DEF p1
                <5>. QED BY <2>2, <4>6, ValueSign DEF V1
            <4>. QED BY <4>5, <4>7
        <3>5. Lessens(p2, p1, a, eb + 1, t)
            <4>1. eb + 1 \in Int /\ Bottom(a) + (eb + 1) >= t
                BY <1>1
            <4>. HIDE DEF p1, t, eb
            <4>. QED BY <1>1, <2>2, <3>4, <4>1, MinusRanked
        <3>6. Value(p2, s) = Value(p1, s) - Amount(a) * Rank(Bottom(a) + (eb + 1) + s)
            <4>. HIDE DEF p1, p2, t, eb
            <4>. QED BY <3>5, <1>14, <2>8 DEF Lessens
        <3>7. Bottom(p2) >= t
            <4>. HIDE DEF p2, p1
            <4>. QED BY <3>5 DEF Lessens
        <3>8. Bottom(p1) + s >= 0 /\ Bottom(p2) + s >= 0
            <4>1. Bottom(p1) \in Int
                <5>. HIDE DEF p1
                <5>. QED BY <2>2, NumberIs
            <4>2. Bottom(p2) \in Int
                <5>. HIDE DEF p2
                <5>. QED BY <2>4, NumberIs
            <4>. HIDE DEF p1, p2, t
            <4>. QED BY <4>1, <4>2, <2>2, <2>8, <3>7, <1>1, SMTT(30)
        <3>9. ~p2.neg
            <4>. DEFINE V1 == Value(p1, s)
                        V2 == Value(p2, s)
            <4>1. V2 = V1 - (A - M) * (N * R)
                BY <3>3, <3>6, <2>1
            <4>2. V1 \in Int /\ (~p1.neg => V1 >= 0)
                <5>. HIDE DEF p1
                <5>. QED BY <2>2, <3>8, ValueSign
            <4>3. V2 \in Int /\ (p2.neg => V2 < 0)
                <5>. HIDE DEF p2
                <5>. QED BY <2>4, <3>8, ValueSign
            <4>. HIDE DEF V1, V2, A, B, N, M, R
            <4>4. N * R \in Nat
                BY <1>1, <3>3
            <4>5. (A - M) * (N * R) \in Int /\ (A - M) * (N * R) <= 0
                BY <1>1, <4>4, LessTimes
            <4>. QED BY <3>4, <4>1, <4>2, <4>3, <4>5
        <3>10. Rank(k + s) = M * N * R /\ k + s >= 0
            <4>. DEFINE m == Len(a.digits)
                        n == Len(b.digits)
                        u == t + s
            <4>1. /\ m \in Nat /\ n \in Nat /\ u \in Nat
                  /\ t = (ea - m + 1) + (eb - n + 1)
                <5>1. m \in Nat /\ n \in Nat
                    BY NumberIs
                <5>2. ta = ea - m + 1 /\ tb = eb - n + 1
                    BY DEF Bottom
                <5>3. u \in Nat
                    BY <1>1, <2>8
                <5>. HIDE DEF m, n, u, ta, tb, ea, eb
                <5>. QED BY <5>1, <5>2, <5>3
            <4>2. u = t + s
                OBVIOUS
            <4>. HIDE DEF m, n, u, t, ea, eb, k
            <4>3. k + s = m + (n + u) /\ n + u \in Nat /\ m + (n + u) \in Nat
                BY <4>1, <4>2, <2>6, <1>1
            <4>4. Rank(n + u) = Rank(n) * Rank(u)
                BY <4>1, RankSum
            <4>5. Rank(m + (n + u)) = Rank(m) * Rank(n + u)
                BY <4>1, <4>3, RankSum
            <4>6. Rank(m) = M /\ Rank(n) = N /\ Rank(u) = R
                BY <4>2 DEF m, n
            <4>. HIDE DEF M, N, R
            <4>7. M * (N * R) = M * N * R
                BY <1>1, <3>3
            <4>. QED BY <4>3, <4>4, <4>5, <4>6, <4>7
        <3>11. Value(y, s) = Value(p2, s) - 1 * Rank(k + s)
            <4>1. ~SignAlone(p2)
                <5>. HIDE DEF p2
                <5>. QED BY <3>9 DEF SignAlone
            <4>. HIDE DEF y, p2, k
            <4>. QED BY <2>1, <2>4, <2>5, <2>6, <3>8, <3>10, <4>1, SubIs
        <3>12. A * B * R - (B - N) * (M * R) - (A - M) * (N * R) - 1 * (M * N * R)
               = (A - M) * (B - N) * R
            BY <1>10, <2>8
        <3>. HIDE DEF y, p2, p1, p, k, A, B, M, N, ea, eb, ta, tb
        <3>13. Value(y, s) = (A - M) * (B - N) * R
            BY <3>1, <3>2, <3>3, <3>6, <3>10, <3>11, <3>12, <2>1
        <3>. QED BY <3>13, <2>1
    <2>. QED BY <2>7, <2>8, <1>9, <1>14 DEF Multiple
<1>. QED BY <1>11, <1>12, <1>13, <1>14

(* A product is exact, unless a factor is a sign alone. *)
LEMMA ProductValue ==
    ASSUME NEW a \in Numbers, NEW b \in Numbers, Len(a.digits) > 0, Len(b.digits) > 0,
           ~SignAlone(a), ~SignAlone(b), NEW s \in Nat, Bottom(a) + s >= 0, Bottom(b) + s >= 0
    PROVE  Value(Times(a, b), 2 * s) = Value(a, s) * Value(b, s)
<1>. DEFINE u == Bottom(a) + s
            v == Bottom(b) + s
            A == Amount(a)
            B == Amount(b)
            t == Bottom(a) + Bottom(b) + 2 * s
<1>1. u \in Nat /\ v \in Nat /\ t = u + v /\ 2 * s \in Int /\ t \in Nat /\ A \in Int /\ B \in Int
    <2>1. Bottom(a) \in Int /\ A \in Int
        BY NumberIs
    <2>2. Bottom(b) \in Int /\ B \in Int
        BY NumberIs
    <2>. QED BY <2>1, <2>2, SMTT(30)
<1>2. Multiple(Times(a, b), a, b)
    BY TimesIs
<1>3. Value(Times(a, b), 2 * s) = A * B * Rank(t)
    BY <1>1, <1>2 DEF Multiple
<1>4. Value(a, s) = A * Rank(u) /\ Value(b, s) = B * Rank(v)
    BY ValueIs
<1>. HIDE DEF u, v, A, B, t
<1>5. Rank(t) = Rank(u) * Rank(v)
    BY <1>1, RankSum
<1>6. Rank(u) \in Nat
    BY <1>1, RankNext
<1>7. Rank(v) \in Nat
    BY <1>1, RankNext
<1>. DEFINE x1 == Rank(u)
            x2 == Rank(v)
<1>8. x1 \in Int /\ x2 \in Int
    BY <1>6, <1>7
<1>. HIDE DEF x1, x2
<1>9. A * B * (x1 * x2) = (A * x1) * (B * x2)
    BY <1>1, <1>8
<1>. QED BY <1>3, <1>4, <1>5, <1>9 DEF x1, x2

==============================================================================
