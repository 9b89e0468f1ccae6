---------------------------- MODULE DigitalProofs ----------------------------
(***************************************************************************)
(* What the operators of Digital promise of every number, and of every     *)
(* state of its client, for every base, precision and bound; and what      *)
(* Rational's round() makes of a fraction, turn by turn.                   *)
(***************************************************************************)
EXTENDS DigitalLemmas, Rational

-------------------------------------------------------------------------------
(* Zero, and numbers of one digit *)

(* Four zeros are trimmed to one. *)
LEMMA ZerosTrimmed ==
    ASSUME NEW a \in Numbers, ~a.neg, a.exp = 3, Len(a.digits) = 4,
           \A i \in 1..Len(a.digits) : a.digits[i] = 0
    PROVE  trim(a) = Zero
<1>. DEFINE w == trim(a)
            f == Leading(a)
            g == Behind(a)
<1>1. Widens(a, w, f, g) /\ Trimmed(w)
    BY TrimIs
<1>. HIDE DEF w, f, g
<1>2. w \in Numbers /\ Len(w.digits) > 0
    BY <1>1, TrimmedIs
<1>3. /\ f \in Nat /\ g \in Nat /\ (w.neg <=> a.neg) /\ Len(a.digits) = f + Len(w.digits) + g
      /\ \A i \in 1..Len(w.digits) : a.digits[f + i] = w.digits[i]
    BY <1>1 DEF Widens
<1>4. w.digits[1] = 0
    <2>. DEFINE n == Len(w.digits)
    <2>1. n \in Nat /\ n > 0 /\ 4 = f + n + g
        BY <1>2, <1>3, NumberIs
    <2>. HIDE DEF n
    <2>2. 1 \in 1..n /\ f + 1 \in 1..4
        BY <1>3, <2>1
    <2>3. a.digits[f + 1] = w.digits[1] /\ a.digits[f + 1] = 0
        BY <1>3, <2>2 DEF n
    <2>. QED BY <2>3
<1>5. w.digits = << 0 >>
    BY <1>1, <1>3, <1>4, FirstNotZero
<1>6. w.exp = 0
    <2>1. w.exp = Bottom(a)
        BY <1>5, ZeroTrim DEF w
    <2>2. Bottom(a) = 0
        BY DEF Bottom
    <2>. QED BY <2>1, <2>2
<1>7. w = [neg |-> w.neg, exp |-> w.exp, digits |-> w.digits]
    BY <1>2 DEF Numbers
<1>8. w.neg = FALSE
    <2>1. w.neg \in BOOLEAN
        BY <1>2, NumberIs
    <2>. QED BY <2>1, <1>3
<1>9. w = Zero
    BY <1>5, <1>6, <1>7, <1>8 DEF Zero
<1>. QED BY <1>9 DEF w

(* Digital(0) is 0. *)
LEMMA NumberZero == Number(0) \in Numbers /\ Trimmed(Number(0)) /\ Number(0) = Zero
<1>. DEFINE d == [i \in 1..4 |-> (0 \div Power(Base, 4 - i)) % Base]
            a == [neg |-> FALSE, exp |-> 3, digits |-> d]
<1>1. ASSUME NEW i \in 1..4 PROVE d[i] = 0
    <2>1. 4 - i \in Nat
        OBVIOUS
    <2>2. Power(Base, 4 - i) \in Nat \ {0}
        <3>1. Rank(4 - i) \in Nat /\ Rank(4 - i) > 0
            BY <2>1, RankNext
        <3>. QED BY <3>1 DEF Rank
    <2>. DEFINE r == Power(Base, 4 - i)
    <2>3. r \in Nat \ {0}
        BY <2>2
    <2>. HIDE DEF r
    <2>4. 0 \div r = 0
        <3>1. 0 = r * 0 + 0 /\ 0 \in 0..(r - 1)
            BY <2>3
        <3>. QED BY <3>1, <2>3, Divided2
    <2>5. 0 % Base = 0
        BY BaseIs
    <2>6. d[i] = (0 \div r) % Base
        BY DEF r
    <2>. QED BY <2>4, <2>5, <2>6
<1>2. d = [i \in 1..4 |-> 0]
    <2>1. d = [i \in 1..4 |-> d[i]]
        OBVIOUS
    <2>. HIDE DEF d
    <2>. QED BY <1>1, <2>1
<1>3. Number(0) = trim(a)
    BY DEF Number
<1>4. d \in Seq(Digit) /\ Len(d) = 4
    <2>. HIDE DEF d
    <2>1. d \in [1..4 -> Digit]
        BY <1>2, BaseIs
    <2>2. 4 \in Nat
        OBVIOUS
    <2>. QED BY <2>1, <2>2, MadeSeq
<1>5. a \in Numbers /\ ~a.neg /\ a.exp = 3 /\ a.digits = d
    <2>. HIDE DEF d
    <2>. QED BY <1>4 DEF Numbers
<1>. HIDE DEF a, d
<1>6. \A i \in 1..Len(a.digits) : a.digits[i] = 0
    BY <1>1, <1>4, <1>5
<1>7. Len(a.digits) = 4
    BY <1>4, <1>5
<1>8. trim(a) = Zero
    BY <1>5, <1>6, <1>7, ZerosTrimmed
<1>9. Trimmed(trim(a)) /\ trim(a) \in Numbers
    BY <1>5, <1>7, TrimIs, TrimFits, SMTT(30)
<1>. QED BY <1>3, <1>8, <1>9

(* Only zeros of no higher rank than 0 are taken for zero. *)
LEMMA EqualsZero ==
    ASSUME NEW a \in Numbers
    PROVE  cmp(a, Number(0), "Eq") <=> ~a.neg /\ a.exp <= 0 /\ a.digits = << 0 >>
<1>. DEFINE z == Zero
            d == a.digits
            e == z.digits
            S == {i \in DOMAIN d : d[i] # e[i]}
<1>1. Number(0) = z /\ z \in Numbers /\ ~z.neg /\ z.exp = 0 /\ e = << 0 >> /\ Len(e) = 1
    BY NumberZero DEF Zero
<1>2. a.neg \in BOOLEAN /\ a.exp \in Int /\ d \in Seq(Digit) /\ Len(d) \in Nat /\ e \in Seq(Digit)
    <2>1. e \in Seq(Digit)
        BY <1>1, NumberIs
    <2>. QED BY <2>1, NumberIs
<1>. HIDE DEF z
<1>3. CASE a.neg
    <2>1. a.neg # z.neg
        BY <1>1, <1>3
    <2>2. ~cmp(a, z, "Eq")
        BY <1>1, <1>3, <2>1 DEF cmp
    <2>. QED BY <1>1, <1>3, <2>2
<1>4. CASE ~a.neg
    <2>1. ~(a.neg # z.neg)
        <3>1. z.neg \in BOOLEAN
            BY <1>1, NumberIs
        <3>. QED BY <3>1, <1>1, <1>2, <1>4
    <2>2. cmp(a, z, "Eq") <=> Decides(a, z) = 0
        <3>1. "Eq" # "Greater"
            OBVIOUS
        <3>. QED BY <2>1, <3>1 DEF cmp
    <2>3. CASE a.exp > 0
        <3>1. Decides(a, z) = 1
            BY <2>3, <1>1 DEF Decides
        <3>. QED BY <2>2, <2>3, <3>1, <1>1, <1>2
    <2>4. CASE ~(a.exp > 0) /\ Len(d) # 1
        <3>. DEFINE n == Len(d)
        <3>1. Decides(a, z) = n - 1
            BY <2>4, <1>1 DEF Decides
        <3>2. n - 1 # 0
            <4>1. n \in Nat /\ n # 1
                BY <1>2, <2>4
            <4>. HIDE DEF n
            <4>. QED BY <4>1
        <3>3. d # << 0 >>
            BY <2>4
        <3>. QED BY <2>2, <3>1, <3>2, <3>3, <1>1
    <2>5. CASE ~(a.exp > 0) /\ Len(d) = 1
        <3>1. Decides(a, z) = IF S = {} THEN 0 ELSE d[Min(S)] - e[Min(S)]
            BY <2>5, <1>1 DEF Decides
        <3>2. S = {i \in DOMAIN d : d[i] # e[i]} /\ Len(d) = Len(e)
            BY <1>1, <2>5
        <3>. HIDE DEF S, d, e
        <3>3. /\ S = {} => d = e
              /\ S # {} => FirstDiffers(Min(S), d, e)
            BY <1>2, <3>2, DifferIs
        <3>4. CASE S = {}
            <4>1. Decides(a, z) = 0 /\ d = << 0 >>
                BY <3>1, <3>3, <3>4, <1>1
            <4>. QED BY <4>1, <2>2, <2>5, <1>1, <1>2, <1>4 DEF d
        <3>5. CASE S # {}
            <4>. DEFINE i == Min(S)
            <4>1. i \in 1..Len(d) /\ d[i] # e[i]
                BY <3>3, <3>5 DEF FirstDiffers
            <4>2. Decides(a, z) = d[i] - e[i]
                BY <3>1, <3>5
            <4>. HIDE DEF i
            <4>3. d[i] \in Digit /\ e[i] \in Digit
                <5>1. i \in 1..Len(e)
                    BY <4>1, <3>2
                <5>. QED BY <4>1, <5>1, <1>2
            <4>. DEFINE v == d[i]
                        w == e[i]
            <4>4. v \in Int /\ w \in Int /\ v # w
                BY <4>1, <4>3, BaseIs
            <4>5. d # << 0 >>
                BY <4>1, <1>1
            <4>. HIDE DEF v, w
            <4>6. v - w # 0
                BY <4>4
            <4>. QED BY <2>2, <4>2, <4>5, <4>6, <1>1 DEF v, w, d
        <3>. QED BY <3>4, <3>5
    <2>. QED BY <2>3, <2>4, <2>5
<1>. QED BY <1>3, <1>4

(* A row of one digit. *)
LEMMA SingleDigit ==
    ASSUME NEW d \in Seq(Digit), Len(d) = 1
    PROVE  d = <<d[1]>> /\ d[1] \in Digit /\ Read(d, 1) = d[1]
<1>1. d = <<d[1]>>
    OBVIOUS
<1>2. d[1] \in Digit
    <2>1. 1 \in 1..Len(d)
        OBVIOUS
    <2>. QED BY <2>1
<1>3. Read(d, 1) = d[1]
    <2>1. Row(d, 0 + 1)
        BY <1>2, BaseIs DEF Row
    <2>2. Read(d, 0 + 1) = Read(d, 0) * Base + d[0 + 1]
        BY <2>1, ReadNext
    <2>3. d[1] \in Int
        BY <1>2, BaseIs
    <2>. QED BY <2>2, <2>3, ReadZero, BaseIs
<1>. QED BY <1>1, <1>2, <1>3

(* A number below the base, with nothing behind its lowest rank, is one     *)
(* digit of that rank, or zero.                                             *)
IsDigit(a, v, t) == a \in Numbers /\ ~a.neg /\ a.digits = <<v>> /\ (v # 0 => a.exp = t)

(* A trimmed number whose value is that of one digit has one digit. *)
LEMMA OneDigit ==
    ASSUME NEW a, Trimmed(a), NEW t \in Int, Bottom(a) >= t,
           NEW v, v = Value(a, -t), v >= 0, v < Base
    PROVE  IsDigit(a, v, t)
<1>. DEFINE s == -t
            n == Len(a.digits)
            e == a.exp
            d == a.digits
<1>1. a \in Numbers /\ n > 0
    BY TrimmedIs
<1>2. n \in Nat /\ e \in Int /\ Bottom(a) \in Int /\ Bottom(a) = e - n + 1 /\ a.neg \in BOOLEAN
      /\ d \in Seq(Digit)
    <2>1. n \in Nat /\ e \in Int /\ Bottom(a) \in Int /\ a.neg \in BOOLEAN /\ d \in Seq(Digit)
        BY <1>1, NumberIs
    <2>2. Bottom(a) = e - n + 1
        BY DEF Bottom
    <2>. QED BY <2>1, <2>2
<1>3. s \in Int /\ Bottom(a) + s >= 0 /\ s = -t
    BY <1>2
<1>. HIDE DEF s, n, e, d
<1>4. v \in Int /\ (a.neg => v < 0)
    BY <1>1, <1>3, ValueSign
<1>5. ~a.neg
    BY <1>4
<1>6. Amount(a) = Read(a.digits, Len(a.digits))
    BY <1>1, <1>5, Positive
<1>7. v = Read(d, n) * Rank(Bottom(a) + s)
    BY <1>1, <1>3, <1>6, ValueIs DEF d, n
<1>8. CASE d = << 0 >>
    <2>1. n = 1
        BY <1>8 DEF n, d
    <2>2. Read(d, n) = 0
        <3>1. n \in Nat /\ \A i \in 1..n : d[i] = 0
            BY <2>1, <1>8
        <3>. QED BY <3>1, ReadZeros
    <2>3. Rank(Bottom(a) + s) \in Nat
        <3>1. Bottom(a) + s \in Nat
            BY <1>2, <1>3
        <3>. QED BY <3>1, RankNext
    <2>4. v = 0
        BY <2>2, <2>3, <1>7
    <2>. QED BY <2>4, <1>1, <1>5, <1>8 DEF IsDigit, d
<1>9. CASE d # << 0 >>
    <2>1. a.digits[1] # 0
        BY <1>5, <1>9, FirstNotZero DEF d
    <2>2. e + s \in Nat /\ v >= Rank(e + s)
        BY <1>1, <1>3, <1>5, <2>1, ValueRange DEF n, e
    <2>3. e = t
        <3>1. e >= t
            BY <1>1, <1>2
        <3>2. SUFFICES ASSUME e > t PROVE FALSE
            BY <3>1, <1>2
        <3>3. 1 \in Nat /\ 1 <= e + s
            BY <3>2, <1>2, <1>3
        <3>4. Rank(1) <= Rank(e + s) /\ Rank(1) \in Nat /\ Rank(e + s) \in Nat
            BY <2>2, <3>3, RankOrder
        <3>5. Rank(1) = Base
            <4>1. Rank(0 + 1) = Base * Rank(0)
                BY RankNext
            <4>. QED BY <4>1, Ranks0, BaseIs
        <3>. QED BY <2>2, <3>4, <3>5, <1>4, BaseIs
    <2>4. n = 1 /\ Bottom(a) + s = 0
        BY <2>3, <1>1, <1>2, <1>3
    <2>5. d = <<d[1]>> /\ d[1] \in Digit
        <3>1. Len(d) = 1
            BY <2>4 DEF n, d
        <3>. QED BY <3>1, <1>2, SingleDigit
    <2>6. Read(d, n) = d[1]
        <3>1. Len(d) = 1
            BY <2>4 DEF n, d
        <3>2. Read(d, 1) = d[1]
            BY <3>1, <1>2, SingleDigit
        <3>. QED BY <3>2, <2>4
    <2>7. v = d[1]
        <3>1. Rank(Bottom(a) + s) = 1
            BY <2>4, Ranks0
        <3>2. d[1] \in Int
            BY <2>5, BaseIs
        <3>. QED BY <3>1, <3>2, <2>6, <1>7
    <2>. QED BY <2>3, <2>5, <2>7, <1>1, <1>5 DEF IsDigit, d, e
<1>. QED BY <1>8, <1>9

(* The digit and the magnitude of a number of one digit.                    *)
Single(a, D) ==
    /\ a \in Numbers /\ Len(a.digits) = 1 /\ a.digits # << 0 >>
    /\ D \in 1..MAX /\ Amount(a) = IF a.neg THEN -D ELSE D

(* Every number of one digit has one, if it is not 0. *)
LEMMA SingleIs ==
    ASSUME NEW a \in Numbers, Len(a.digits) = 1, a.digits # << 0 >>
    PROVE  \E D : Single(a, D)
<1>. DEFINE v == a.digits[1]
            D == IF a.neg THEN Base - v ELSE v
<1>1. a.digits = <<v>> /\ v \in Digit /\ Read(a.digits, 1) = v
    <2>1. a.digits \in Seq(Digit)
        BY NumberIs
    <2>. QED BY <2>1, SingleDigit
<1>2. v # 0
    BY <1>1
<1>. HIDE DEF v
<1>3. Rank(1) = Base
    <2>1. Rank(0 + 1) = Base * Rank(0)
        BY RankNext
    <2>. QED BY <2>1, Ranks0, BaseIs
<1>4. v \in 1..MAX /\ Base - v \in 1..MAX
    BY <1>1, <1>2, BaseIs
<1>5. CASE a.neg
    <2>1. Amount(a) = v - Base
        BY <1>1, <1>3, <1>5, Negative
    <2>2. v - Base = -(Base - v)
        BY <1>4, BaseIs
    <2>3. Single(a, Base - v)
        BY <1>4, <1>5, <2>1, <2>2 DEF Single
    <2>. QED BY <2>3
<1>6. CASE ~a.neg
    <2>1. Amount(a) = v
        BY <1>1, <1>6, Positive
    <2>2. Single(a, v)
        BY <1>4, <1>6, <2>1 DEF Single
    <2>. QED BY <2>2
<1>. QED BY <1>5, <1>6

(* Of a divisor of one digit, what the loop divides by is its magnitude.    *)
LEMMA MagnitudeIs ==
    ASSUME NEW b \in Numbers, Len(b.digits) = 1, Magnitude(b) # 0
    PROVE  Single(b, Magnitude(b))
<1>. DEFINE v == b.digits[1]
<1>1. b.digits = <<v>> /\ v \in Digit /\ Read(b.digits, 1) = v
    <2>1. b.digits \in Seq(Digit)
        BY NumberIs
    <2>. QED BY <2>1, SingleDigit
<1>2. Magnitude(b) = IF ~b.neg THEN v ELSE (-v) % Base
    <2>1. \A i \in 2..Len(b.digits) : b.digits[i] = 0
        OBVIOUS
    <2>. QED BY <2>1 DEF Magnitude
<1>3. Rank(1) = Base
    <2>1. Rank(0 + 1) = Base * Rank(0)
        BY RankNext
    <2>. QED BY <2>1, Ranks0, BaseIs
<1>. HIDE DEF v
<1>4. v # 0
    <2>1. SUFFICES ASSUME v = 0 PROVE Magnitude(b) = 0
        OBVIOUS
    <2>2. (-0) % Base = 0
        <3>1. -0 = Base * 0 + 0 /\ 0 \in 0..(Base - 1) /\ Base \in Nat \ {0}
            BY BaseIs
        <3>2. -0 \in Int
            OBVIOUS
        <3>. QED BY <3>1, <3>2, Divided2
    <2>. QED BY <2>1, <2>2, <1>2
<1>5. b.digits # << 0 >>
    BY <1>1, <1>4
<1>6. v \in 1..MAX /\ Base - v \in 1..MAX
    BY <1>1, <1>4, BaseIs
<1>7. CASE b.neg
    <2>1. Amount(b) = v - Base
        BY <1>1, <1>3, <1>7, Negative
    <2>2. (-v) % Base = Base - v
        <3>. DEFINE w == -v
                    u == Base - v
        <3>1. w = Base * (-1) + u /\ u \in 0..(Base - 1) /\ Base \in Nat \ {0} /\ -1 \in Int
            BY <1>6, BaseIs
        <3>. HIDE DEF w, u
        <3>2. w % Base = u
            BY <3>1, Divided2
        <3>. QED BY <3>2 DEF w, u
    <2>3. v - Base = -(Base - v)
        BY <1>6, BaseIs
    <2>4. Single(b, Base - v)
        BY <1>5, <1>6, <1>7, <2>1, <2>3 DEF Single
    <2>. QED BY <2>2, <2>4, <1>2, <1>7
<1>8. CASE ~b.neg
    <2>1. Amount(b) = v
        BY <1>1, <1>8, Positive
    <2>2. Single(b, v)
        BY <1>5, <1>6, <1>8, <2>1 DEF Single
    <2>. QED BY <2>2, <1>2, <1>8
<1>. QED BY <1>7, <1>8

(* Such a number is not a sign alone. *)
LEMMA SingleNotAlone ==
    ASSUME NEW a, NEW D, Single(a, D)
    PROVE  ~SignAlone(a) /\ Bottom(a) = a.exp /\ a.exp \in Int
<1>1. a \in Numbers /\ Len(a.digits) = 1 /\ a.digits # << 0 >>
    BY DEF Single
<1>2. a.digits \in Seq(Digit) /\ a.exp \in Int
    BY <1>1, NumberIs
<1>3. a.digits = <<a.digits[1]>>
    BY <1>1, <1>2, SingleDigit
<1>4. Last(a.digits) # 0
    BY <1>1, <1>3 DEF Last
<1>5. Bottom(a) = a.exp
    BY <1>1, <1>2 DEF Bottom
<1>. QED BY <1>2, <1>4, <1>5 DEF SignAlone

-------------------------------------------------------------------------------
(* What is taken from the remainder *)

(* minus the digits q for a positive divisor, and the digits q for another  *)
Takes(c, b, q, e) ==
    /\ c \in Numbers /\ Len(c.digits) = Len(q) /\ c.exp = e /\ ~SignAlone(c)
    /\ Amount(c) = IF b.neg THEN Read(q, Len(q)) ELSE -Read(q, Len(q))
    /\ c.neg <=> ~b.neg

(* The complement of a digit. *)
LEMMA NegateDigit ==
    ASSUME NEW v \in Digit, v # 0
    PROVE  (-v) % Base = Base - v /\ Base - v \in Digit /\ Base - v # 0
<1>. DEFINE w == -v
            u == Base - v
<1>1. w = Base * (-1) + u /\ u \in 0..(Base - 1) /\ Base \in Nat \ {0} /\ -1 \in Int /\ u # 0
    BY BaseIs
<1>. HIDE DEF w, u
<1>2. w % Base = u
    BY <1>1, Divided2
<1>. QED BY <1>1, <1>2, BaseIs DEF w, u

(* What div takes from its remainder is the quotient's digits, negated       *)
(* (numeric.cpp:307).                                                        *)
LEMMA LessIs ==
    ASSUME NEW b \in Numbers, NEW q \in Seq(Digit), Len(q) > 0, q[Len(q)] # 0,
           NEW e \in Int, NEW wide \in Int, wide # 0
    PROVE  Takes(Less(b, q, e, wide), b, q, e)
<1>. DEFINE l == Len(q)
            c == Less(b, q, e, wide)
            d == [neg |-> FALSE, exp |-> e, digits |-> q]
            y == negate(d)
            f == [i \in DOMAIN q |-> IF i = Len(q) THEN (-q[i]) % Base ELSE MAX - q[i]]
            Q == Read(q, l)
<1>1. l \in Nat /\ DOMAIN q = 1..l /\ l \in 1..l /\ Digits(q, l)
    <2>1. Digits(q, l)
        BY DEF Digits
    <2>2. l \in Nat /\ l > 0 /\ DOMAIN q = 1..l
        OBVIOUS
    <2>. HIDE DEF l
    <2>. QED BY <2>1, <2>2
<1>2. d \in Numbers /\ ~d.neg /\ d.exp = e /\ d.digits = q
    BY DEF Numbers
<1>3. Amount(d) = Q /\ Q \in Nat
    <2>. HIDE DEF d
    <2>. QED BY <1>2, Positive
<1>4. CASE b.neg
    <2>1. c = d
        BY <1>4 DEF Less
    <2>. HIDE DEF c, d
    <2>2. Last(c.digits) # 0
        BY <1>2, <2>1 DEF Last
    <2>3. ~SignAlone(c)
        BY <2>2 DEF SignAlone
    <2>. HIDE DEF Q
    <2>4. Takes(c, b, q, e)
        BY <1>2, <1>3, <1>4, <2>1, <2>3 DEF Takes, Q
    <2>. QED BY <2>4 DEF c
<1>5. CASE ~b.neg
    <2>1. Opposite(y, d) /\ Lowest(q) = l
        <3>1. Opposite(y, d)
            <4>. HIDE DEF d
            <4>. QED BY <1>2, NegateIs
        <3>2. /\ Lowest(q) \in 0..l /\ \A i \in (Lowest(q) + 1)..l : q[i] = 0
            BY LowestIs
        <3>3. Lowest(q) = l
            <4>. DEFINE m == Lowest(q)
            <4>1. m \in 0..l /\ \A i \in (m + 1)..l : q[i] = 0
                BY <3>2
            <4>. HIDE DEF m
            <4>2. SUFFICES ASSUME m # l PROVE FALSE
                BY DEF m
            <4>3. l \in (m + 1)..l
                <5>1. l \in Nat /\ m \in 0..l
                    BY <1>1, <4>1
                <5>. HIDE DEF l, c, d, y, f, Q
                <5>. QED BY <5>1, <4>2
            <4>. QED BY <4>1, <4>3
        <3>. QED BY <3>1, <3>3
    <2>. HIDE DEF y
    <2>2. y \in Numbers /\ y.exp = e /\ Len(y.digits) = l /\ y.neg
        <3>1. l > 0
            BY <1>1
        <3>. HIDE DEF d, l
        <3>. QED BY <2>1, <1>2, <3>1 DEF Opposite, l
    <2>3. \A i \in 1..l : y.digits[i] = f[i]
        <3>1. ASSUME NEW i \in 1..l PROVE y.digits[i] = f[i]
            <4>1. y.digits[i] = IF i < l THEN MAX - q[i] ELSE IF i = l THEN Base - q[i] ELSE q[i]
                <5>. HIDE DEF d
                <5>. QED BY <2>1, <1>2 DEF Opposite
            <4>2. q[i] \in Digit
                BY <1>1 DEF Digits
            <4>3. f[i] = IF i = l THEN (-q[i]) % Base ELSE MAX - q[i]
                BY <1>1
            <4>4. i = l => (-q[i]) % Base = Base - q[i]
                BY <4>2, NegateDigit
            <4>5. i \in Int /\ i <= l /\ l \in Int
                BY <1>1
            <4>. HIDE DEF f, l
            <4>6. CASE i = l
                BY <4>1, <4>3, <4>4, <4>6, <4>5
            <4>7. CASE i # l
                <5>1. i < l
                    BY <4>5, <4>7
                <5>. QED BY <5>1, <4>1, <4>3, <4>7
            <4>. QED BY <4>6, <4>7
        <3>. QED BY <3>1
    <2>4. y.digits = f
        <3>1. y.digits \in Seq(Digit)
            BY <2>2, NumberIs
        <3>2. DOMAIN y.digits = 1..l /\ DOMAIN f = 1..l
            BY <3>1, <2>2, <1>1
        <3>3. y.digits = [i \in 1..l |-> y.digits[i]] /\ f = [i \in 1..l |-> f[i]]
            BY <3>1, <3>2
        <3>. HIDE DEF f
        <3>. QED BY <3>3, <2>3
    <2>5. c = [neg |-> wide # 0, exp |-> e, digits |-> f]
        BY <1>5 DEF Less
    <2>. HIDE DEF f, c
    <2>6. c = y
        <3>1. (wide # 0) = TRUE
            OBVIOUS
        <3>2. y = [neg |-> y.neg, exp |-> y.exp, digits |-> y.digits]
            BY <2>2 DEF Numbers
        <3>3. y.neg = TRUE
            <4>1. y.neg \in BOOLEAN
                BY <2>2, NumberIs
            <4>. QED BY <4>1, <2>2
        <3>. QED BY <2>2, <2>4, <2>5, <3>1, <3>2, <3>3
    <2>7. Amount(y) = -Amount(d)
        <3>1. Negatable(d)
            <4>. HIDE DEF d
            <4>. QED BY <1>2 DEF Negatable
        <3>. HIDE DEF d
        <3>. QED BY <1>2, <3>1, NegateAmount DEF y
    <2>8. ~SignAlone(y)
        <3>1. y.digits[l] = Base - q[l]
            <4>1. y.digits[l] = IF l < l THEN MAX - q[l] ELSE IF l = l THEN Base - q[l] ELSE q[l]
                <5>. HIDE DEF d
                <5>. QED BY <1>1, <2>1, <1>2 DEF Opposite
            <4>. QED BY <4>1, <1>1
        <3>2. Base - q[l] # 0
            <4>1. q[l] \in Digit
                BY <1>1 DEF Digits
            <4>. QED BY <4>1, NegateDigit
        <3>3. Last(y.digits) # 0
            BY <2>2, <3>1, <3>2 DEF Last
        <3>. QED BY <3>3 DEF SignAlone
    <2>. HIDE DEF d, Q
    <2>9. Takes(y, b, q, e)
        BY <1>3, <1>5, <2>2, <2>7, <2>8 DEF Takes, Q
    <2>. QED BY <2>6, <2>9 DEF c
<1>. QED BY <1>4, <1>5

(* A remainder of one digit, less the divisor times one or two digits.      *)
Reduces(y, r, R, F, q) ==
    /\ y \in Numbers /\ Trimmed(y) /\ Bottom(y) >= R - Len(q) + 1
    /\ \A s \in Int : R - Len(q) + 1 + s >= 0
          => Value(y, s) = (r * Rank(Len(q) - 1) - F * Read(q, Len(q))) * Rank(R - Len(q) + 1 + s)

(* A remainder of one digit. *)
LEMMA DigitIs ==
    ASSUME NEW a, NEW r \in Digit, r # 0, NEW R \in Int, IsDigit(a, r, R)
    PROVE  /\ a \in Numbers /\ ~a.neg /\ Len(a.digits) = 1 /\ a.digits[1] = r /\ a.exp = R
           /\ Bottom(a) = R /\ Amount(a) = r
<1>1. a \in Numbers /\ ~a.neg /\ a.digits = <<r>> /\ a.exp = R
    BY DEF IsDigit
<1>2. Len(a.digits) = 1 /\ a.digits[1] = r
    BY <1>1
<1>3. a.digits \in Seq(Digit)
    BY <1>1, NumberIs
<1>4. Read(a.digits, 1) = r
    BY <1>2, <1>3, SingleDigit
<1>5. Amount(a) = r
    BY <1>1, <1>2, <1>4, Positive
<1>6. Bottom(a) = R
    BY <1>1, <1>2 DEF Bottom
<1>. QED BY <1>1, <1>2, <1>5, <1>6

(* The remainder less the divisor times the two digits found. *)
LEMMA Reduced ==
    ASSUME NEW a, NEW r \in Digit, r # 0, NEW R \in Int, IsDigit(a, r, R),
           NEW b, NEW F, Single(b, F), NEW q \in Seq(Digit), Len(q) \in 1..2, q[Len(q)] # 0,
           NEW e \in Int, e = R - b.exp, NEW wide \in Int, wide # 0
    PROVE  Reduces(Plus(a, Times(b, Less(b, q, e, wide))), r, R, F, q)
<1>. DEFINE l == Len(q)
            c == Less(b, q, e, wide)
            p == Times(b, c)
            y == Plus(a, p)
            Q == Read(q, l)
            T == R - l + 1
<1>1. /\ a \in Numbers /\ ~a.neg /\ Len(a.digits) = 1 /\ a.digits[1] = r /\ a.exp = R
      /\ Bottom(a) = R /\ Amount(a) = r
    BY DigitIs
<1>2. /\ b \in Numbers /\ Len(b.digits) = 1 /\ F \in 1..MAX /\ Amount(b) = IF b.neg THEN -F ELSE F
    BY DEF Single
<1>3. ~SignAlone(b) /\ Bottom(b) = b.exp /\ b.exp \in Int
    BY SingleNotAlone
<1>4. l \in 1..2 /\ T = R - l + 1 /\ T \in Int /\ l \in Nat /\ l > 0 /\ T <= R /\ T >= R - 1 /\ l - 1 \in Nat
    <2>1. l \in 1..2
        OBVIOUS
    <2>. HIDE DEF l
    <2>. QED BY <2>1
<1>5. Q \in Nat
    <2>1. Digits(q, l)
        BY DEF Digits
    <2>. HIDE DEF l
    <2>. QED BY <1>4, <2>1, ReadBound
<1>6. Takes(c, b, q, e)
    BY <1>2, <1>4, LessIs
<1>. HIDE DEF c
<1>7. /\ c \in Numbers /\ Len(c.digits) = l /\ c.exp = e /\ ~SignAlone(c)
      /\ Amount(c) = (IF b.neg THEN Q ELSE -Q) /\ (c.neg <=> ~b.neg)
    BY <1>6 DEF Takes
<1>8. Multiple(p, b, c)
    <2>1. Len(b.digits) > 0 /\ Len(c.digits) > 0
        BY <1>2, <1>4, <1>7
    <2>. HIDE DEF l
    <2>. QED BY <1>2, <1>7, <2>1, TimesIs
<1>9. Bottom(b) + Bottom(c) = T
    <2>1. Bottom(c) = e - l + 1
        BY <1>7 DEF Bottom
    <2>. DEFINE g == b.exp
    <2>2. Bottom(b) = g /\ g \in Int /\ e = R - g
        BY <1>3
    <2>. HIDE DEF l, T, g
    <2>3. g + (e - l + 1) = R - l + 1
        BY <2>2, <1>4
    <2>. QED BY <2>1, <2>2, <2>3, <1>4
<1>. HIDE DEF p, y, l, T, Q
<1>10. p \in Numbers /\ Trimmed(p) /\ Bottom(p) >= T
    BY <1>7, <1>8, <1>9 DEF Multiple
<1>11. Len(p.digits) > 0
    BY <1>10, TrimmedIs
<1>12. Amount(b) * Amount(c) = (-(F * Q))
    <2>1. F \in Int /\ Q \in Int
        BY <1>2, <1>5, BaseIs
    <2>2. (-F) * Q = -(F * Q)
        BY <2>1
    <2>3. F * (-Q) = -(F * Q)
        BY <2>1
    <2>. QED BY <2>2, <2>3, <1>2, <1>7
<1>13. Summable(a, p)
    <2>. DEFINE n == Len(p.digits)
    <2>1. n \in Nat /\ n > 0 /\ p.exp \in Int /\ Bottom(p) = p.exp - n + 1
        <3>1. n \in Nat /\ p.exp \in Int
            BY <1>10, NumberIs
        <3>2. Bottom(p) = p.exp - n + 1
            BY DEF Bottom
        <3>. QED BY <1>11, <3>1, <3>2
    <2>2. n = Len(p.digits)
        OBVIOUS
    <2>. HIDE DEF n
    <2>3. R <= p.exp \/ (R = p.exp + 1 /\ n = 1)
        BY <2>1, <1>4, <1>10
    <2>4. CASE R <= p.exp
        BY <2>4, <1>1 DEF Summable, SignAlone
    <2>5. CASE R = p.exp + 1 /\ n = 1
        <3>1. OneAbove(a, p)
            BY <2>2, <2>5, <1>1 DEF OneAbove
        <3>. QED BY <3>1, <1>1 DEF Summable, SignAlone
    <2>. QED BY <2>3, <2>4, <2>5
<1>14. y \in Numbers /\ Trimmed(y) /\ Bottom(y) >= Least(Bottom(a), Bottom(p))
    BY <1>1, <1>10, <1>11, PlusNumber DEF y
<1>15. Bottom(y) >= T
    <2>1. Bottom(y) \in Int
        BY <1>14, NumberIs
    <2>2. Bottom(p) \in Int
        BY <1>10, NumberIs
    <2>3. Least(Bottom(a), Bottom(p)) >= T /\ Least(Bottom(a), Bottom(p)) \in Int
        BY <2>2, <1>1, <1>4, <1>10 DEF Least
    <2>. QED BY <2>1, <2>3, <1>14, <1>4
<1>16. ASSUME NEW s \in Int, T + s >= 0
       PROVE  Value(y, s) = (r * Rank(l - 1) - F * Q) * Rank(T + s)
    <2>1. Bottom(a) + s >= 0 /\ Bottom(p) + s >= 0 /\ T + s \in Nat /\ R + s = (l - 1) + (T + s)
        <3>1. Bottom(p) \in Int
            BY <1>10, NumberIs
        <3>2. T \in Int /\ s \in Int /\ T + s >= 0
            BY <1>4, <1>16
        <3>3. Bottom(a) >= T /\ Bottom(a) \in Int
            BY <1>1, <1>4
        <3>4. Bottom(p) >= T
            BY <1>10
        <3>5. Bottom(a) + s >= 0
            BY <3>2, <3>3
        <3>6. Bottom(p) + s >= 0
            BY <3>1, <3>2, <3>4
        <3>7. R + s = (l - 1) + (T + s)
            BY <3>2, <1>4
        <3>. QED BY <3>2, <3>5, <3>6, <3>7
    <2>2. Value(y, s) = Value(a, s) + Value(p, s)
        BY <1>1, <1>10, <1>11, <1>13, <2>1, PlusValue DEF y
    <2>3. Value(a, s) = r * Rank(R + s)
        BY <1>1, ValueIs
    <2>4. Value(p, s) = (-(F * Q)) * Rank(T + s)
        <3>1. Bottom(b) + Bottom(c) + s >= 0
            BY <1>9, <1>16
        <3>2. Value(p, s) = Amount(b) * Amount(c) * Rank(Bottom(b) + Bottom(c) + s)
            BY <3>1, <1>3, <1>7, <1>8 DEF Multiple
        <3>. QED BY <3>2, <1>9, <1>12
    <2>5. Rank(R + s) = Rank(l - 1) * Rank(T + s)
        BY <2>1, <1>4, RankSum
    <2>6. Rank(l - 1) \in Nat
        BY <1>4, RankNext
    <2>7. Rank(T + s) \in Nat
        BY <2>1, RankNext
    <2>. DEFINE x1 == Rank(l - 1)
                x2 == Rank(T + s)
                g == F * Q
    <2>8. x1 \in Int /\ x2 \in Int /\ g \in Int /\ r \in Int
        <3>1. g \in Int
            BY <1>2, <1>5, BaseIs
        <3>. QED BY <2>6, <2>7, <3>1, BaseIs
    <2>9. Value(y, s) = r * (x1 * x2) + (-g) * x2
        BY <2>2, <2>3, <2>4, <2>5
    <2>. HIDE DEF x1, x2, g
    <2>10. r * (x1 * x2) + (-g) * x2 = (r * x1 - g) * x2
        <3>. DEFINE h == r * x1
        <3>1. h \in Int /\ r * (x1 * x2) = h * x2
            BY <2>8
        <3>. HIDE DEF h
        <3>2. (h - g) * x2 = h * x2 + (-g) * x2
            BY <2>8, <3>1
        <3>. QED BY <3>1, <3>2 DEF h
    <2>. QED BY <2>9, <2>10 DEF x1, x2, g
<1>17. Reduces(y, r, R, F, q)
    BY <1>14, <1>15, <1>16 DEF Reduces, T, l, Q
<1>. QED BY <1>17 DEF y, p, c

(***************************************************************************)
(* One time round the loop of div                                          *)
(***************************************************************************)

(* What the loop estimates: the remainder's digit r by the divisor's F is h *)
(* and leaves t, which with a digit 0 behind is k and leaves m.             *)
Guess(r, F, h, t, k, m) ==
    /\ h \in Digit /\ k \in Digit /\ t \in 0..(F - 1) /\ m \in 0..(F - 1)
    /\ r = F * h + t /\ t * Base = F * k + m
    /\ (r * Base) \div F = h * Base + k
    /\ ((r * Base) \div F) \div Base = h /\ ((r * Base) \div F) % Base = k

(* the digits that div estimates, and what they leave (numeric.cpp, div)    *)
LEMMA Guesses ==
    ASSUME NEW r \in Digit, NEW F \in 1..MAX
    PROVE  \E h, t, k, m : Guess(r, F, h, t, k, m)
<1>. DEFINE h == r \div F
            t == r % F
            k == (t * Base) \div F
            m == (t * Base) % F
<1>1. F \in Nat \ {0} /\ F < Base /\ r \in Nat /\ r < Base /\ Base \in Nat \ {0}
    BY BaseIs
<1>2. h \in Int /\ t \in 0..(F - 1) /\ r = F * h + t
    <2>1. F \in Nat \ {0} /\ r \in Int
        BY <1>1
    <2>. QED BY <2>1, DivMod
<1>. HIDE DEF h, t
<1>3. t * Base \in Int /\ t \in Int
    BY <1>1, <1>2
<1>4. k \in Int /\ m \in 0..(F - 1) /\ t * Base = F * k + m
    <2>1. F \in Nat \ {0} /\ t * Base \in Int
        BY <1>1, <1>3
    <2>. DEFINE tb == t * Base
    <2>. HIDE DEF tb
    <2>2. tb \in Int
        BY <2>1 DEF tb
    <2>3. tb \div F \in Int /\ tb % F \in 0..(F - 1) /\ tb = F * (tb \div F) + (tb % F)
        BY <2>1, <2>2, DivMod
    <2>. QED BY <2>3 DEF tb
<1>. HIDE DEF k, m
<1>5. k < Base
    <2>1. t * Base <= (F - 1) * Base
        BY <1>1, <1>2
    <2>2. (F - 1) * Base < F * Base
        BY <1>1
    <2>3. ASSUME k >= Base PROVE FALSE
        <3>1. F * k >= F * Base
            BY <1>1, <1>4, <2>3
        <3>2. F * k \in Int /\ F * Base \in Int /\ (F - 1) * Base \in Int /\ m \in Int /\ m >= 0
            BY <1>1, <1>4
        <3>. QED BY <3>1, <3>2, <2>1, <2>2, <1>3, <1>4
    <2>. QED BY <2>3, <1>1, <1>4
<1>6. k >= 0
    <2>1. t * Base >= 0
        BY <1>1, <1>2
    <2>2. ASSUME k <= -1 PROVE FALSE
        <3>1. F * k <= -F
            BY <1>1, <1>4, <2>2
        <3>2. F * k \in Int /\ m \in Int /\ m < F
            BY <1>1, <1>4
        <3>. QED BY <3>1, <3>2, <2>1, <1>1, <1>3, <1>4
    <2>. QED BY <2>2, <1>4
<1>7. h >= 0 /\ h < Base
    <2>1. ASSUME h <= -1 PROVE FALSE
        <3>1. F * h <= -F
            BY <1>1, <1>2, <2>1
        <3>2. F * h \in Int /\ t \in Int /\ t < F
            BY <1>1, <1>2
        <3>. QED BY <3>1, <3>2, <1>1, <1>2
    <2>2. ASSUME h >= Base PROVE FALSE
        <3>1. F * h >= h
            BY <1>1, <1>2, <2>2
        <3>2. F * h \in Int /\ t \in Int /\ t >= 0
            BY <1>1, <1>2
        <3>. QED BY <3>1, <3>2, <2>2, <1>1, <1>2
    <2>. QED BY <2>1, <2>2, <1>1, <1>2
<1>8. r * Base = F * (h * Base + k) + m
    <2>1. h * Base \in Int /\ F * h \in Int
        BY <1>1, <1>2
    <2>2. r * Base = (F * h) * Base + t * Base
        <3>. DEFINE g == F * h
        <3>. HIDE DEF g
        <3>1. g \in Int /\ r = g + t
            BY <2>1, <1>2 DEF g
        <3>2. (g + t) * Base = g * Base + t * Base
            BY <3>1, <1>1, <1>3
        <3>. QED BY <3>1, <3>2 DEF g
    <2>3. (F * h) * Base = F * (h * Base)
        BY <1>1, <1>2
    <2>. DEFINE g == h * Base
    <2>. HIDE DEF g
    <2>4. F * (g + k) = F * g + F * k
        BY <2>1, <1>1, <1>4 DEF g
    <2>5. F * g \in Int /\ F * k \in Int /\ m \in Int
        BY <2>1, <1>1, <1>4 DEF g
    <2>6. r * Base = F * g + t * Base
        BY <2>2, <2>3 DEF g
    <2>7. r * Base = F * g + F * k + m
        BY <2>5, <2>6, <1>3, <1>4
    <2>8. r * Base = F * (g + k) + m
        BY <2>4, <2>5, <2>7
    <2>. QED BY <2>8 DEF g
<1>9. (r * Base) \div F = h * Base + k
    <2>. DEFINE n == r * Base
                q == h * Base + k
    <2>1. q \in Int
        BY <1>1, <1>2, <1>4
    <2>2. n = F * q + m
        BY <1>8
    <2>3. F \in Nat \ {0} /\ m \in 0..(F - 1)
        BY <1>1, <1>4
    <2>. HIDE DEF n, q
    <2>4. n \div F = q
        BY <2>1, <2>2, <2>3, Divided2
    <2>. QED BY <2>4 DEF n, q
<1>10. (h * Base + k) \div Base = h /\ (h * Base + k) % Base = k
    <2>. DEFINE n == h * Base + k
    <2>1. n = Base * h + k
        BY <1>1, <1>2, <1>4
    <2>2. k \in 0..(Base - 1)
        BY <1>1, <1>4, <1>5, <1>6
    <2>. HIDE DEF n
    <2>3. n \div Base = h /\ n % Base = k
        BY <2>1, <2>2, <1>1, <1>2, Divided2
    <2>. QED BY <2>3 DEF n
<1>11. h \in Digit /\ k \in Digit
    BY <1>1, <1>2, <1>4, <1>5, <1>6, <1>7, BaseIs
<1>12. Guess(r, F, h, t, k, m)
    BY <1>2, <1>4, <1>9, <1>10, <1>11 DEF Guess
<1>. QED BY <1>12

(* both digits that div estimates are 0 only for a remainder 0; and a low   *)
(* digit that is not 0, which may round, leaves room in the high one        *)
LEMMA GuessIs ==
    ASSUME NEW r \in Digit, NEW F \in 1..MAX, NEW h, NEW t, NEW k, NEW m, Guess(r, F, h, t, k, m)
    PROVE  /\ r # 0 => h * Base + k # 0 /\ (h = 0 => k # 0)
           /\ k = 0 => t = 0 /\ m = 0
           /\ k # 0 => t # 0 /\ h + 1 \in Digit
           /\ h = 0 <=> r < F
           /\ r = 0 => h = 0 /\ k = 0
<1>1. /\ F \in Nat /\ F > 0 /\ F < Base /\ Base \in Nat /\ Base > 3 /\ h \in Nat /\ k \in Nat
      /\ t \in Nat /\ m \in Nat /\ t < F /\ m < F /\ r \in Nat /\ r < Base /\ h < Base /\ k < Base
    BY BaseIs DEF Guess
<1>2. r = F * h + t /\ t * Base = F * k + m
    BY DEF Guess
<1>3. F * h \in Nat /\ F * k \in Nat /\ h * Base \in Nat /\ t * Base \in Nat
    BY <1>1
<1>4. k = 0 => t = 0 /\ m = 0
    <2>1. ASSUME k = 0, t # 0 PROVE FALSE
        <3>1. F * k = 0
            BY <1>1, <2>1
        <3>2. t * Base >= Base
            BY <1>1, <2>1
        <3>. QED BY <3>1, <3>2, <1>1, <1>2, <1>3
    <2>2. ASSUME k = 0 PROVE t = 0 /\ m = 0
        <3>1. t = 0
            BY <2>1, <2>2
        <3>2. t * Base = 0 /\ F * k = 0
            BY <3>1, <2>2, <1>1
        <3>. QED BY <3>1, <3>2, <1>1, <1>2
    <2>. QED BY <2>2
<1>5. t = 0 => k = 0
    <2>1. ASSUME t = 0, k # 0 PROVE FALSE
        <3>1. F * k >= F
            BY <1>1, <2>1
        <3>2. t * Base = 0
            BY <1>1, <2>1
        <3>. QED BY <3>1, <3>2, <1>1, <1>2, <1>3
    <2>. QED BY <2>1
<1>6. h = 0 => r = t
    <2>1. h = 0 => F * h = 0
        BY <1>1
    <2>. QED BY <2>1, <1>1, <1>2
<1>7. h # 0 => F * h >= F /\ F * h >= h
    BY <1>1
<1>8. h = 0 <=> r < F
    BY <1>1, <1>2, <1>3, <1>6, <1>7
<1>9. r # 0 => h * Base + k # 0 /\ (h = 0 => k # 0)
    <2>1. h # 0 => h * Base >= Base
        BY <1>1
    <2>2. r # 0 /\ h = 0 => k # 0
        BY <1>4, <1>6
    <2>. QED BY <2>1, <2>2, <1>1, <1>3
<1>10. k # 0 => t # 0 /\ h + 1 \in Digit
    <2>1. k # 0 => t # 0
        BY <1>5
    <2>2. t # 0 => h + 1 < Base
        BY <1>1, <1>2, <1>3, <1>7
    <2>. QED BY <2>1, <2>2, <1>1, BaseIs
<1>11. r = 0 => h = 0 /\ k = 0
    BY <1>1, <1>2, <1>3, <1>5, <1>7
<1>. QED BY <1>4, <1>8, <1>9, <1>10, <1>11

(* what the last digit H leaves of a remainder r                            *)
Leaves(r, F, H) == r - F * H \in Int /\ r - F * H < F /\ -(r - F * H) < F

(* A digit of the quotient, or one more, leaves less than the divisor. *)
LEMMA LeavesLess ==
    ASSUME NEW F \in Nat, NEW h \in Nat, NEW t \in Nat, t < F, NEW r \in Nat, r = F * h + t
    PROVE  /\ r - F * h = t /\ Leaves(r, F, h)
           /\ t # 0 => Leaves(r, F, h + 1)
<1>. DEFINE g == F * h
            u == F * (h + 1)
<1>1. g \in Int /\ u = g + F
    OBVIOUS
<1>2. r = g + t
    OBVIOUS
<1>. HIDE DEF g, u
<1>3. r - g = t /\ r - g \in Int /\ r - g < F /\ -(r - g) < F
    BY <1>1, <1>2
<1>4. t # 0 => r - u \in Int /\ r - u < F /\ -(r - u) < F
    BY <1>1, <1>2
<1>. QED BY <1>3, <1>4 DEF g, u, Leaves

(* the high digit of the last estimate: the low one rounds it               *)
LEMMA LastGuess ==
    ASSUME NEW r \in Digit, NEW F \in 1..MAX, NEW h, NEW t, NEW k, NEW m, Guess(r, F, h, t, k, m),
           NEW round \in BOOLEAN
    PROVE  LET H == High((r * Base) \div F, TRUE, round)
           IN H \in Digit /\ Leaves(r, F, H) /\ (r = 0 => H = 0)
<1>. DEFINE H == High((r * Base) \div F, TRUE, round)
<1>1. F \in Nat /\ h \in Nat /\ t \in Nat /\ t < F /\ r \in Nat /\ h \in Digit /\ k \in Digit
    BY BaseIs DEF Guess
<1>2. r = F * h + t /\ ((r * Base) \div F) \div Base = h /\ ((r * Base) \div F) % Base = k
    BY DEF Guess
<1>3. MAX \div 2 > 0
    BY BaseIs
<1>4. H = h \/ (H = (h + 1) % Base /\ k >= MAX \div 2)
    BY <1>2 DEF High
<1>. HIDE DEF H
<1>5. Leaves(r, F, h) /\ (t # 0 => Leaves(r, F, h + 1))
    BY <1>1, <1>2, LeavesLess
<1>6. CASE H = h
    <2>1. r = 0 => H = 0
        BY <1>6, GuessIs
    <2>. QED BY <2>1, <1>1, <1>5, <1>6 DEF H
<1>7. CASE H = (h + 1) % Base /\ k >= MAX \div 2
    <2>1. k # 0
        <3>1. k \in Int /\ MAX \div 2 \in Int
            BY <1>1, BaseIs
        <3>. QED BY <3>1, <1>3, <1>7
    <2>2. t # 0 /\ h + 1 \in Digit /\ r # 0
        BY <2>1, GuessIs
    <2>3. (h + 1) % Base = h + 1
        BY <2>2, BaseIs
    <2>. QED BY <2>2, <2>3, <1>5, <1>7 DEF H
<1>. QED BY <1>4, <1>6, <1>7

(* no digit recorded: there are only zeros behind                           *)
LEMMA RecordedZero ==
    ASSUME NEW a \in Numbers, NEW e \in Int, NEW w, w = Recorded(a, 0, e)
    PROVE  /\ \E n \in Nat : Widens(w, a, 0, n)
           /\ Len(w.digits) = IF a.exp - e > Len(a.digits) THEN a.exp - e ELSE Len(a.digits)
<1>. DEFINE l == Len(a.digits)
            m == a.exp - l - e
            n == Max({0, m})
            f == Repeat(n, 0)
<1>1. /\ a.neg \in BOOLEAN /\ a.exp \in Int /\ a.digits \in Seq(Digit) /\ l \in Nat
    BY NumberIs
<1>2. m \in Int /\ n = (IF m > 0 THEN m ELSE 0) /\ n \in Nat
    <2>1. m \in Int
        BY <1>1
    <2>2. n = IF 0 > m THEN 0 ELSE m
        <3>. HIDE DEF m
        <3>. QED BY <2>1, LargerOf
    <2>. HIDE DEF n, m
    <2>. QED BY <2>1, <2>2
<1>3. m = a.exp - l - e
    OBVIOUS
<1>4. w = [a EXCEPT !.digits = @ \o f]
    BY DEF Recorded
<1>. HIDE DEF m, n
<1>5. f \in Seq(Digit) /\ Len(f) = n /\ \A i \in 1..n : f[i] = 0
    <2>1. 0 \in Digit
        BY BaseIs
    <2>. QED BY <2>1, <1>2, RepeatIs
<1>. DEFINE g == a.digits \o f
<1>6. g \in Seq(Digit) /\ Len(g) = l + n /\ (\A i \in 1..l : g[i] = a.digits[i]) /\ \A i \in 1..n : g[l + i] = 0
    <2>1. g \in Seq(Digit)
        BY <1>1, <1>5
    <2>2. Len(g) = l + n
        BY <1>1, <1>5
    <2>3. \A i \in 1..l : g[i] = a.digits[i]
        BY <1>1, <1>5
    <2>4. \A i \in 1..n : g[l + i] = 0
        <3>1. ASSUME NEW i \in 1..n PROVE g[l + i] = f[i]
            <4>1. i \in Int /\ i >= 1 /\ i <= n
                BY <1>2
            <4>2. l + i \in 1..(l + n) /\ l + i > l /\ (l + i) - l = i
                <5>. HIDE DEF l
                <5>. QED BY <4>1, <1>1, <1>2
            <4>3. f \in Seq(Digit) /\ a.digits \in Seq(Digit) /\ Len(f) = n /\ Len(a.digits) \in Nat /\ n \in Nat
                BY <1>1, <1>2, <1>5
            <4>. HIDE DEF f
            <4>4. (a.digits \o f)[Len(a.digits) + i] = f[i]
                <5>. QED BY ONLY <4>1, <4>2, <4>3 DEF l
            <4>. QED BY <4>4
        <3>. QED BY <3>1, <1>5
    <2>. QED BY <2>1, <2>2, <2>3, <2>4
<1>7. a = [neg |-> a.neg, exp |-> a.exp, digits |-> a.digits]
    BY DEF Numbers
<1>8. w = [neg |-> a.neg, exp |-> a.exp, digits |-> g]
    <2>1. w = [a EXCEPT !.digits = g]
        BY <1>4
    <2>. HIDE DEF g, f
    <2>. QED BY <2>1, <1>7
<1>. HIDE DEF g, f
<1>9. w \in Numbers /\ w.neg = a.neg /\ w.exp = a.exp /\ w.digits = g
    BY <1>1, <1>6, <1>8 DEF Numbers
<1>10. l = Len(a.digits)
    OBVIOUS
<1>. HIDE DEF l
<1>11. Widens(w, a, 0, n)
    <2>1. w.exp = a.exp + 0 /\ Len(w.digits) = 0 + l + n /\ 0 + l = l
        BY <1>1, <1>2, <1>6, <1>9
    <2>2. \A i \in 1..l : w.digits[0 + i] = a.digits[i]
        BY <1>1, <1>6, <1>9
    <2>3. \A i \in 1..n : w.digits[0 + l + i] = 0
        BY <2>1, <1>6, <1>9
    <2>4. 1..0 = {}
        OBVIOUS
    <2>. QED BY <2>1, <2>2, <2>3, <2>4, <1>2, <1>9, <1>10 DEF Widens
<1>12. Len(w.digits) = IF a.exp - e > l THEN a.exp - e ELSE l
    <2>1. Len(w.digits) = l + n
        BY <1>6, <1>9
    <2>2. l + n = IF a.exp - e > l THEN a.exp - e ELSE l
        BY <1>1, <1>2, <1>3
    <2>. QED BY <2>1, <2>2
<1>. QED BY <1>2, <1>10, <1>11, <1>12

(* a low digit recorded                                                     *)
Appended(w, a, v) ==
    /\ w \in Numbers /\ w.neg = a.neg /\ w.exp = a.exp /\ Len(w.digits) = Len(a.digits) + 1
    /\ Bottom(w) = Bottom(a) - 1
    /\ ~a.neg => Amount(w) = Amount(a) * Base + v

(* a digit behind the others counts once, those before it the base times    *)
LEMMA AppendIs ==
    ASSUME NEW a \in Numbers, NEW v \in Digit
    PROVE  Appended([a EXCEPT !.digits = Append(@, v)], a, v)
<1>. DEFINE l == Len(a.digits)
            g == Append(a.digits, v)
            w == [a EXCEPT !.digits = Append(@, v)]
<1>1. /\ a.neg \in BOOLEAN /\ a.exp \in Int /\ a.digits \in Seq(Digit) /\ l \in Nat /\ Row(a.digits, l)
    BY NumberIs
<1>2. g \in Seq(Digit) /\ Len(g) = l + 1 /\ g[l + 1] = v /\ \A i \in 1..l : g[i] = a.digits[i]
    BY <1>1
<1>3. a = [neg |-> a.neg, exp |-> a.exp, digits |-> a.digits]
    BY DEF Numbers
<1>4. w = [a EXCEPT !.digits = g]
    OBVIOUS
<1>. HIDE DEF g, w
<1>5. w = [neg |-> a.neg, exp |-> a.exp, digits |-> g]
    BY <1>3, <1>4
<1>6. w \in Numbers /\ w.neg = a.neg /\ w.exp = a.exp /\ w.digits = g
    <2>. HIDE DEF l
    <2>. QED BY <1>1, <1>2, <1>5 DEF Numbers
<1>7. Bottom(w) = Bottom(a) - 1
    <2>1. Bottom(w) = a.exp - (l + 1) + 1 /\ Bottom(a) = a.exp - l + 1
        BY <1>2, <1>6 DEF Bottom
    <2>2. l \in Int /\ a.exp \in Int
        BY <1>1
    <2>. HIDE DEF l
    <2>3. a.exp - (l + 1) + 1 = (a.exp - l + 1) - 1
        BY <2>2
    <2>. QED BY <2>1, <2>3
<1>8. Read(g, l) = Read(a.digits, l)
    <2>. HIDE DEF l
    <2>. QED BY <1>1, <1>2, ReadSame
<1>9. Row(g, l + 1)
    <2>1. Row(w.digits, Len(w.digits))
        BY <1>6, NumberIs
    <2>. QED BY <2>1, <1>2, <1>6
<1>10. Read(g, l + 1) = Read(g, l) * Base + v
    <2>. HIDE DEF l
    <2>. QED BY <1>1, <1>2, <1>9, ReadNext
<1>11. ASSUME ~a.neg PROVE Amount(w) = Amount(a) * Base + v
    <2>1. Amount(a) = Read(a.digits, l)
        BY <1>11, Positive
    <2>2. Amount(w) = Read(g, l + 1)
        BY <1>2, <1>6, <1>11, Positive
    <2>. QED BY <2>1, <2>2, <1>8, <1>10
<1>12. Appended(w, a, v)
    BY <1>2, <1>6, <1>7, <1>11 DEF Appended
<1>. QED BY <1>12 DEF w

(***************************************************************************)
(* The loop of div, for numbers of any length                              *)
(***************************************************************************)

(* what the loop keeps are two numbers that have digits                     *)
Proper(s) ==
    s \in [res : Numbers, rem : Numbers] /\ Len(s.res.digits) > 0 /\ Len(s.rem.digits) > 0

(* the divisor's highest digit, rid of its sign, is a digit                 *)
LEMMA MagnitudeDigit ==
    ASSUME NEW b \in Numbers, Len(b.digits) > 0
    PROVE  Magnitude(b) \in Digit
<1>. DEFINE d == b.digits[1]
<1>1. d \in Digit
    <2>1. Digits(b.digits, Len(b.digits)) /\ Len(b.digits) \in Nat
        BY NumberIs
    <2>2. 1 \in 1..Len(b.digits)
        BY <2>1
    <2>. QED BY <2>1, <2>2 DEF Digits
<1>. HIDE DEF d
<1>2. (-d) % Base \in Digit
    <2>1. -d \in Int /\ Base \in Nat \ {0}
        BY <1>1, BaseIs
    <2>2. (-d) % Base \in 0..(Base - 1)
        BY <2>1, DivMod
    <2>. QED BY <2>2, BaseIs
<1>3. MAX - d \in Digit
    BY <1>1, BaseIs
<1>4. Magnitude(b) = d \/ Magnitude(b) = (-d) % Base \/ Magnitude(b) = MAX - d
    BY DEF Magnitude, d
<1>. QED BY <1>1, <1>2, <1>3, <1>4

(* both halves of an estimate are digits                                    *)
LEMMA EstimateDigits ==
    ASSUME NEW r \in Digit, NEW F \in 1..MAX, NEW final \in BOOLEAN, NEW round \in BOOLEAN
    PROVE  LET wide == (r * Base) \div F
           IN wide \in Int /\ High(wide, final, round) \in Digit /\ Low(wide, final) \in Digit
<1>. DEFINE wide == (r * Base) \div F
<1>1. PICK h, t, k, m : Guess(r, F, h, t, k, m)
    BY Guesses
<1>2. h \in Digit /\ k \in Digit /\ wide = h * Base + k /\ wide \div Base = h /\ wide % Base = k
    BY <1>1 DEF Guess
<1>3. wide \in Int
    <2>1. h \in Int /\ k \in Int /\ Base \in Int
        BY <1>2, BaseIs
    <2>2. h * Base + k \in Int
        BY <2>1
    <2>. QED BY <2>2, <1>2
<1>. HIDE DEF wide
<1>4. (h + 1) % Base \in Digit
    <2>1. h + 1 \in Int /\ Base \in Nat \ {0}
        BY <1>2, BaseIs
    <2>2. (h + 1) % Base \in 0..(Base - 1)
        BY <2>1, DivMod
    <2>. QED BY <2>2, BaseIs
<1>5. High(wide, final, round) \in Digit
    BY <1>2, <1>4 DEF High
<1>6. Low(wide, final) \in Digit
    BY <1>2, BaseIs DEF Low
<1>. QED BY <1>3, <1>5, <1>6 DEF wide

(* what the loop takes from the remainder per divisor is a number           *)
LEMMA LessNumber ==
    ASSUME NEW b \in Numbers, NEW q \in Seq(Digit), Len(q) > 0, NEW e \in Int, NEW wide \in Int
    PROVE  Less(b, q, e, wide) \in Numbers /\ Len(Less(b, q, e, wide).digits) > 0
<1>. DEFINE l == Len(q)
            d == [i \in DOMAIN q |-> IF i = Len(q) THEN (-q[i]) % Base ELSE MAX - q[i]]
<1>1. l \in Nat /\ l > 0 /\ DOMAIN q = 1..l /\ \A i \in 1..l : q[i] \in Digit
    OBVIOUS
<1>2. d \in Seq(Digit) /\ Len(d) > 0
    <2>1. ASSUME NEW i \in 1..l
          PROVE  (IF i = Len(q) THEN (-q[i]) % Base ELSE MAX - q[i]) \in Digit
        <3>. DEFINE v == q[i]
        <3>1. v \in Digit
            BY <1>1
        <3>. HIDE DEF v
        <3>2. MAX - v \in Digit /\ -v \in Int /\ Base \in Nat \ {0}
            BY <3>1, BaseIs
        <3>3. (-v) % Base \in 0..(Base - 1)
            BY <3>2, DivMod
        <3>4. (-v) % Base \in Digit
            BY <3>3, BaseIs
        <3>. QED BY <3>2, <3>4 DEF v
    <2>2. d \in [1..l -> Digit]
        BY <2>1, <1>1
    <2>. HIDE DEF d, l
    <2>. QED BY <2>2, <1>1, MadeSeq
<1>. HIDE DEF d
<1>3. Less(b, q, e, wide) = IF b.neg THEN [neg |-> FALSE, exp |-> e, digits |-> q]
                            ELSE [neg |-> wide # 0, exp |-> e, digits |-> d]
    BY DEF Less, d
<1>4. [neg |-> FALSE, exp |-> e, digits |-> q] \in Numbers
    BY DEF Numbers
<1>5. [neg |-> wide # 0, exp |-> e, digits |-> d] \in Numbers
    BY <1>2 DEF Numbers
<1>6. CASE b.neg
    BY <1>3, <1>4, <1>6
<1>7. CASE ~b.neg
    BY <1>2, <1>3, <1>5, <1>7
<1>. QED BY <1>6, <1>7

(* a digit recorded leaves a number                                         *)
LEMMA RecordedNumber ==
    ASSUME NEW a \in Numbers, Len(a.digits) > 0, NEW v \in Digit, NEW e \in Int
    PROVE  Recorded(a, v, e) \in Numbers /\ Len(Recorded(a, v, e).digits) > 0
<1>. DEFINE w == Recorded(a, v, e)
<1>1. CASE v = 0
    <2>1. w = Recorded(a, 0, e)
        BY <1>1
    <2>. HIDE DEF w
    <2>2. (\E n \in Nat : Widens(w, a, 0, n))
          /\ Len(w.digits) = IF a.exp - e > Len(a.digits) THEN a.exp - e ELSE Len(a.digits)
        BY <2>1, RecordedZero
    <2>3. w \in Numbers
        BY <2>2 DEF Widens
    <2>4. Len(w.digits) > 0
        <3>1. a.exp - e \in Int /\ Len(a.digits) \in Int
            BY NumberIs
        <3>. QED BY <3>1, <2>2
    <2>. QED BY <2>3, <2>4 DEF w
<1>2. CASE v # 0
    <2>1. w = add(a, v, e)
        BY <1>2 DEF Recorded
    <2>2. add(a, v, e) \in Numbers /\ Trimmed(add(a, v, e))
        BY AddIs
    <2>. QED BY <2>1, <2>2, TrimmedIs
<1>. QED BY <1>1, <1>2

(* the remainder less a multiple of the divisor is a number                 *)
LEMMA ReducedNumber ==
    ASSUME NEW a \in Numbers, NEW b \in Numbers, Len(b.digits) > 0,
           NEW q \in Seq(Digit), Len(q) > 0, NEW e \in Int, NEW wide \in Int
    PROVE  LET y == Plus(a, Times(b, Less(b, q, e, wide))) IN y \in Numbers /\ Len(y.digits) > 0
<1>. DEFINE c == Less(b, q, e, wide)
            p == Times(b, c)
            y == Plus(a, p)
<1>1. c \in Numbers /\ Len(c.digits) > 0
    BY LessNumber
<1>. HIDE DEF c
<1>2. p \in Numbers /\ Len(p.digits) > 0
    <2>1. Multiple(p, b, c)
        BY <1>1, TimesIs
    <2>2. Trimmed(p)
        BY <2>1 DEF Multiple
    <2>. QED BY <2>2, TrimmedIs
<1>. HIDE DEF p
<1>3. Trimmed(y)
    BY <1>2, PlusNumber
<1>. QED BY <1>3, TrimmedIs DEF p, c

(* one time round the loop keeps them numbers that have digits              *)
LEMMA DivisionProper ==
    ASSUME NEW s, Proper(s), NEW b \in Numbers, Len(b.digits) > 0, Magnitude(b) # 0,
           NEW e \in Int, NEW first \in BOOLEAN, NEW final \in BOOLEAN, NEW round \in BOOLEAN
    PROVE  Proper(Division(s, b, e, first, final, round))
<1>. DEFINE r == s.rem.digits[1]
            F == Magnitude(b)
            wide == (r * Base) \div F
            hi == High(wide, final, round)
            lo == Low(wide, final)
<1>1. /\ s.res \in Numbers /\ s.rem \in Numbers /\ Len(s.res.digits) > 0 /\ Len(s.rem.digits) > 0
      /\ s = [res |-> s.res, rem |-> s.rem]
    BY DEF Proper
<1>2. r \in Digit
    <2>1. Digits(s.rem.digits, Len(s.rem.digits)) /\ Len(s.rem.digits) \in Nat
        BY <1>1, NumberIs
    <2>2. 1 \in 1..Len(s.rem.digits)
        BY <2>1, <1>1
    <2>. QED BY <2>1, <2>2 DEF Digits
<1>3. F \in 1..MAX
    <2>1. F \in Digit
        BY MagnitudeDigit
    <2>. QED BY <2>1, BaseIs
<1>4. wide \in Int /\ hi \in Digit /\ lo \in Digit
    <2>. HIDE DEF r, F
    <2>. QED BY <1>2, <1>3, EstimateDigits
<1>5. Division(s, b, e, first, final, round) \in {s, Divided(s, b, e, wide, hi, lo)}
    BY DEF Division, Estimated
<1>. HIDE DEF wide, hi, lo
<1>6. Recorded(s.res, hi, e) \in Numbers /\ Len(Recorded(s.res, hi, e).digits) > 0
    BY <1>1, <1>4, RecordedNumber
<1>7. Recorded(s.res, 0, e) \in Numbers /\ Len(Recorded(s.res, 0, e).digits) > 0
    <2>1. 0 \in Digit
        BY BaseIs
    <2>. QED BY <2>1, <1>1, RecordedNumber
<1>8. Proper(Divided(s, b, e, wide, hi, lo))
    <2>1. CASE hi = 0 /\ lo = 0
        <3>1. Divided(s, b, e, wide, hi, lo) = [res |-> Recorded(s.res, 0, e), rem |-> s.rem]
            <4>1. Divided(s, b, e, wide, hi, lo) = [s EXCEPT !.res = Recorded(@, 0, e)]
                BY <2>1 DEF Divided
            <4>. QED BY <4>1, <1>1
        <3>. QED BY <3>1, <1>1, <1>7 DEF Proper
    <2>2. CASE lo = 0 /\ hi # 0
        <3>. DEFINE q == <<hi>>
                    y == Plus(s.rem, Times(b, Less(b, q, e, wide)))
        <3>1. q \in Seq(Digit) /\ Len(q) > 0
            BY <1>4
        <3>2. Divided(s, b, e, wide, hi, lo) = [res |-> Recorded(s.res, hi, e), rem |-> y]
            BY <2>2 DEF Divided
        <3>3. y \in Numbers /\ Len(y.digits) > 0
            <4>. HIDE DEF q
            <4>. QED BY <3>1, <1>1, <1>4, ReducedNumber
        <3>. HIDE DEF y
        <3>. QED BY <3>2, <3>3, <1>6 DEF Proper
    <2>3. CASE lo # 0
        <3>. DEFINE q == <<hi, lo>>
                    y == Plus(s.rem, Times(b, Less(b, q, e, wide)))
                    v == Recorded(s.res, hi, e)
                    w == [v EXCEPT !.digits = Append(@, lo)]
        <3>1. q \in Seq(Digit) /\ Len(q) > 0
            BY <1>4
        <3>2. Divided(s, b, e, wide, hi, lo) = [res |-> w, rem |-> y]
            BY <2>3 DEF Divided
        <3>3. y \in Numbers /\ Len(y.digits) > 0
            <4>. HIDE DEF q
            <4>. QED BY <3>1, <1>1, <1>4, ReducedNumber
        <3>4. w \in Numbers /\ Len(w.digits) > 0
            <4>1. v \in Numbers /\ Len(v.digits) \in Nat
                BY <1>6, NumberIs
            <4>. HIDE DEF v
            <4>2. Appended(w, v, lo)
                BY <4>1, <1>4, AppendIs
            <4>. HIDE DEF w
            <4>. QED BY <4>1, <4>2 DEF Appended
        <3>. HIDE DEF y, w
        <3>. QED BY <3>2, <3>3, <3>4 DEF Proper
    <2>. QED BY <2>1, <2>2, <2>3
<1>. QED BY <1>5, <1>8

(* Where the loop begins, one time round it, and what it returns            *)
Beginning(a, b) ==
    [res |-> [neg |-> FALSE, exp |-> a.exp - b.exp, digits |-> << 0 >>],
     rem |-> IF a.neg THEN negate(a) ELSE a]
(* one turn of div's loop, and what div makes of the last                   *)
Looped(s, a, b, n, places, round) ==
    Division(s, b, a.exp - b.exp - n + 1, n = 1, n = places + 1, round)
Returned(s, a, b) ==
    IF a.neg = b.neg THEN [quotient |-> trim(s.res), remainder |-> s.rem]
    ELSE [quotient |-> trim(negate(s.res)), remainder |-> negate(s.rem)]
(* h[n] is what n turns leave                                               *)
LoopsDone(h, a, b, places, round) ==
    /\ h[0] = Beginning(a, b)
    /\ \A n \in 1..(places + 1) : h[n] = Looped(h[n - 1], a, b, n, places, round)

(* the loop begins with numbers that have digits                            *)
LEMMA BeginningProper ==
    ASSUME NEW a \in Numbers, Len(a.digits) > 0, NEW b \in Numbers
    PROVE  Proper(Beginning(a, b))
<1>. DEFINE res == [neg |-> FALSE, exp |-> a.exp - b.exp, digits |-> << 0 >>]
            rem == IF a.neg THEN negate(a) ELSE a
<1>1. res \in Numbers /\ Len(res.digits) > 0
    <2>1. 0 \in Digit
        BY BaseIs
    <2>2. a.exp - b.exp \in Int
        BY NumberIs
    <2>. QED BY <2>1, <2>2 DEF Numbers
<1>2. rem \in Numbers /\ Len(rem.digits) > 0
    <2>1. Opposite(negate(a), a)
        BY NegateIs
    <2>. QED BY <2>1 DEF Opposite
<1>. HIDE DEF res, rem
<1>3. Beginning(a, b) = [res |-> res, rem |-> rem]
    BY DEF Beginning, res, rem
<1>. QED BY <1>1, <1>2, <1>3 DEF Proper

(* one time round the loop of a division                                    *)
LEMMA LoopedProper ==
    ASSUME NEW a \in Numbers, NEW b \in Numbers, Len(b.digits) > 0, Magnitude(b) # 0,
           NEW places \in Nat, NEW round \in BOOLEAN, NEW n \in Int, NEW s, Proper(s)
    PROVE  Proper(Looped(s, a, b, n, places, round))
<1>1. a.exp - b.exp - n + 1 \in Int
    BY NumberIs
<1>2. (n = 1) \in BOOLEAN /\ (n = places + 1) \in BOOLEAN
    OBVIOUS
<1>. QED BY <1>1, <1>2, DivisionProper DEF Looped

(* the loop is what the recursion of div computes                           *)
LEMMA DivUnrolled ==
    ASSUME NEW a \in Numbers, NEW b \in Numbers, Len(a.digits) > 0, Len(b.digits) > 0,
           Magnitude(b) # 0, NEW places \in Nat, NEW round \in BOOLEAN, ~cmp(a, Number(0), "Eq")
    PROVE  \E h : LoopsDone(h, a, b, places, round) /\ div(a, b, places, round) = Returned(h[places + 1], a, b)
<1>. DEFINE N == places + 1
            V == {s \in [res : Numbers, rem : Numbers] : Proper(s)}
            z == Beginning(a, b)
            F(k, s) == Looped(s, a, b, k, places, round)
            g == [k \in 1..N |-> [s \in V |-> F(k, s)]]
<1>1. N \in Nat
    OBVIOUS
<1>2. z \in V
    <2>1. Proper(z)
        BY BeginningProper
    <2>. HIDE DEF z
    <2>. QED BY <2>1 DEF Proper
<1>3. ASSUME NEW k \in 1..N, NEW s \in V PROVE F(k, s) \in V
    <2>1. Proper(F(k, s))
        BY LoopedProper
    <2>. HIDE DEF F
    <2>. QED BY <2>1 DEF Proper
<1>4. g \in [1..N -> [V -> V]]
    <2>. HIDE DEF F, V, N
    <2>. QED BY <1>3
<1>5. PICK h : Unrolls(h, N, V, z, g)
    <2>. HIDE DEF g, V, z, N
    <2>. QED BY <1>1, <1>2, <1>4, Unrolled
<1>6. h \in [0..N -> V] /\ h[0] = z /\ \A k \in 1..N : h[k] = g[k][h[k - 1]]
    BY <1>5 DEF Unrolls
<1>7. h = [k \in 0..N |-> IF k = 0 THEN z ELSE F(k, h[k - 1])]
    <2>. HIDE DEF F, V, N, z
    <2>1. ASSUME NEW k \in 0..N PROVE h[k] = IF k = 0 THEN z ELSE F(k, h[k - 1])
        <3>1. CASE k = 0
            BY <3>1, <1>6
        <3>2. CASE k # 0
            <4>1. k \in 1..N /\ k - 1 \in 0..N
                BY <3>2, <1>1
            <4>2. h[k - 1] \in V /\ h[k] = g[k][h[k - 1]]
                BY <4>1, <1>6
            <4>3. g[k] = [s \in V |-> F(k, s)]
                BY <4>1
            <4>. QED BY <4>2, <4>3, <3>2
        <3>. QED BY <3>1, <3>2
    <2>. HIDE DEF g
    <2>. QED BY <2>1, <1>6
<1>. DEFINE t == CHOOSE t : t = [k \in 0..(places + 1) |->
                     IF k = 0 THEN [res |-> [neg |-> FALSE, exp |-> a.exp - b.exp, digits |-> << 0 >>],
                                    rem |-> IF a.neg THEN negate(a) ELSE a]
                     ELSE Division(t[k - 1], b, a.exp - b.exp - k + 1, k = 1, k = places + 1, round)]
<1>8. div(a, b, places, round) = Returned(t[places + 1], a, b)
    BY DEF div, Returned
<1>9. h = [k \in 0..(places + 1) |->
                     IF k = 0 THEN [res |-> [neg |-> FALSE, exp |-> a.exp - b.exp, digits |-> << 0 >>],
                                    rem |-> IF a.neg THEN negate(a) ELSE a]
                     ELSE Division(h[k - 1], b, a.exp - b.exp - k + 1, k = 1, k = places + 1, round)]
    BY <1>7 DEF Beginning, Looped
<1>10. t = [k \in 0..(places + 1) |->
                     IF k = 0 THEN [res |-> [neg |-> FALSE, exp |-> a.exp - b.exp, digits |-> << 0 >>],
                                    rem |-> IF a.neg THEN negate(a) ELSE a]
                     ELSE Division(t[k - 1], b, a.exp - b.exp - k + 1, k = 1, k = places + 1, round)]
    BY <1>9
<1>. HIDE DEF t
<1>11. t = [k \in 0..N |-> IF k = 0 THEN z ELSE F(k, t[k - 1])]
    BY <1>10 DEF Beginning, Looped
<1>12. t[0] = z
    <2>. HIDE DEF z, F
    <2>1. 0 \in 0..N
        OBVIOUS
    <2>. QED BY <2>1, <1>11
<1>13. ASSUME NEW k \in 1..N PROVE t[k] = F(k, t[k - 1])
    <2>. HIDE DEF z, F
    <2>1. k \in 0..N /\ k # 0
        BY <1>1
    <2>. HIDE DEF N
    <2>. QED BY <2>1, <1>11
<1>14. LoopsDone(t, a, b, places, round)
    BY <1>12, <1>13 DEF LoopsDone
<1>. QED BY <1>8, <1>14

(* whenever it ends, the loop has numbers that have digits                  *)
LEMMA LoopsProper ==
    ASSUME NEW a \in Numbers, NEW b \in Numbers, Len(a.digits) > 0, Len(b.digits) > 0,
           Magnitude(b) # 0, NEW places \in Nat, NEW round \in BOOLEAN,
           NEW h, LoopsDone(h, a, b, places, round), NEW n \in Nat, n <= places + 1
    PROVE  Proper(h[n])
<1>. DEFINE N == {i \in Nat : i <= places + 1 => Proper(h[i])}
<1>1. 0 \in N
    <2>1. Proper(h[0])
        BY BeginningProper DEF LoopsDone
    <2>. QED BY <2>1
<1>2. ASSUME NEW i \in N PROVE i + 1 \in N
    <2>1. SUFFICES ASSUME i + 1 <= places + 1 PROVE Proper(h[i + 1])
        OBVIOUS
    <2>2. i \in Nat /\ i <= places + 1 /\ i + 1 \in 1..(places + 1) /\ (i + 1) - 1 = i
        BY <2>1
    <2>3. h[i + 1] = Looped(h[i], a, b, i + 1, places, round)
        BY <2>2 DEF LoopsDone
    <2>4. Proper(h[i])
        BY <2>2
    <2>5. i + 1 \in Int
        BY <2>2
    <2>. QED BY <2>3, <2>4, <2>5, LoopedProper
<1>3. N \in SUBSET Nat
    OBVIOUS
<1>. HIDE DEF N
<1>4. N = Nat
    BY <1>1, <1>2, <1>3, AllNaturals
<1>. QED BY <1>4 DEF N

(* a quotient is a number as trim leaves it, so that the accumulator        *)
(* keeps its form over every operation (numeric.cpp, operator/)             *)
LEMMA QuotientTrimmed ==
    ASSUME NEW a \in Numbers, NEW b \in Numbers, Len(a.digits) > 0, Len(b.digits) > 0,
           Divides(b), NEW places \in Nat, NEW round \in BOOLEAN
    PROVE  Trimmed(div(a, b, places, round).quotient)
<1>1. CASE cmp(a, Number(0), "Eq")
    <2>1. div(a, b, places, round) = [quotient |-> Number(0), remainder |-> Number(0)]
        BY <1>1 DEF div
    <2>. QED BY <2>1, NumberZero
<1>2. CASE ~cmp(a, Number(0), "Eq")
    <2>1. Magnitude(b) # 0
        BY DEF Divides
    <2>2. PICK h : /\ LoopsDone(h, a, b, places, round)
                   /\ div(a, b, places, round) = Returned(h[places + 1], a, b)
        BY <2>1, <1>2, DivUnrolled
    <2>. DEFINE s == h[places + 1]
    <2>3. Proper(s)
        <3>1. places + 1 \in Nat /\ places + 1 <= places + 1
            OBVIOUS
        <3>. QED BY <3>1, <2>1, <2>2, LoopsProper
    <2>. HIDE DEF s
    <2>4. s.res \in Numbers /\ Len(s.res.digits) > 0
        BY <2>3 DEF Proper
    <2>5. negate(s.res) \in Numbers /\ Len(negate(s.res).digits) > 0
        <3>1. Opposite(negate(s.res), s.res)
            BY <2>4, NegateIs
        <3>. QED BY <3>1, <2>4 DEF Opposite
    <2>6. Trimmed(trim(s.res)) /\ Trimmed(trim(negate(s.res)))
        BY <2>4, <2>5, TrimIs
    <2>7. div(a, b, places, round).quotient \in {trim(s.res), trim(negate(s.res))}
        BY <2>2 DEF s, Returned
    <2>. QED BY <2>6, <2>7
<1>. QED BY <1>1, <1>2

(***************************************************************************)
(* The loop of div, for one digit divided by one                           *)
(***************************************************************************)

(* one or two digits read                                                   *)
LEMMA ReadFew ==
    ASSUME NEW h \in Digit, NEW k \in Digit
    PROVE  /\ <<h>> \in Seq(Digit) /\ Len(<<h>>) = 1 /\ Read(<<h>>, 1) = h
           /\ <<h, k>> \in Seq(Digit) /\ Len(<<h, k>>) = 2 /\ Read(<<h, k>>, 2) = h * Base + k
           /\ Rank(1) = Base
<1>1. <<h>> \in Seq(Digit) /\ Len(<<h>>) = 1 /\ <<h>>[1] = h
    OBVIOUS
<1>2. Read(<<h>>, 1) = h
    <2>. DEFINE q == <<h>>
    <2>. HIDE DEF q
    <2>1. Read(q, 1) = q[1]
        BY <1>1, SingleDigit DEF q
    <2>. QED BY <2>1, <1>1 DEF q
<1>. DEFINE p == <<h, k>>
<1>3. p \in Seq(Digit) /\ Len(p) = 2 /\ p[1] = h /\ p[2] = k
    OBVIOUS
<1>. HIDE DEF p
<1>4. Row(p, 2) /\ Row(p, 1)
    <2>1. 2 \in Nat /\ 1 \in Nat /\ 2 <= Len(p) /\ 1 <= Len(p)
        BY <1>3
    <2>. QED BY <2>1, <1>3, SeqRow
<1>5. Read(p, 1) = h
    <2>1. Read(p, 0 + 1) = Read(p, 0) * Base + p[0 + 1]
        BY <1>4, ReadNext
    <2>2. Read(p, 0) = 0
        BY ReadZero
    <2>3. 0 * Base = 0 /\ 0 + h = h
        BY BaseIs
    <2>. QED BY <2>1, <2>2, <2>3, <1>3
<1>6. Read(p, 2) = h * Base + k
    <2>1. Read(p, 1 + 1) = Read(p, 1) * Base + p[1 + 1]
        BY <1>4, ReadNext
    <2>. QED BY <2>1, <1>3, <1>5
<1>7. Rank(1) = Base
    <2>1. Rank(0 + 1) = Base * Rank(0)
        BY RankNext
    <2>. QED BY <2>1, Ranks0, BaseIs
<1>. QED BY <1>1, <1>2, <1>3, <1>6, <1>7 DEF p

(* the digits subtracted: the low one is left out if it is 0                *)
DigitsTaken(h, k) == IF k = 0 THEN <<h>> ELSE <<h, k>>
Rest(a, b, h, k, e, wide) == Plus(a, Times(b, Less(b, DigitsTaken(h, k), e, wide)))

(* a remainder of one digit leaves one of one digit, a rank lower           *)
LEMMA RestDigit ==
    ASSUME NEW a, NEW r \in Digit, r # 0, NEW R \in Int, IsDigit(a, r, R),
           NEW b, NEW F, Single(b, F), NEW h, NEW t, NEW k, NEW m, Guess(r, F, h, t, k, m),
           NEW e \in Int, e = R - b.exp, NEW wide \in Int, wide # 0
    PROVE  /\ IsDigit(Rest(a, b, h, k, e, wide), m, R - 1)
           /\ Bottom(Rest(a, b, h, k, e, wide)) >= R - 1
<1>. DEFINE q == DigitsTaken(h, k)
            y == Rest(a, b, h, k, e, wide)
            T == R - 1
            u == -(R - 1)
<1>1. F \in 1..MAX /\ h \in Digit /\ k \in Digit /\ m \in 0..(F - 1) /\ t \in 0..(F - 1)
    BY DEF Single, Guess
<1>2. r = F * h + t /\ t * Base = F * k + m
    BY DEF Guess
<1>3. (r # 0 => h * Base + k # 0 /\ (h = 0 => k # 0)) /\ (k = 0 => t = 0 /\ m = 0)
    BY <1>1, GuessIs
<1>4. q \in Seq(Digit) /\ Len(q) \in 1..2 /\ q[Len(q)] # 0
    <2>1. CASE k = 0
        <3>1. q = <<h>> /\ h # 0
            BY <2>1, <1>3 DEF DigitsTaken
        <3>. QED BY <3>1, <1>1
    <2>2. CASE k # 0
        <3>1. q = <<h, k>>
            BY <2>2 DEF DigitsTaken
        <3>. QED BY <3>1, <2>2, <1>1
    <2>. QED BY <2>1, <2>2
<1>. HIDE DEF q
<1>5. Reduces(y, r, R, F, q)
    <2>1. Reduces(Plus(a, Times(b, Less(b, q, e, wide))), r, R, F, q)
        BY <1>1, <1>4, Reduced
    <2>. QED BY <2>1 DEF Rest, q
<1>. HIDE DEF y
<1>6. y \in Numbers /\ Trimmed(y) /\ Bottom(y) >= R - Len(q) + 1 /\ Bottom(y) \in Int
    <2>1. y \in Numbers /\ Trimmed(y) /\ Bottom(y) >= R - Len(q) + 1
        BY <1>5 DEF Reduces
    <2>. QED BY <2>1, NumberIs
<1>7. Bottom(y) >= R - 1
    <2>1. Len(q) \in Int /\ Len(q) <= 2
        BY <1>4
    <2>. QED BY <2>1, <1>6
<1>8. u \in Int /\ u = -T /\ T \in Int
    OBVIOUS
<1>9. Value(y, u) = m
    <2>1. CASE k = 0
        <3>1. q = <<h>>
            BY <2>1 DEF q, DigitsTaken
        <3>2. Len(q) = 1 /\ Read(q, Len(q)) = h
            BY <3>1, <1>1, ReadFew
        <3>3. R - Len(q) + 1 + u = 1 /\ Len(q) - 1 = 0
            BY <3>2
        <3>4. Value(y, u) = (r * Rank(0) - F * h) * Rank(1)
            <4>1. Value(y, u) = (r * Rank(Len(q) - 1) - F * Read(q, Len(q))) * Rank(R - Len(q) + 1 + u)
                BY <3>3, <1>5, <1>8 DEF Reduces
            <4>. QED BY <4>1, <3>2, <3>3
        <3>5. r * Rank(0) - F * h = 0
            <4>1. r * Rank(0) = r
                BY Ranks0, BaseIs
            <4>2. t = 0 /\ F * h \in Int
                BY <2>1, <1>1, <1>3, BaseIs
            <4>. QED BY <4>1, <4>2, <1>2
        <3>6. 0 * Rank(1) = 0
            <4>1. Rank(1) = Base
                BY <1>1, ReadFew
            <4>. QED BY <4>1, BaseIs
        <3>. QED BY <3>4, <3>5, <3>6, <2>1, <1>3
    <2>2. CASE k # 0
        <3>1. q = <<h, k>>
            BY <2>2 DEF q, DigitsTaken
        <3>2. Len(q) = 2 /\ Read(q, Len(q)) = h * Base + k
            BY <3>1, <1>1, ReadFew
        <3>3. R - Len(q) + 1 + u = 0 /\ Len(q) - 1 = 1
            BY <3>2
        <3>4. Value(y, u) = (r * Rank(1) - F * (h * Base + k)) * Rank(0)
            <4>1. Value(y, u) = (r * Rank(Len(q) - 1) - F * Read(q, Len(q))) * Rank(R - Len(q) + 1 + u)
                BY <3>3, <1>5, <1>8 DEF Reduces
            <4>. QED BY <4>1, <3>2, <3>3
        <3>5. Rank(1) = Base /\ Rank(0) = 1
            BY <1>1, ReadFew, Ranks0
        <3>6. r * Base - F * (h * Base + k) = m
            <4>1. F \in Int /\ h \in Int /\ k \in Int /\ t \in Int /\ m \in Int /\ Base \in Int
                BY <1>1, BaseIs
            <4>. DEFINE g == h * Base
                        f == F * h
            <4>2. g \in Int /\ f \in Int /\ F * g = f * Base
                BY <4>1
            <4>3. r = f + t
                BY <1>2
            <4>. HIDE DEF g, f
            <4>4. F * (g + k) = F * g + F * k /\ F * g \in Int /\ F * k \in Int
                BY <4>1, <4>2
            <4>5. r * Base = f * Base + t * Base /\ f * Base \in Int
                BY <4>1, <4>2, <4>3
            <4>6. r * Base - F * (g + k) = m
                BY <4>1, <4>2, <4>4, <4>5, <1>2
            <4>. QED BY <4>6 DEF g
        <3>7. m * 1 = m
            BY <1>1
        <3>. QED BY <3>4, <3>5, <3>6, <3>7
    <2>. QED BY <2>1, <2>2
<1>10. m \in Int /\ m >= 0 /\ m < Base
    BY <1>1, BaseIs
<1>11. IsDigit(y, m, T)
    <2>1. Bottom(y) >= T /\ m = Value(y, -T)
        BY <1>7, <1>8, <1>9
    <2>. HIDE DEF T, u
    <2>. QED BY <2>1, <1>6, <1>8, <1>10, OneDigit
<1>. QED BY <1>7, <1>11 DEF y

(* a rank lower the unit of a value is the base times as small              *)
LEMMA ValueNext ==
    ASSUME NEW a \in Numbers, NEW s \in Int, Bottom(a) + s >= 0
    PROVE  Value(a, s) \in Int /\ Value(a, s + 1) = Value(a, s) * Base
<1>. DEFINE n == Bottom(a) + s
            M == Amount(a)
<1>1. n \in Nat /\ Bottom(a) + (s + 1) = n + 1 /\ M \in Int /\ s + 1 \in Int
    <2>1. Bottom(a) \in Int /\ Amount(a) \in Int
        BY NumberIs
    <2>. QED BY <2>1
<1>2. Value(a, s) = M * Rank(n) /\ Value(a, s + 1) = M * Rank(n + 1)
    <2>1. Value(a, s) = Amount(a) * Rank(Bottom(a) + s)
        BY ValueIs
    <2>2. Value(a, s + 1) = Amount(a) * Rank(Bottom(a) + (s + 1))
        BY <1>1, ValueIs
    <2>. QED BY <2>1, <2>2, <1>1
<1>. HIDE DEF n, M
<1>3. Rank(n) \in Nat /\ Rank(n + 1) = Base * Rank(n)
    BY <1>1, RankNext
<1>. DEFINE R == Rank(n)
<1>4. R \in Int /\ Base \in Int
    BY <1>3, BaseIs
<1>5. M * (Base * R) = (M * R) * Base /\ M * R \in Int
    <2>. HIDE DEF R
    <2>. QED BY <1>1, <1>4
<1>. QED BY <1>2, <1>3, <1>5

(* the accounts of the loop: quotient times divisor and remainder           *)
LEMMA Accounts ==
    ASSUME NEW Q \in Int, NEW F \in Int, NEW r \in Int, NEW h \in Int, NEW t \in Int, NEW k \in Int,
           NEW m \in Int, NEW D \in Int, NEW M \in Int, Q * F + r = D * M
    PROVE  /\ r = F * h + t /\ t * Base = F * k + m => ((Q + h) * Base + k) * F + m = D * (Base * M)
           /\ (Q + h) * F + (r - F * h) = D * M
<1>. DEFINE g == Q * F
            f == F * h
            d == D * M
            c == F * k
<1>1. g \in Int /\ f \in Int /\ d \in Int /\ c \in Int /\ Base \in Int /\ d = g + r
    BY BaseIs
<1>2. D * (Base * M) = d * Base
    BY <1>1
<1>3. (Q + h) * F = g + f
    OBVIOUS
<1>5. ((Q + h) * Base + k) * F = (g + f) * Base + c
    <2>. DEFINE p == Q + h
    <2>1. p \in Int /\ p * F = g + f
        BY <1>3
    <2>. HIDE DEF p, g, f
    <2>2. (p * Base + k) * F = (p * Base) * F + k * F
        <3>. DEFINE o == p * Base
        <3>1. o \in Int
            BY <2>1, <1>1
        <3>. HIDE DEF o
        <3>2. (o + k) * F = o * F + k * F
            BY <3>1
        <3>. QED BY <3>2 DEF o
    <2>3. (p * Base) * F = (p * F) * Base
        BY <2>1, <1>1
    <2>4. k * F = c
        OBVIOUS
    <2>. HIDE DEF c
    <2>5. (p * Base + k) * F = (g + f) * Base + c
        BY <2>1, <2>2, <2>3, <2>4
    <2>. QED BY <2>5 DEF p
<1>7. r = f + t /\ t * Base = c + m => ((Q + h) * Base + k) * F + m = D * (Base * M)
    <2>. DEFINE y == ((Q + h) * Base + k) * F
    <2>1. y = (g + f) * Base + c
        BY <1>5
    <2>. HIDE DEF g, f, d, c, y
    <2>2. SUFFICES ASSUME r = f + t, t * Base = c + m PROVE y + m = d * Base
        BY <1>2 DEF y
    <2>3. d = (g + f) + t
        BY <2>2, <1>1
    <2>. DEFINE o == g + f
    <2>4. o \in Int
        BY <1>1
    <2>. HIDE DEF o
    <2>5. (o + t) * Base = o * Base + t * Base /\ o * Base \in Int /\ t * Base \in Int
        BY <2>4, <1>1
    <2>6. y = o * Base + c /\ d = o + t
        BY <2>1, <2>3 DEF o
    <2>. QED BY <2>2, <2>5, <2>6, <1>1
<1>8. (Q + h) * F + (r - f) = d
    <2>. DEFINE y == (Q + h) * F
    <2>1. y = g + f
        BY <1>3
    <2>. HIDE DEF g, f, d, y
    <2>2. y + (r - f) = d
        BY <2>1, <1>1
    <2>. QED BY <2>2 DEF y
<1>. QED BY <1>7, <1>8

(* the first digit of a quotient, if it is not 0, takes the place of the 0  *)
LEMMA FirstHigh ==
    ASSUME NEW a \in Numbers, ~a.neg, a.digits = << 0 >>, NEW v \in Digit, v # 0
    PROVE  /\ add(a, v, a.exp) \in Numbers /\ ~add(a, v, a.exp).neg
           /\ add(a, v, a.exp).exp = a.exp /\ add(a, v, a.exp).digits = <<v>>
<1>. DEFINE e == a.exp
            y == add(a, v, e)
            u == -e
<1>1. e \in Int /\ u \in Int /\ Bottom(a) = e /\ e + u = 0 /\ Bottom(a) + u = 0
    <2>1. e \in Int
        BY NumberIs
    <2>2. Bottom(a) = e - 1 + 1
        BY DEF Bottom
    <2>. QED BY <2>1, <2>2
<1>2. ~SignAlone(a)
    BY DEF SignAlone
<1>3. /\ y \in Numbers /\ Trimmed(y) /\ Bottom(y) >= Least(Bottom(a), e)
      /\ \A s \in Int : Bottom(a) + s >= 0 /\ e + s >= 0 => Value(y, s) = Value(a, s) + v * Rank(e + s)
    <2>. HIDE DEF e
    <2>. QED BY <1>1, <1>2, AddIs
<1>. HIDE DEF y
<1>4. Value(a, u) = 0
    <2>1. Value(a, u) = Amount(a) * Rank(Bottom(a) + u)
        BY <1>1, ValueIs
    <2>2. Amount(a) = 0
        <3>. DEFINE q == a.digits
        <3>1. q \in Seq(Digit) /\ Len(q) = 1 /\ q[1] = 0
            BY NumberIs, SMTT(30)
        <3>2. Amount(a) = Read(q, 1)
            BY <3>1, Positive
        <3>. HIDE DEF q
        <3>3. Read(q, 1) = q[1]
            BY <3>1, SingleDigit
        <3>. QED BY <3>1, <3>2, <3>3
    <2>. QED BY <2>1, <2>2, <1>1, Ranks0
<1>5. Value(y, u) = v
    <2>1. Value(y, u) = Value(a, u) + v * Rank(e + u)
        BY <1>1, <1>3
    <2>. QED BY <2>1, <1>1, <1>4, Ranks0, BaseIs
<1>6. Bottom(y) >= e
    BY <1>1, <1>3 DEF Least
<1>7. v \in Int /\ v >= 0 /\ v < Base /\ v = Value(y, -e)
    BY <1>5, BaseIs
<1>. HIDE DEF e, u
<1>8. IsDigit(y, v, e)
    BY <1>1, <1>3, <1>6, <1>7, OneDigit
<1>. QED BY <1>8 DEF IsDigit, y, e

(* a result of rank E, n digits behind its first: after no digit is         *)
(* recorded, at rank E - n, and after two are                               *)
Partly(a, E, n) == a \in Numbers /\ ~a.neg /\ a.exp = E /\ Len(a.digits) <= n + 1 /\ Len(a.digits) > 0
(* the two digits of a turn, recorded in the quotient                       *)
TwoRecorded(a, h, k, e) ==
    IF k = 0 THEN Recorded(a, h, e) ELSE [Recorded(a, h, e) EXCEPT !.digits = Append(@, k)]
Records(w, a, E, n, h, k) ==
    /\ Partly(w, E, n + 1) /\ (k # 0 => Len(w.digits) = n + 2)
    /\ Value(w, (n + 1) - E) = (Value(a, n - E) + h) * Base + k

(* all of a result's digits count                                           *)
LEMMA ResultIs ==
    ASSUME NEW E \in Int, NEW n \in Nat, NEW a, Partly(a, E, n)
    PROVE  /\ Bottom(a) \in Int /\ Bottom(a) >= E - n /\ Bottom(a) + (n - E) >= 0 /\ n - E \in Int
           /\ Value(a, n - E) \in Int
           /\ Len(a.digits) = n + 1 => Bottom(a) = E - n /\ Value(a, n - E) = Amount(a)
<1>. DEFINE l == Len(a.digits)
<1>1. a \in Numbers /\ a.exp = E /\ l <= n + 1 /\ l \in Nat /\ Amount(a) \in Int
    <2>1. a \in Numbers /\ a.exp = E /\ Len(a.digits) <= n + 1
        BY DEF Partly
    <2>. QED BY <2>1, NumberIs
<1>2. Bottom(a) = E - l + 1
    BY <1>1 DEF Bottom
<1>. HIDE DEF l
<1>3. Bottom(a) \in Int /\ Bottom(a) >= E - n /\ Bottom(a) + (n - E) >= 0 /\ n - E \in Int
    BY <1>1, <1>2
<1>4. Value(a, n - E) \in Int
    BY <1>1, <1>3, ValueInt
<1>5. ASSUME l = n + 1 PROVE Bottom(a) = E - n /\ Value(a, n - E) = Amount(a)
    <2>1. Bottom(a) = E - n /\ Bottom(a) + (n - E) = 0
        BY <1>1, <1>2, <1>5
    <2>2. Value(a, n - E) = Amount(a) * Rank(Bottom(a) + (n - E))
        BY <1>1, <1>3, ValueIs
    <2>. QED BY <2>1, <2>2, <1>1, Ranks0
<1>. QED BY <1>3, <1>4, <1>5 DEF l

(* zeros behind a result do not change it                                   *)
LEMMA ZeroRecorded ==
    ASSUME NEW E \in Int, NEW n \in Nat, NEW a, Partly(a, E, n), NEW e \in Int, e = E - n
    PROVE  /\ Partly(Recorded(a, 0, e), E, n)
           /\ Len(a.digits) = n + 1 => Len(Recorded(a, 0, e).digits) = n + 1
           /\ Value(Recorded(a, 0, e), n - E) = Value(a, n - E)
<1>. DEFINE w == Recorded(a, 0, e)
<1>1. a \in Numbers /\ ~a.neg /\ a.exp = E /\ Len(a.digits) <= n + 1 /\ Len(a.digits) \in Nat /\ Len(a.digits) > 0
    <2>1. a \in Numbers /\ ~a.neg /\ a.exp = E /\ Len(a.digits) <= n + 1 /\ Len(a.digits) > 0
        BY DEF Partly
    <2>. QED BY <2>1, NumberIs
<1>2. (\E j \in Nat : Widens(w, a, 0, j))
      /\ Len(w.digits) = IF a.exp - e > Len(a.digits) THEN a.exp - e ELSE Len(a.digits)
    BY <1>1, RecordedZero
<1>. HIDE DEF w
<1>3. PICK j \in Nat : Widens(w, a, 0, j)
    BY <1>2
<1>4. w \in Numbers /\ w.neg = a.neg /\ w.exp = E
    <2>1. w \in Numbers /\ w.neg = a.neg /\ w.exp = a.exp + 0
        BY <1>3 DEF Widens
    <2>. QED BY <2>1, <1>1
<1>5. a.exp - e = n
    BY <1>1
<1>6. Len(w.digits) = IF n > Len(a.digits) THEN n ELSE Len(a.digits)
    BY <1>2, <1>5
<1>7. Partly(w, E, n)
    <2>1. Len(w.digits) <= n + 1 /\ Len(w.digits) > 0
        BY <1>1, <1>6
    <2>. QED BY <2>1, <1>1, <1>4 DEF Partly
<1>8. Len(a.digits) = n + 1 => Len(w.digits) = n + 1
    BY <1>6
<1>9. Value(w, n - E) = Value(a, n - E)
    <2>1. n - E \in Int /\ Bottom(w) + (n - E) >= 0
        BY <1>7, ResultIs
    <2>. DEFINE s == n - E
    <2>. HIDE DEF s
    <2>2. s \in Int /\ Bottom(w) + s >= 0
        BY <2>1 DEF s
    <2>3. Value(w, s) = Value(a, s)
        BY <2>2, <1>3, SameValue
    <2>. QED BY <2>3 DEF s
<1>. QED BY <1>7, <1>8, <1>9 DEF w

(* v is a with h in the place of its last digit                              *)
InPlace(v, a, E, n, h) ==
    Partly(v, E, n) /\ Len(v.digits) = n + 1 /\ Value(v, n - E) = Value(a, n - E) + h

(* a high digit is recorded in the place of the last                        *)
LEMMA HighRecorded ==
    ASSUME NEW E \in Int, NEW n \in Nat, NEW a, Partly(a, E, n), Len(a.digits) = n + 1,
           NEW e \in Int, e = E - n, NEW h \in Digit, h # 0 => n = 0 /\ a.digits = << 0 >>
    PROVE  InPlace(Recorded(a, h, e), a, E, n, h)
<1>1. a \in Numbers /\ ~a.neg /\ a.exp = E
    BY DEF Partly
<1>2. Value(a, n - E) \in Int
    BY ResultIs
<1>3. CASE h = 0
    <2>1. /\ Partly(Recorded(a, 0, e), E, n) /\ Len(Recorded(a, 0, e).digits) = n + 1
          /\ Value(Recorded(a, 0, e), n - E) = Value(a, n - E)
        BY ZeroRecorded
    <2>. QED BY <2>1, <1>2, <1>3 DEF InPlace
<1>4. CASE h # 0
    <2>. DEFINE w == Recorded(a, h, e)
    <2>1. w = add(a, h, a.exp)
        <3>1. e = a.exp
            BY <1>1, <1>4
        <3>. QED BY <3>1, <1>4 DEF Recorded
    <2>2. w \in Numbers /\ ~w.neg /\ w.exp = E /\ w.digits = <<h>>
        BY <2>1, <1>1, <1>4, FirstHigh
    <2>. HIDE DEF w
    <2>3. Len(w.digits) = n + 1
        BY <2>2, <1>4
    <2>4. Partly(w, E, n)
        <3>1. Len(w.digits) <= n + 1 /\ Len(w.digits) > 0
            BY <2>3
        <3>. QED BY <3>1, <2>2 DEF Partly
    <2>5. Value(w, n - E) = Amount(w) /\ Value(a, n - E) = Amount(a)
        BY <2>3, <2>4, ResultIs
    <2>6. Amount(w) = h
        <3>1. w.digits \in Seq(Digit) /\ Len(w.digits) = 1 /\ w.digits[1] = h
            BY <2>2
        <3>2. Amount(w) = Read(w.digits, 1)
            BY <3>1, <2>2, Positive
        <3>. QED BY <3>1, <3>2, SingleDigit
    <2>7. Amount(a) = 0
        <3>1. a.digits \in Seq(Digit) /\ Len(a.digits) = 1 /\ a.digits[1] = 0
            BY <1>1, <1>4, NumberIs
        <3>2. Amount(a) = Read(a.digits, 1)
            BY <3>1, <1>1, Positive
        <3>. QED BY <3>1, <3>2, SingleDigit
    <2>8. Value(w, n - E) = Value(a, n - E) + h
        <3>1. 0 + h = h
            BY BaseIs
        <3>. QED BY <3>1, <2>5, <2>6, <2>7
    <2>. QED BY <2>3, <2>4, <2>8 DEF w, InPlace
<1>. QED BY <1>3, <1>4

(* the two digits of an estimate are recorded                               *)
LEMMA BothRecorded ==
    ASSUME NEW E \in Int, NEW n \in Nat, NEW a, Partly(a, E, n), Len(a.digits) = n + 1,
           NEW e \in Int, e = E - n, NEW h \in Digit, h # 0 => n = 0 /\ a.digits = << 0 >>,
           NEW k \in Digit
    PROVE  Records(TwoRecorded(a, h, k, e), a, E, n, h, k)
<1>. DEFINE v == Recorded(a, h, e)
            w == TwoRecorded(a, h, k, e)
            Q == Value(a, n - E)
<1>1. Partly(v, E, n) /\ Len(v.digits) = n + 1 /\ Value(v, n - E) = Q + h
    <2>. HIDE DEF v, w, Q
    <2>1. InPlace(Recorded(a, h, e), a, E, n, h)
        BY HighRecorded
    <2>. QED BY <2>1 DEF InPlace, v, Q
<1>. HIDE DEF v
<1>2. v \in Numbers /\ ~v.neg /\ v.exp = E
    BY <1>1 DEF Partly
<1>3. Q \in Int /\ n - E \in Int /\ Bottom(v) + (n - E) >= 0 /\ Bottom(v) = E - n /\ Amount(v) = Q + h
    <2>1. Q \in Int /\ n - E \in Int
        BY ResultIs
    <2>. HIDE DEF Q
    <2>2. Bottom(v) + (n - E) >= 0 /\ Bottom(v) = E - n /\ Value(v, n - E) = Amount(v)
        BY <1>1, ResultIs
    <2>. QED BY <2>1, <2>2, <1>1
<1>4. (n + 1) - E = (n - E) + 1
    OBVIOUS
<1>. HIDE DEF Q
<1>5. CASE k = 0
    <2>1. w = v
        BY <1>5 DEF TwoRecorded, v
    <2>. HIDE DEF w
    <2>. DEFINE s == n - E
    <2>2. Value(v, s + 1) = Value(v, s) * Base
        <3>1. s \in Int /\ Bottom(v) + s >= 0
            BY <1>3
        <3>. HIDE DEF s
        <3>. QED BY <3>1, <1>2, ValueNext
    <2>3. Value(w, (n + 1) - E) = (Q + h) * Base
        BY <2>1, <2>2, <1>1, <1>4
    <2>4. (Q + h) * Base + k = (Q + h) * Base
        <3>1. (Q + h) * Base \in Int
            BY <1>3, BaseIs
        <3>. QED BY <3>1, <1>5
    <2>5. Len(v.digits) <= (n + 1) + 1 /\ Len(v.digits) > 0
        BY <1>1
    <2>6. Partly(w, E, n + 1)
        BY <2>1, <2>5, <1>2 DEF Partly
    <2>. QED BY <2>3, <2>4, <2>6, <1>5 DEF Records, w, Q
<1>6. CASE k # 0
    <2>1. w = [v EXCEPT !.digits = Append(@, k)]
        BY <1>6 DEF TwoRecorded, v
    <2>2. Appended(w, v, k)
        BY <2>1, <1>2, AppendIs
    <2>. HIDE DEF w
    <2>3. w \in Numbers /\ ~w.neg /\ w.exp = E /\ Len(w.digits) = n + 2 /\ Amount(w) = (Q + h) * Base + k
        <3>1. Len(w.digits) = n + 2
            BY <2>2, <1>1 DEF Appended
        <3>2. Amount(w) = (Q + h) * Base + k
            BY <2>2, <1>2, <1>3 DEF Appended
        <3>. QED BY <3>1, <3>2, <2>2, <1>2 DEF Appended
    <2>4. Partly(w, E, n + 1)
        <3>1. Len(w.digits) <= (n + 1) + 1 /\ Len(w.digits) > 0
            BY <2>3
        <3>. QED BY <3>1, <2>3 DEF Partly
    <2>5. Value(w, (n + 1) - E) = Amount(w)
        <3>1. n + 1 \in Nat /\ Len(w.digits) = (n + 1) + 1
            BY <2>3
        <3>. QED BY <3>1, <2>4, ResultIs
    <2>. QED BY <2>3, <2>4, <2>5 DEF Records, w, Q
<1>. QED BY <1>5, <1>6

(* After n times round the loop, and the last not among them: the digits so *)
(* far times the divisor's F, and the digit r that remains, are the         *)
(* dividend's D, in units of n ranks below its own.                         *)
Going(s, n, r, E, A, D, F) ==
    /\ Proper(s) /\ Partly(s.res, E, n)
    /\ r \in Digit /\ IsDigit(s.rem, r, A - n) /\ Bottom(s.rem) >= A - n
    /\ n = 0 => s.res.digits = << 0 >>
    /\ n > 0 => r < F
    /\ r # 0 => Len(s.res.digits) = n + 1
    /\ Value(s.res, n - E) * F + r = D * Rank(n)

(* while the remainder is 0 the quotient stays as it is                     *)
LEMMA GoingZero ==
    ASSUME NEW E \in Int, NEW A \in Int, NEW D \in Int, NEW F \in 1..MAX, NEW n \in Nat,
           NEW s, NEW y, Going(s, n, 0, E, A, D, F), Proper(y), y.rem = s.rem,
           Partly(y.res, E, n), Value(y.res, n - E) = Value(s.res, n - E)
    PROVE  Going(y, n + 1, 0, E, A, D, F)
<1>. DEFINE Q == Value(y.res, n - E)
<1>1. /\ IsDigit(s.rem, 0, A - n) /\ Bottom(s.rem) >= A - n /\ s.rem \in Numbers
      /\ Value(s.res, n - E) * F + 0 = D * Rank(n)
    BY DEF Going, IsDigit
<1>2. Q * F + 0 = D * Rank(n)
    BY <1>1
<1>3. /\ y.res \in Numbers /\ ~y.res.neg /\ y.res.exp = E /\ Len(y.res.digits) <= n + 1
      /\ Len(y.res.digits) > 0 /\ Len(y.res.digits) \in Nat
    <2>1. /\ y.res \in Numbers /\ ~y.res.neg /\ y.res.exp = E /\ Len(y.res.digits) <= n + 1
          /\ Len(y.res.digits) > 0
        BY DEF Partly
    <2>. QED BY <2>1, NumberIs
<1>4. n - E \in Int /\ Bottom(y.res) + (n - E) >= 0
    BY ResultIs
<1>5. Q \in Int /\ Value(y.res, (n - E) + 1) = Q * Base
    <2>. DEFINE u == n - E
    <2>. HIDE DEF u
    <2>1. u \in Int /\ Bottom(y.res) + u >= 0
        BY <1>4 DEF u
    <2>2. Value(y.res, u) \in Int /\ Value(y.res, u + 1) = Value(y.res, u) * Base
        BY <2>1, <1>3, ValueNext
    <2>. QED BY <2>2 DEF u
<1>6. (n + 1) - E = (n - E) + 1
    OBVIOUS
<1>7. Value(y.res, (n + 1) - E) = Q * Base
    BY <1>5, <1>6
<1>. HIDE DEF Q
<1>8. Rank(n + 1) = Base * Rank(n) /\ Rank(n) \in Int
    BY RankNext
<1>9. (Q * Base) * F + 0 = D * (Base * Rank(n))
    <2>. DEFINE M == Rank(n)
    <2>1. M \in Int /\ Q * F + 0 = D * M /\ F \in Int /\ Q \in Int
        BY <1>2, <1>5, <1>8, BaseIs
    <2>. HIDE DEF M
    <2>2. (Q * Base) * F + 0 = D * (Base * M)
        <3>. DEFINE g == Q * F
                    d == D * M
        <3>1. g \in Int /\ d \in Int /\ g = d /\ Base \in Int
            BY <2>1, BaseIs
        <3>2. (Q * Base) * F = g * Base /\ D * (Base * M) = d * Base
            BY <2>1, <3>1
        <3>3. (Q * Base) * F \in Int
            BY <2>1, <3>1
        <3>. HIDE DEF g, d
        <3>4. (Q * Base) * F + 0 = (Q * Base) * F
            BY <3>3
        <3>. QED BY <3>1, <3>2, <3>4
    <2>. QED BY <2>2 DEF M
<1>10. Value(y.res, (n + 1) - E) * F + 0 = D * Rank(n + 1)
    BY <1>7, <1>8, <1>9
<1>11. Partly(y.res, E, n + 1)
    <2>1. Len(y.res.digits) <= (n + 1) + 1
        BY <1>3
    <2>. QED BY <2>1, <1>3 DEF Partly
<1>12. IsDigit(y.rem, 0, A - (n + 1)) /\ Bottom(y.rem) >= A - (n + 1)
    <2>1. IsDigit(y.rem, 0, A - (n + 1))
        BY <1>1 DEF IsDigit
    <2>2. Bottom(y.rem) \in Int
        BY <1>1, NumberIs
    <2>. QED BY <2>1, <2>2, <1>1
<1>13. 0 \in Digit /\ 0 < F /\ n + 1 # 0
    BY BaseIs
<1>. QED BY <1>10, <1>11, <1>12, <1>13 DEF Going

(* a remainder that is not 0 gives the next digits, and the next remainder  *)
LEMMA GoingDigits ==
    ASSUME NEW E \in Int, NEW A \in Int, NEW D \in Int, NEW n \in Nat,
           NEW s, NEW r \in Digit, r # 0, NEW b, NEW F, Single(b, F), b.exp = A - E,
           Going(s, n, r, E, A, D, F), NEW e \in Int, e = E - n,
           NEW h, NEW t, NEW k, NEW m, Guess(r, F, h, t, k, m), NEW wide \in Int, wide # 0,
           NEW y, Proper(y), y.res = TwoRecorded(s.res, h, k, e), y.rem = Rest(s.rem, b, h, k, e, wide)
    PROVE  Going(y, n + 1, m, E, A, D, F)
<1>. DEFINE Q == Value(s.res, n - E)
            M == Rank(n)
<1>1. /\ Partly(s.res, E, n) /\ IsDigit(s.rem, r, A - n) /\ (n = 0 => s.res.digits = << 0 >>)
      /\ (n > 0 => r < F) /\ Len(s.res.digits) = n + 1 /\ Q * F + r = D * M
    BY DEF Going
<1>2. /\ F \in 1..MAX /\ h \in Digit /\ k \in Digit /\ t \in 0..(F - 1) /\ m \in 0..(F - 1)
      /\ r = F * h + t /\ t * Base = F * k + m
    BY DEF Single, Guess
<1>3. h = 0 <=> r < F
    BY <1>2, GuessIs
<1>4. h # 0 => n = 0 /\ s.res.digits = << 0 >>
    BY <1>1, <1>3, SMTT(30)
<1>5. Records(y.res, s.res, E, n, h, k)
    <2>1. Records(TwoRecorded(s.res, h, k, e), s.res, E, n, h, k)
        BY <1>1, <1>2, <1>4, BothRecorded
    <2>. QED BY <2>1
<1>6. IsDigit(y.rem, m, A - (n + 1)) /\ Bottom(y.rem) >= A - (n + 1)
    <2>. DEFINE R == A - n
    <2>1. R \in Int /\ e = R - b.exp /\ R - 1 = A - (n + 1) /\ IsDigit(s.rem, r, R)
        <3>1. IsDigit(s.rem, r, R)
            BY <1>1
        <3>. DEFINE g == b.exp
        <3>2. g = A - E
            OBVIOUS
        <3>. HIDE DEF g
        <3>3. A - n \in Int /\ e = (A - n) - g /\ (A - n) - 1 = A - (n + 1)
            BY <3>2
        <3>. QED BY <3>1, <3>3 DEF g
    <2>. HIDE DEF R
    <2>2. /\ IsDigit(Rest(s.rem, b, h, k, e, wide), m, R - 1)
          /\ Bottom(Rest(s.rem, b, h, k, e, wide)) >= R - 1
        BY <2>1, RestDigit
    <2>. QED BY <2>1, <2>2
<1>7. /\ Partly(y.res, E, n + 1) /\ (k # 0 => Len(y.res.digits) = (n + 1) + 1)
      /\ Value(y.res, (n + 1) - E) = (Q + h) * Base + k
    BY <1>5 DEF Records
<1>8. m \in Digit /\ m < F
    BY <1>2, BaseIs
<1>9. m # 0 => k # 0
    BY <1>2, GuessIs
<1>10. Q \in Int
    BY <1>1, ResultIs
<1>11. Rank(n + 1) = Base * M /\ M \in Int
    BY RankNext
<1>. HIDE DEF Q, M
<1>12. ((Q + h) * Base + k) * F + m = D * (Base * M)
    <2>1. F \in Int /\ r \in Int /\ h \in Int /\ t \in Int /\ k \in Int /\ m \in Int
        BY <1>2, BaseIs
    <2>. QED BY <2>1, <1>1, <1>2, <1>10, <1>11, Accounts
<1>13. Value(y.res, (n + 1) - E) * F + m = D * Rank(n + 1)
    BY <1>7, <1>11, <1>12
<1>14. n + 1 # 0
    OBVIOUS
<1>. QED BY <1>6, <1>7, <1>8, <1>9, <1>13, <1>14 DEF Going

(* what the loop keeps, by its parts                                        *)
LEMMA Fields ==
    ASSUME NEW y, NEW v, NEW w, y = [res |-> v, rem |-> w]
    PROVE  y.res = v /\ y.rem = w
OBVIOUS

(* one time round the loop that is not the last                             *)
LEMMA GoingNext ==
    ASSUME NEW E \in Int, NEW A \in Int, NEW D \in Int, NEW n \in Nat, NEW s, NEW r,
           NEW b, NEW F, Single(b, F), F = Magnitude(b), b.exp = A - E, Going(s, n, r, E, A, D, F),
           NEW e \in Int, e = E - n, NEW first \in BOOLEAN, NEW round \in BOOLEAN,
           NEW y, y = Division(s, b, e, first, FALSE, round)
    PROVE  \E v : Going(y, n + 1, v, E, A, D, F)
<1>. DEFINE wide == (r * Base) \div F
<1>1. Proper(s) /\ s = [res |-> s.res, rem |-> s.rem] /\ s.res \in Numbers /\ s.rem \in Numbers
    BY DEF Going, Proper
<1>2. r \in Digit /\ s.rem.digits = <<r>> /\ s.rem.digits[1] = r /\ Partly(s.res, E, n)
    BY DEF Going, IsDigit
<1>3. b \in Numbers /\ Len(b.digits) > 0 /\ F \in 1..MAX /\ F # 0
    BY BaseIs DEF Single
<1>4. Proper(y)
    <2>1. FALSE \in BOOLEAN
        OBVIOUS
    <2>. QED BY <2>1, <1>1, <1>3, DivisionProper
<1>5. CASE y = s /\ cmp(s.rem, Number(0), "Eq")
    <2>1. r = 0
        <3>1. s.rem.digits = << 0 >>
            BY <1>1, <1>5, EqualsZero
        <3>. QED BY <3>1, <1>2
    <2>2. Going(s, n, 0, E, A, D, F)
        BY <2>1
    <2>3. Going(y, n + 1, 0, E, A, D, F)
        BY <2>2, <1>2, <1>3, <1>4, <1>5, GoingZero
    <2>. QED BY <2>3
<1>6. CASE y = Estimated(s, b, e, wide, FALSE, round)
    <2>1. PICK h, t, k, m : Guess(r, F, h, t, k, m)
        BY <1>2, <1>3, Guesses
    <2>2. /\ h \in Digit /\ k \in Digit /\ wide = h * Base + k
          /\ High(wide, FALSE, round) = h /\ Low(wide, FALSE) = k
        BY <2>1 DEF Guess, High, Low
    <2>3. wide \in Int
        <3>1. h \in Int /\ k \in Int /\ Base \in Int
            BY <2>2, BaseIs
        <3>2. h * Base + k \in Int
            BY <3>1
        <3>. QED BY <3>2, <2>2
    <2>4. (r # 0 => h * Base + k # 0 /\ (h = 0 => k # 0)) /\ (r = 0 => h = 0 /\ k = 0)
        BY <2>1, <1>2, <1>3, GuessIs
    <2>. HIDE DEF wide
    <2>5. y = Divided(s, b, e, wide, h, k)
        BY <2>2, <1>6 DEF Estimated
    <2>6. CASE r = 0
        <3>. DEFINE w == Recorded(s.res, 0, e)
        <3>1. y = [s EXCEPT !.res = w]
            BY <2>4, <2>5, <2>6 DEF Divided
        <3>. HIDE DEF w
        <3>2. y = [res |-> w, rem |-> s.rem]
            BY <3>1, <1>1
        <3>3. Partly(w, E, n) /\ Value(w, n - E) = Value(s.res, n - E)
            BY <1>2, ZeroRecorded DEF w
        <3>4. y.rem = s.rem /\ Partly(y.res, E, n) /\ Value(y.res, n - E) = Value(s.res, n - E)
            <4>1. y.res = w /\ y.rem = s.rem
                BY <3>2, Fields
            <4>. QED BY <4>1, <3>3
        <3>5. Going(s, n, 0, E, A, D, F)
            BY <2>6
        <3>6. Going(y, n + 1, 0, E, A, D, F)
            BY <3>4, <3>5, <1>3, <1>4, GoingZero
        <3>. QED BY <3>6
    <2>7. CASE r # 0
        <3>1. wide # 0
            BY <2>2, <2>4, <2>7
        <3>. DEFINE v == TwoRecorded(s.res, h, k, e)
                    w == Rest(s.rem, b, h, k, e, wide)
        <3>2. y = [res |-> v, rem |-> w]
            <4>1. CASE k = 0
                <5>1. h # 0
                    BY <2>4, <2>7, <4>1
                <5>2. y = [res |-> Recorded(s.res, h, e),
                           rem |-> Plus(s.rem, Times(b, Less(b, <<h>>, e, wide)))]
                    BY <5>1, <2>5, <4>1 DEF Divided
                <5>3. v = Recorded(s.res, h, e) /\ w = Plus(s.rem, Times(b, Less(b, <<h>>, e, wide)))
                    BY <4>1 DEF TwoRecorded, Rest, DigitsTaken
                <5>. QED BY <5>2, <5>3
            <4>2. CASE k # 0
                <5>1. y = [res |-> [Recorded(s.res, h, e) EXCEPT !.digits = Append(@, k)],
                           rem |-> Plus(s.rem, Times(b, Less(b, <<h, k>>, e, wide)))]
                    BY <2>5, <4>2 DEF Divided
                <5>2. /\ v = [Recorded(s.res, h, e) EXCEPT !.digits = Append(@, k)]
                      /\ w = Plus(s.rem, Times(b, Less(b, <<h, k>>, e, wide)))
                    BY <4>2 DEF TwoRecorded, Rest, DigitsTaken
                <5>. QED BY <5>1, <5>2
            <4>. QED BY <4>1, <4>2
        <3>3. y.res = v /\ y.rem = w
            <4>. HIDE DEF v, w
            <4>. QED BY <3>2, Fields
        <3>4. Going(y, n + 1, m, E, A, D, F)
            BY <3>1, <3>3, <2>1, <2>3, <2>7, <1>2, <1>4, GoingDigits
        <3>. QED BY <3>4
    <2>. QED BY <2>6, <2>7
<1>7. (y = s /\ cmp(s.rem, Number(0), "Eq")) \/ y = Estimated(s, b, e, wide, FALSE, round)
    BY <1>2 DEF Division
<1>. QED BY <1>5, <1>6, <1>7

(* After the last time round the loop: a remainder that may be negative is  *)
(* less than the divisor's F.                                               *)
Ended(y, n, E, A, D, F) ==
    /\ Proper(y) /\ ~y.res.neg /\ Bottom(y.res) >= E - n /\ Bottom(y.rem) >= A - n
    /\ Negatable(y.rem)
    /\ Value(y.rem, n - A) \in Int /\ Value(y.rem, n - A) < F /\ -Value(y.rem, n - A) < F
    /\ Value(y.res, n - E) \in Int
    /\ Value(y.res, n - E) * F + Value(y.rem, n - A) = D * Rank(n)

(* a digit's value                                                          *)
LEMMA DigitValue ==
    ASSUME NEW a, NEW r \in Digit, NEW T \in Int, IsDigit(a, r, T), Bottom(a) >= T
    PROVE  Value(a, -T) = r
<1>1. a \in Numbers /\ ~a.neg /\ a.digits = <<r>> /\ (r # 0 => a.exp = T) /\ -T \in Int /\ r \in Int
    BY BaseIs DEF IsDigit
<1>2. a.digits \in Seq(Digit) /\ Len(a.digits) = 1 /\ a.digits[1] = r
    BY <1>1
<1>3. Amount(a) = r
    <2>1. Amount(a) = Read(a.digits, 1)
        BY <1>1, <1>2, Positive
    <2>. QED BY <2>1, <1>2, SingleDigit
<1>4. Value(a, -T) = r * Rank(Bottom(a) + (-T))
    <2>1. Value(a, -T) = Amount(a) * Rank(Bottom(a) + (-T))
        BY <1>1, ValueIs
    <2>. QED BY <2>1, <1>3
<1>5. Bottom(a) \in Int /\ Bottom(a) + (-T) \in Nat
    <2>1. Bottom(a) \in Int
        BY <1>1, NumberIs
    <2>. QED BY <2>1
<1>6. CASE r = 0
    <2>. DEFINE u == Rank(Bottom(a) + (-T))
    <2>1. u \in Nat
        BY <1>5, RankNext
    <2>2. Value(a, -T) = r * u
        BY <1>4
    <2>. HIDE DEF u
    <2>3. 0 * u = 0
        BY <2>1
    <2>. QED BY <2>2, <2>3, <1>6
<1>7. CASE r # 0
    <2>1. Bottom(a) = T
        <3>1. Bottom(a) = a.exp - 1 + 1 /\ a.exp = T
            BY <1>1, <1>2, <1>7 DEF Bottom
        <3>. QED BY <3>1
    <2>2. Bottom(a) + (-T) = 0
        BY <2>1
    <2>. QED BY <2>2, <1>1, <1>4, Ranks0
<1>. QED BY <1>6, <1>7

(* the last time, without a digit: the remainder stays                      *)
LEMMA EndedZero ==
    ASSUME NEW E \in Int, NEW A \in Int, NEW D \in Int, NEW F \in 1..MAX, NEW n \in Nat,
           NEW s, NEW r, r < F, NEW y, Going(s, n, r, E, A, D, F), Proper(y), y.rem = s.rem,
           Partly(y.res, E, n), Value(y.res, n - E) = Value(s.res, n - E)
    PROVE  Ended(y, n, E, A, D, F)
<1>. DEFINE T == A - n
<1>1. /\ r \in Digit /\ IsDigit(s.rem, r, T) /\ Bottom(s.rem) >= T
      /\ Value(s.res, n - E) * F + r = D * Rank(n)
    BY DEF Going
<1>2. T \in Int /\ n - A = -T
    OBVIOUS
<1>3. Value(y.rem, n - A) = r
    <2>. HIDE DEF T
    <2>1. Value(s.rem, -T) = r
        BY <1>1, <1>2, DigitValue
    <2>. QED BY <2>1, <1>2
<1>4. ~y.res.neg /\ Bottom(y.res) >= E - n /\ Value(y.res, n - E) \in Int
    BY ResultIs DEF Partly
<1>5. ~y.rem.neg
    BY <1>1 DEF IsDigit
<1>6. r \in Int /\ -r < F
    BY <1>1, BaseIs
<1>. QED BY <1>1, <1>3, <1>4, <1>5, <1>6 DEF Ended, Negatable

(* the last time, with a digit                                              *)
LEMMA EndedDigit ==
    ASSUME NEW E \in Int, NEW A \in Int, NEW D \in Int, NEW n \in Nat,
           NEW s, NEW r \in Digit, r # 0, NEW b, NEW F, Single(b, F), b.exp = A - E,
           Going(s, n, r, E, A, D, F), NEW e \in Int, e = E - n,
           NEW H \in Digit, H # 0, Leaves(r, F, H), NEW wide \in Int, wide # 0,
           NEW y, Proper(y), y.res = add(s.res, H, e),
           y.rem = Plus(s.rem, Times(b, Less(b, <<H>>, e, wide)))
    PROVE  Ended(y, n, E, A, D, F)
<1>. DEFINE R == A - n
            q == <<H>>
            u == n - E
            Q == Value(s.res, u)
            v == r - F * H
<1>1. /\ IsDigit(s.rem, r, R) /\ Partly(s.res, E, n) /\ Q * F + r = D * Rank(n) /\ s.res \in Numbers
      /\ ~s.res.neg
    BY DEF Going, Partly
<1>2. F \in 1..MAX /\ v \in Int /\ v < F /\ -v < F
    BY DEF Single, Leaves
<1>3. R \in Int /\ e = R - b.exp /\ n - A = -R
    OBVIOUS
<1>4. q \in Seq(Digit) /\ Len(q) = 1 /\ q[Len(q)] # 0 /\ Read(q, Len(q)) = H
    <2>1. q \in Seq(Digit) /\ Len(q) = 1 /\ q[1] = H
        OBVIOUS
    <2>2. Read(q, 1) = q[1]
        <3>. HIDE DEF q
        <3>. QED BY <2>1, SingleDigit
    <2>. QED BY <2>1, <2>2
<1>. HIDE DEF R, q
<1>5. Reduces(y.rem, r, R, F, q)
    <2>1. Len(q) \in 1..2
        BY <1>4
    <2>2. Reduces(Plus(s.rem, Times(b, Less(b, q, e, wide))), r, R, F, q)
        BY <2>1, <1>1, <1>3, <1>4, Reduced
    <2>. QED BY <2>2 DEF q
<1>6. y.rem \in Numbers /\ Trimmed(y.rem) /\ Bottom(y.rem) >= R /\ Bottom(y.rem) \in Int
    <2>1. y.rem \in Numbers /\ Trimmed(y.rem) /\ Bottom(y.rem) >= R - Len(q) + 1
        BY <1>5 DEF Reduces
    <2>2. R - Len(q) + 1 = R
        BY <1>3, <1>4
    <2>. QED BY <2>1, <2>2, NumberIs
<1>7. Value(y.rem, -R) = v
    <2>1. Len(q) - 1 = 0 /\ R - Len(q) + 1 + (-R) = 0 /\ -R \in Int
        BY <1>3, <1>4
    <2>2. Value(y.rem, -R) = (r * Rank(Len(q) - 1) - F * Read(q, Len(q))) * Rank(R - Len(q) + 1 + (-R))
        BY <2>1, <1>5 DEF Reduces
    <2>3. Value(y.rem, -R) = (r * Rank(0) - F * H) * Rank(0)
        BY <2>1, <2>2, <1>4
    <2>4. r * Rank(0) = r /\ Rank(0) = 1
        BY Ranks0, BaseIs
    <2>5. (r - F * H) * 1 = r - F * H
        BY <1>2
    <2>. QED BY <2>3, <2>4, <2>5
<1>8. Negatable(y.rem)
    <2>1. CASE ~y.rem.neg
        BY <2>1 DEF Negatable
    <2>2. CASE y.rem.neg
        <3>1. ASSUME SignAlone(y.rem) PROVE FALSE
            <4>. DEFINE w == y.rem
            <4>1. Last(w.digits) = 0 /\ Len(w.digits) > 0 /\ (Len(w.digits) > 1 => Last(w.digits) # 0)
                BY <3>1, <1>6 DEF SignAlone, Trimmed
            <4>2. w.digits \in Seq(Digit) /\ Len(w.digits) = 1 /\ w.digits[1] = 0
                <5>1. w.digits \in Seq(Digit) /\ Len(w.digits) \in Nat
                    BY <1>6, NumberIs
                <5>2. Len(w.digits) = 1
                    BY <4>1, <5>1
                <5>. QED BY <4>1, <5>1, <5>2 DEF Last
            <4>3. Amount(w) = -Base
                <5>1. Amount(w) = Read(w.digits, 1) - Rank(1)
                    BY <2>2, <4>2, <1>6, Negative
                <5>2. Read(w.digits, 1) = 0
                    BY <4>2, SingleDigit
                <5>3. Rank(1) = Base
                    <6>1. 0 \in Digit
                        BY BaseIs
                    <6>. QED BY <6>1, ReadFew
                <5>. QED BY <5>1, <5>2, <5>3, BaseIs
            <4>4. Value(w, -R) = Amount(w) * Rank(Bottom(w) + (-R))
                BY <1>3, <1>6, ValueIs
            <4>5. Bottom(w) + (-R) \in Nat
                BY <1>3, <1>6
            <4>. DEFINE M == Rank(Bottom(w) + (-R))
            <4>6. M \in Nat /\ M > 0
                BY <4>5, RankNext
            <4>7. v = (-Base) * M
                BY <4>3, <4>4, <1>7
            <4>. HIDE DEF M, v
            <4>8. (-Base) * M <= -Base
                BY <4>6, BaseIs
            <4>. QED BY <4>7, <4>8, <1>2, BaseIs
        <3>2. Len(y.rem.digits) > 0
            BY <1>6, TrimmedIs
        <3>. QED BY <3>1, <3>2, <1>6, NotSignAlone
    <2>. QED BY <2>1, <2>2
<1>9. u \in Int /\ Q \in Int /\ Q >= 0 /\ Bottom(s.res) \in Int /\ Bottom(s.res) >= E - n /\ Bottom(s.res) + u >= 0
    <2>1. u \in Int /\ Q \in Int /\ Bottom(s.res) \in Int /\ Bottom(s.res) >= E - n /\ Bottom(s.res) + u >= 0
        BY <1>1, ResultIs
    <2>. HIDE DEF u
    <2>2. Q >= 0
        BY <2>1, <1>1, ValueSign
    <2>. QED BY <2>1, <2>2
<1>10. e + u = 0
    OBVIOUS
<1>. HIDE DEF u
<1>11. /\ y.res \in Numbers /\ Bottom(y.res) >= Least(Bottom(s.res), e)
       /\ Value(y.res, u) = Value(s.res, u) + H * Rank(e + u)
    <2>1. ~SignAlone(s.res) /\ e + u >= 0
        BY <1>1, <1>10 DEF SignAlone
    <2>. QED BY <2>1, <1>1, <1>9, AddIs
<1>12. Value(y.res, u) = Q + H
    BY <1>10, <1>11, Ranks0, BaseIs
<1>13. Bottom(y.res) \in Int /\ Bottom(y.res) >= E - n /\ Bottom(y.res) + u >= 0
    <2>1. Bottom(y.res) \in Int
        BY <1>11, NumberIs
    <2>2. Least(Bottom(s.res), e) >= E - n /\ Least(Bottom(s.res), e) \in Int
        BY <1>9 DEF Least
    <2>. QED BY <2>1, <2>2, <1>11 DEF u
<1>. HIDE DEF Q
<1>14. ~y.res.neg
    <2>1. Q + H >= 0
        BY <1>9, BaseIs
    <2>2. y.res.neg => Value(y.res, u) < 0
        BY <1>9, <1>11, <1>13, ValueSign
    <2>3. Q + H \in Int
        BY <1>9, BaseIs
    <2>. QED BY <2>1, <2>2, <2>3, <1>12
<1>15. (Q + H) * F + v = D * Rank(n)
    <2>. DEFINE M == Rank(n)
    <2>1. M \in Int
        BY RankNext
    <2>2. Q * F + r = D * M
        BY <1>1
    <2>. HIDE DEF M
    <2>3. F \in Int /\ r \in Int /\ H \in Int /\ 0 \in Int
        BY <1>2, BaseIs
    <2>4. (Q + H) * F + (r - F * H) = D * M
        BY <2>1, <2>2, <2>3, <1>9, Accounts
    <2>. QED BY <2>4 DEF M
<1>16. Q + H \in Int
    BY <1>9, BaseIs
<1>. HIDE DEF v
<1>17. Value(y.rem, n - A) = v /\ Value(y.res, n - E) = Q + H
    BY <1>3, <1>7, <1>12 DEF u
<1>18. Bottom(y.rem) >= A - n
    BY <1>6 DEF R
<1>. QED BY <1>2, <1>8, <1>13, <1>14, <1>15, <1>16, <1>17, <1>18 DEF Ended

(* the last time round the loop                                             *)
LEMMA GoingLast ==
    ASSUME NEW E \in Int, NEW A \in Int, NEW D \in Int, NEW n \in Nat, NEW s, NEW r,
           NEW b, NEW F, Single(b, F), F = Magnitude(b), b.exp = A - E, Going(s, n, r, E, A, D, F),
           NEW e \in Int, e = E - n, NEW first \in BOOLEAN, NEW round \in BOOLEAN,
           NEW y, y = Division(s, b, e, first, TRUE, round)
    PROVE  Ended(y, n, E, A, D, F)
<1>. DEFINE wide == (r * Base) \div F
            H == High(wide, TRUE, round)
<1>1. Proper(s) /\ s = [res |-> s.res, rem |-> s.rem] /\ s.res \in Numbers /\ s.rem \in Numbers
    BY DEF Going, Proper
<1>2. r \in Digit /\ s.rem.digits = <<r>> /\ s.rem.digits[1] = r /\ Partly(s.res, E, n)
    BY DEF Going, IsDigit
<1>3. b \in Numbers /\ Len(b.digits) > 0 /\ F \in 1..MAX /\ F # 0 /\ 0 < F
    BY BaseIs DEF Single
<1>4. Proper(y)
    <2>1. TRUE \in BOOLEAN
        OBVIOUS
    <2>. QED BY <2>1, <1>1, <1>3, DivisionProper
<1>5. CASE y = s /\ cmp(s.rem, Number(0), "Eq")
    <2>1. r = 0
        <3>1. s.rem.digits = << 0 >>
            BY <1>1, <1>5, EqualsZero
        <3>. QED BY <3>1, <1>2
    <2>2. r < F
        BY <2>1, <1>3
    <2>3. Ended(y, n, E, A, D, F)
        BY <2>2, <1>2, <1>3, <1>4, <1>5, EndedZero
    <2>. QED BY <2>3
<1>6. CASE y = Estimated(s, b, e, wide, TRUE, round)
    <2>1. PICK h, t, k, m : Guess(r, F, h, t, k, m)
        BY <1>2, <1>3, Guesses
    <2>2. H \in Digit /\ Leaves(r, F, H) /\ (r = 0 => H = 0)
        <3>. HIDE DEF H
        <3>1. LET G == High((r * Base) \div F, TRUE, round)
              IN G \in Digit /\ Leaves(r, F, G) /\ (r = 0 => G = 0)
            BY <2>1, <1>2, <1>3, LastGuess
        <3>. QED BY <3>1 DEF H
    <2>3. wide \in Int /\ wide = h * Base + k
        <3>1. h \in Int /\ k \in Int /\ Base \in Int /\ wide = h * Base + k
            BY <2>1, BaseIs DEF Guess
        <3>2. h * Base + k \in Int
            BY <3>1
        <3>. QED BY <3>1, <3>2
    <2>4. r # 0 => h * Base + k # 0
        BY <2>1, <1>2, <1>3, GuessIs
    <2>5. y = Divided(s, b, e, wide, H, 0)
        BY <1>6 DEF Estimated, Low
    <2>. HIDE DEF wide, H
    <2>6. CASE H = 0
        <3>. DEFINE w == Recorded(s.res, 0, e)
        <3>1. y = [s EXCEPT !.res = w]
            BY <2>5, <2>6 DEF Divided
        <3>. HIDE DEF w
        <3>2. y = [res |-> w, rem |-> s.rem]
            BY <3>1, <1>1
        <3>3. Partly(w, E, n) /\ Value(w, n - E) = Value(s.res, n - E)
            BY <1>2, ZeroRecorded DEF w
        <3>4. y.rem = s.rem /\ Partly(y.res, E, n) /\ Value(y.res, n - E) = Value(s.res, n - E)
            <4>1. y.res = w /\ y.rem = s.rem
                BY <3>2, Fields
            <4>. QED BY <4>1, <3>3
        <3>5. r < F
            <4>1. r - F * 0 < F
                BY <2>2, <2>6 DEF Leaves
            <4>2. r - F * 0 = r
                BY <1>2, <1>3, BaseIs
            <4>. QED BY <4>1, <4>2
        <3>6. Ended(y, n, E, A, D, F)
            BY <3>4, <3>5, <1>3, <1>4, EndedZero
        <3>. QED BY <3>6
    <2>7. CASE H # 0
        <3>1. r # 0 /\ wide # 0
            BY <2>2, <2>3, <2>4, <2>7
        <3>. DEFINE w == Plus(s.rem, Times(b, Less(b, <<H>>, e, wide)))
                    v == add(s.res, H, e)
        <3>2. y = [res |-> v, rem |-> w]
            BY <2>5, <2>7 DEF Divided, Recorded
        <3>3. y.res = v /\ y.rem = w
            <4>. HIDE DEF v, w
            <4>. QED BY <3>2, Fields
        <3>4. Ended(y, n, E, A, D, F)
            BY <3>1, <3>3, <2>2, <2>3, <2>7, <1>2, <1>4, EndedDigit
        <3>. QED BY <3>4
    <2>. QED BY <2>6, <2>7
<1>7. (y = s /\ cmp(s.rem, Number(0), "Eq")) \/ y = Estimated(s, b, e, wide, TRUE, round)
    BY <1>2 DEF Division
<1>. QED BY <1>5, <1>6, <1>7

(* where the loop begins: no digits yet, and the dividend without its sign  *)
LEMMA GoingFirst ==
    ASSUME NEW a, NEW D, Single(a, D), NEW b \in Numbers, NEW F \in Int
    PROVE  Going(Beginning(a, b), 0, D, a.exp - b.exp, a.exp, D, F)
<1>. DEFINE E == a.exp - b.exp
            s == Beginning(a, b)
            z == [neg |-> FALSE, exp |-> E, digits |-> << 0 >>]
            m == IF a.neg THEN negate(a) ELSE a
<1>1. /\ a \in Numbers /\ Len(a.digits) = 1 /\ a.digits # << 0 >> /\ D \in 1..MAX
      /\ Amount(a) = (IF a.neg THEN -D ELSE D)
    BY DEF Single
<1>2. ~SignAlone(a) /\ Bottom(a) = a.exp /\ a.exp \in Int /\ b.exp \in Int /\ E \in Int
    <2>1. ~SignAlone(a) /\ Bottom(a) = a.exp /\ a.exp \in Int
        BY SingleNotAlone
    <2>2. b.exp \in Int
        BY NumberIs
    <2>. QED BY <2>1, <2>2
<1>3. s = [res |-> z, rem |-> m]
    BY DEF Beginning
<1>4. Proper(s)
    BY <1>1, BeginningProper
<1>. HIDE DEF E
<1>5. z \in Numbers /\ ~z.neg /\ z.exp = E /\ z.digits = << 0 >> /\ Len(z.digits) = 1
    <2>1. 0 \in Digit
        BY BaseIs
    <2>. QED BY <2>1, <1>2 DEF Numbers
<1>6. m \in Numbers /\ ~m.neg /\ Len(m.digits) = 1 /\ m.exp = a.exp /\ Bottom(m) = a.exp /\ Amount(m) = D
    <2>1. CASE ~a.neg
        BY <2>1, <1>1, <1>2
    <2>2. CASE a.neg
        <3>1. Negatable(a)
            <4>1. a \in Numbers /\ Len(a.digits) > 0 /\ ~SignAlone(a)
                BY <1>1, <1>2
            <4>. QED BY <4>1, NotSignAlone
        <3>2. Opposite(negate(a), a)
            BY <1>1, NegateIs
        <3>3. Amount(negate(a)) = D
            <4>1. Amount(negate(a)) = -Amount(a)
                BY <3>1, <1>1, NegateAmount
            <4>. QED BY <4>1, <2>2, <1>1
        <3>4. ~negate(a).neg
            <4>1. Lowest(a.digits) > 0
                BY <3>1, <2>2 DEF Negatable
            <4>. QED BY <4>1, <3>2, <2>2 DEF Opposite
        <3>. QED BY <3>2, <3>3, <3>4, <2>2, <1>1, <1>2 DEF Opposite
    <2>. QED BY <2>1, <2>2
<1>. HIDE DEF z, m, s
<1>7. m.digits = <<D>>
    <2>1. m.digits \in Seq(Digit)
        BY <1>6, NumberIs
    <2>2. m.digits = <<m.digits[1]>> /\ Read(m.digits, 1) = m.digits[1]
        BY <2>1, <1>6, SingleDigit
    <2>3. Amount(m) = Read(m.digits, 1)
        BY <1>6, Positive
    <2>. QED BY <2>2, <2>3, <1>6
<1>8. s.res = z /\ s.rem = m
    BY <1>3, Fields
<1>9. Partly(s.res, E, 0)
    <2>1. Len(z.digits) <= 0 + 1 /\ Len(z.digits) > 0
        BY <1>5
    <2>. QED BY <2>1, <1>5, <1>8 DEF Partly
<1>10. IsDigit(s.rem, D, a.exp - 0) /\ Bottom(s.rem) >= a.exp - 0 /\ D \in Digit
    <2>1. a.exp - 0 = a.exp
        BY <1>2
    <2>2. D \in Digit
        BY <1>1, BaseIs
    <2>. QED BY <2>1, <2>2, <1>2, <1>6, <1>7, <1>8 DEF IsDigit
<1>11. Value(s.res, 0 - E) = 0
    <2>1. Len(s.res.digits) = 0 + 1
        BY <1>5, <1>8
    <2>2. Value(s.res, 0 - E) = Amount(s.res)
        <3>. DEFINE v == s.res
        <3>1. E \in Int /\ 0 \in Nat
            BY <1>2
        <3>2. Partly(v, E, 0) /\ Len(v.digits) = 0 + 1
            BY <2>1, <1>9
        <3>. HIDE DEF v
        <3>3. Value(v, 0 - E) = Amount(v)
            BY <3>1, <3>2, ResultIs
        <3>. QED BY <3>3 DEF v
    <2>3. Amount(z) = 0
        <3>0. z.digits[1] = 0
            BY <1>5
        <3>1. z.digits \in Seq(Digit) /\ z.digits[1] = 0
            BY <3>0, <1>5, NumberIs
        <3>2. Amount(z) = Read(z.digits, 1)
            BY <1>5, Positive
        <3>. QED BY <3>1, <3>2, <1>5, SingleDigit
    <2>. QED BY <2>2, <2>3, <1>8
<1>12. Value(s.res, 0 - E) * F + D = D * Rank(0)
    <2>1. D \in Int /\ 0 * F = 0
        BY <1>1, BaseIs
    <2>2. D * Rank(0) = D
        BY <2>1, Ranks0
    <2>3. 0 * F + D = D
        BY <2>1
    <2>. QED BY <2>2, <2>3, <1>11
<1>13. s.res.digits = << 0 >> /\ Len(s.res.digits) = 0 + 1
    BY <1>5, <1>8
<1>14. Going(s, 0, D, E, a.exp, D, F)
    BY <1>4, <1>9, <1>10, <1>12, <1>13 DEF Going
<1>. QED BY <1>14 DEF s, E

(* all times round the loop but the last                                    *)
LEMMA LoopsGoing ==
    ASSUME NEW a, NEW D, Single(a, D), NEW b, NEW F, Single(b, F), F = Magnitude(b),
           NEW places \in Nat, NEW round \in BOOLEAN, NEW h, LoopsDone(h, a, b, places, round),
           NEW n \in Nat, n <= places
    PROVE  \E v : Going(h[n], n, v, a.exp - b.exp, a.exp, D, F)
<1>. DEFINE E == a.exp - b.exp
            A == a.exp
            N == {i \in Nat : i <= places => \E v : Going(h[i], i, v, E, A, D, F)}
<1>1. /\ a \in Numbers /\ b \in Numbers /\ a.exp \in Int /\ b.exp \in Int /\ E \in Int /\ A \in Int
      /\ b.exp = A - E /\ D \in Int /\ F \in Int
    <2>1. a \in Numbers /\ b \in Numbers /\ D \in Int /\ F \in Int
        BY BaseIs DEF Single
    <2>2. a.exp \in Int /\ b.exp \in Int
        BY <2>1, NumberIs
    <2>. QED BY <2>1, <2>2
<1>2. 0 \in N
    <2>1. Going(h[0], 0, D, E, A, D, F)
        BY <1>1, GoingFirst DEF LoopsDone
    <2>. QED BY <2>1
<1>3. E = a.exp - b.exp
    OBVIOUS
<1>. HIDE DEF E, A
<1>4. ASSUME NEW i \in N PROVE i + 1 \in N
    <2>1. SUFFICES ASSUME i + 1 <= places PROVE \E v : Going(h[i + 1], i + 1, v, E, A, D, F)
        OBVIOUS
    <2>2. i \in Nat /\ i <= places /\ i + 1 \in 1..(places + 1) /\ (i + 1) - 1 = i /\ i + 1 # places + 1
        BY <2>1
    <2>3. PICK r : Going(h[i], i, r, E, A, D, F)
        BY <2>2
    <2>4. h[i + 1] = Division(h[i], b, a.exp - b.exp - (i + 1) + 1, i + 1 = 1, i + 1 = places + 1, round)
        <3>1. h[i + 1] = Looped(h[(i + 1) - 1], a, b, i + 1, places, round)
            BY <2>2 DEF LoopsDone
        <3>. QED BY <3>1, <2>2 DEF Looped
    <2>5. (i + 1 = places + 1) = FALSE
        BY <2>2
    <2>. DEFINE first == (i + 1 = 1)
                e == a.exp - b.exp - (i + 1) + 1
                s == h[i]
                y == h[i + 1]
    <2>6. first \in BOOLEAN
        OBVIOUS
    <2>7. e \in Int /\ e = E - i
        BY <2>2, <1>1, <1>3
    <2>8. y = Division(s, b, e, first, FALSE, round)
        BY <2>4, <2>5
    <2>9. Going(s, i, r, E, A, D, F)
        BY <2>3
    <2>. HIDE DEF first, e, s, y
    <2>10. \E v : Going(y, i + 1, v, E, A, D, F)
        BY <2>2, <2>6, <2>7, <2>8, <2>9, <1>1, GoingNext
    <2>. QED BY <2>10 DEF y
<1>5. N \in SUBSET Nat
    OBVIOUS
<1>. HIDE DEF N
<1>6. N = Nat
    BY <1>2, <1>4, <1>5, AllNaturals
<1>. QED BY <1>6 DEF N, E, A

(* the whole loop                                                           *)
LEMMA LoopsEnded ==
    ASSUME NEW a, NEW D, Single(a, D), NEW b, NEW F, Single(b, F), F = Magnitude(b),
           NEW places \in Nat, NEW round \in BOOLEAN, NEW h, LoopsDone(h, a, b, places, round)
    PROVE  Ended(h[places + 1], places, a.exp - b.exp, a.exp, D, F)
<1>. DEFINE E == a.exp - b.exp
            A == a.exp
            e == a.exp - b.exp - (places + 1) + 1
            first == (places + 1 = 1)
            s == h[places]
            y == h[places + 1]
<1>1. /\ a \in Numbers /\ b \in Numbers /\ a.exp \in Int /\ b.exp \in Int /\ E \in Int /\ A \in Int
      /\ b.exp = A - E /\ D \in Int /\ e \in Int /\ e = E - places
    <2>1. a \in Numbers /\ b \in Numbers /\ D \in Int
        BY BaseIs DEF Single
    <2>2. a.exp \in Int /\ b.exp \in Int
        BY <2>1, NumberIs
    <2>. QED BY <2>1, <2>2
<1>2. PICK r : Going(s, places, r, E, A, D, F)
    BY LoopsGoing
<1>3. y = Division(s, b, e, first, TRUE, round)
    <2>1. places + 1 \in 1..(places + 1) /\ (places + 1) - 1 = places
        OBVIOUS
    <2>2. h[places + 1] = Looped(h[(places + 1) - 1], a, b, places + 1, places, round)
        BY <2>1 DEF LoopsDone
    <2>. QED BY <2>1, <2>2 DEF Looped
<1>4. first \in BOOLEAN
    OBVIOUS
<1>. HIDE DEF E, A, e, first, s, y
<1>5. Ended(y, places, E, A, D, F)
    BY <1>1, <1>2, <1>3, <1>4, GoingLast
<1>. QED BY <1>5 DEF y, E, A

(* the accounts with the signs                                              *)
LEMMA SignedAccounts ==
    ASSUME NEW V \in Int, NEW W \in Int, NEW F \in Nat, NEW D \in Int, NEW M \in Int,
           V * F + W = D * M, W < F, -W < F
    PROVE  /\ V * F + W * 1 = D * M /\ W * 1 < F /\ -(W * 1) < F
           /\ V * (-F) + W * (-1) = (-D) * M /\ W * (-1) < F /\ -(W * (-1)) < F
           /\ (-V) * F + (-W) * 1 = (-D) * M /\ (-W) * 1 < F /\ -((-W) * 1) < F
           /\ (-V) * (-F) + (-W) * (-1) = D * M /\ (-W) * (-1) < F /\ -((-W) * (-1)) < F
<1>. DEFINE g == V * F
            d == D * M
<1>1. g \in Int /\ d \in Int /\ g + W = d
    OBVIOUS
<1>2. V * (-F) = -g /\ (-V) * F = -g /\ (-V) * (-F) = g /\ (-D) * M = -d
    OBVIOUS
<1>. HIDE DEF g, d
<1>3. W * 1 = W /\ W * (-1) = -W /\ (-W) * 1 = -W /\ (-W) * (-1) = W
    OBVIOUS
<1>4. V * F = g /\ D * M = d
    BY DEF g, d
<1>5. -g + (-W) = -d /\ -(-W) = W
    BY <1>1
<1>. QED BY <1>1, <1>2, <1>3, <1>4, <1>5

(* a number of one digit is the dividend's in units places ranks below it     *)
LEMMA SingleValue ==
    ASSUME NEW a, NEW D, Single(a, D), NEW n \in Nat
    PROVE  Value(a, n - a.exp) = (IF a.neg THEN -D ELSE D) * Rank(n)
<1>1. a \in Numbers /\ Bottom(a) = a.exp /\ a.exp \in Int /\ Amount(a) = (IF a.neg THEN -D ELSE D)
    BY SingleNotAlone DEF Single
<1>2. n - a.exp \in Int /\ a.exp + (n - a.exp) = n
    BY <1>1
<1>3. Value(a, n - a.exp) = Amount(a) * Rank(Bottom(a) + (n - a.exp))
    BY <1>1, <1>2, ValueIs
<1>. QED BY <1>1, <1>2, <1>3

(* what div returns after the last time round the loop                      *)
LEMMA ReturnedQuotes ==
    ASSUME NEW D, Single(x, D), NEW b, NEW F, Single(b, F), NEW places \in Nat,
           NEW s, Ended(s, places, x.exp - b.exp, x.exp, D, F)
    PROVE  Quotes(b, places, Returned(s, x, b))
<1>. DEFINE E == x.exp - b.exp
            u == places - E
            w == places - x.exp
            V == Value(s.res, u)
            W == Value(s.rem, w)
            M == Rank(places)
            d == Returned(s, x, b)
            of == Value(b, -b.exp)
<1>1. /\ x \in Numbers /\ b \in Numbers /\ x.exp \in Int /\ b.exp \in Int /\ x.neg \in BOOLEAN /\ b.neg \in BOOLEAN
      /\ D \in Int /\ F \in Nat
    <2>1. x \in Numbers /\ b \in Numbers /\ D \in Int /\ F \in Nat
        BY BaseIs DEF Single
    <2>. QED BY <2>1, NumberIs
<1>2. /\ s.res \in Numbers /\ s.rem \in Numbers /\ Len(s.res.digits) > 0 /\ ~s.res.neg
      /\ Bottom(s.res) >= E - places /\ Bottom(s.rem) >= x.exp - places /\ Negatable(s.rem)
      /\ W \in Int /\ W < F /\ -W < F /\ V \in Int /\ V * F + W = D * M
    BY DEF Ended, Proper
<1>3. /\ E \in Int /\ u \in Int /\ w \in Int /\ places - x.exp + b.exp = u
      /\ Bottom(s.res) + u >= 0 /\ Bottom(s.rem) + w >= 0
    <2>1. Bottom(s.res) \in Int /\ Bottom(s.rem) \in Int
        BY <1>2, NumberIs
    <2>2. E \in Int /\ u \in Int /\ w \in Int /\ places - x.exp + b.exp = u
        BY <1>1
    <2>3. E \in Int /\ u = places - E /\ Bottom(s.res) >= E - places
        BY <1>2, <2>2
    <2>4. w = places - x.exp /\ Bottom(s.rem) >= x.exp - places /\ x.exp \in Int
        BY <1>1, <1>2
    <2>. HIDE DEF E, u, w
    <2>5. Bottom(s.res) + u >= 0
        BY <2>1, <2>3
    <2>6. Bottom(s.rem) + w >= 0
        BY <2>1, <2>4
    <2>. QED BY <2>2, <2>5, <2>6
<1>4. M \in Int
    BY RankNext
<1>5. of = IF b.neg THEN -F ELSE F
    <2>1. Value(b, 0 - b.exp) = (IF b.neg THEN -F ELSE F) * Rank(0)
        BY SingleValue
    <2>2. 0 - b.exp = -b.exp
        BY <1>1
    <2>3. (IF b.neg THEN -F ELSE F) * 1 = IF b.neg THEN -F ELSE F
        BY <1>1
    <2>. QED BY <2>1, <2>2, <2>3, Ranks0
<1>6. Value(x, w) = (IF x.neg THEN -D ELSE D) * M
    BY SingleValue
<1>7. Absolute(of) = F
    BY <1>1, <1>5 DEF Absolute
<1>8. Value(trim(s.res), u) = V
    <2>. HIDE DEF u
    <2>. QED BY <1>2, <1>3, TrimValue
<1>9. Value(trim(negate(s.res)), u) = -V
    <2>1. Negatable(s.res)
        BY <1>2 DEF Negatable
    <2>2. Opposite(negate(s.res), s.res)
        BY <1>2, NegateIs
    <2>. DEFINE y == negate(s.res)
    <2>3. y \in Numbers /\ Len(y.digits) > 0 /\ Bottom(y) + u >= 0
        BY <2>2, <1>2, <1>3 DEF Opposite
    <2>. HIDE DEF u
    <2>4. Value(y, u) = -V
        BY <2>1, <1>2, <1>3, NegateValue
    <2>. HIDE DEF y
    <2>5. Value(trim(y), u) = Value(y, u)
        BY <2>3, <1>3, TrimValue
    <2>. QED BY <2>4, <2>5 DEF y
<1>10. Value(negate(s.rem), w) = -W
    <2>. HIDE DEF w
    <2>. QED BY <1>2, <1>3, NegateValue
<1>11. /\ x.neg = b.neg => d.quotient = trim(s.res) /\ d.remainder = s.rem
       /\ x.neg # b.neg => d.quotient = trim(negate(s.res)) /\ d.remainder = negate(s.rem)
    BY DEF Returned
<1>12. places - x.exp + b.exp = u
    BY <1>3
<1>. HIDE DEF E, u, w, V, W, M, d, of
<1>13. /\ V * F + W * 1 = D * M /\ W * 1 < F /\ -(W * 1) < F
       /\ V * (-F) + W * (-1) = (-D) * M /\ W * (-1) < F /\ -(W * (-1)) < F
       /\ (-V) * F + (-W) * 1 = (-D) * M /\ (-W) * 1 < F /\ -((-W) * 1) < F
       /\ (-V) * (-F) + (-W) * (-1) = D * M /\ (-W) * (-1) < F /\ -((-W) * (-1)) < F
    BY <1>1, <1>2, <1>4, SignedAccounts
<1>. DEFINE rem == Value(d.remainder, w) * (IF b.neg THEN -1 ELSE 1)
            quo == Value(d.quotient, u)
<1>14. quo * of + rem = Value(x, w) /\ rem < Absolute(of) /\ -rem < Absolute(of)
    <2>1. CASE ~x.neg /\ ~b.neg
        <3>1. d.quotient = trim(s.res) /\ d.remainder = s.rem
            BY <2>1, <1>1, <1>11
        <3>2. quo = V /\ rem = W * 1 /\ of = F /\ Value(x, w) = D * M
            BY <3>1, <2>1, <1>5, <1>6, <1>8 DEF W
        <3>. HIDE DEF quo, rem
        <3>. QED BY <3>2, <1>7, <1>13
    <2>2. CASE x.neg /\ b.neg
        <3>1. d.quotient = trim(s.res) /\ d.remainder = s.rem
            BY <2>2, <1>1, <1>11
        <3>2. quo = V /\ rem = W * (-1) /\ of = -F /\ Value(x, w) = (-D) * M
            BY <3>1, <2>2, <1>5, <1>6, <1>8 DEF W
        <3>. HIDE DEF quo, rem
        <3>. QED BY <3>2, <1>7, <1>13
    <2>3. CASE x.neg /\ ~b.neg
        <3>1. d.quotient = trim(negate(s.res)) /\ d.remainder = negate(s.rem)
            BY <2>3, <1>1, <1>11
        <3>2. quo = -V /\ rem = (-W) * 1 /\ of = F /\ Value(x, w) = (-D) * M
            BY <3>1, <2>3, <1>5, <1>6, <1>9, <1>10
        <3>. HIDE DEF quo, rem
        <3>. QED BY <3>2, <1>7, <1>13
    <2>4. CASE ~x.neg /\ b.neg
        <3>1. d.quotient = trim(negate(s.res)) /\ d.remainder = negate(s.rem)
            BY <2>4, <1>1, <1>11
        <3>2. quo = -V /\ rem = (-W) * (-1) /\ of = -F /\ Value(x, w) = D * M
            BY <3>1, <2>4, <1>5, <1>6, <1>9, <1>10
        <3>. HIDE DEF quo, rem
        <3>. QED BY <3>2, <1>7, <1>13
    <2>. QED BY <2>1, <2>2, <2>3, <2>4
<1>15. Value(d.quotient, places - x.exp + b.exp) = quo
    BY <1>12
<1>. QED BY <1>14, <1>15 DEF Quotes, d, w, of

(* one digit is divided by one exactly, to every precision, rounded or not, *)
(* whatever the signs and the ranks (numeric.cpp, div)                      *)
LEMMA QuotientValue ==
    ASSUME x \in Numbers, Len(x.digits) = 1, x.digits # << 0 >>, NEW b \in Numbers, Len(b.digits) = 1,
           Divides(b), NEW places \in Nat, NEW round \in BOOLEAN
    PROVE  Quotes(b, places, div(x, b, places, round))
<1>. DEFINE F == Magnitude(b)
<1>1. F # 0
    BY DEF Divides
<1>2. Single(b, F)
    BY <1>1, MagnitudeIs
<1>3. PICK D : Single(x, D)
    BY SingleIs
<1>4. ~cmp(x, Number(0), "Eq")
    BY EqualsZero
<1>5. PICK h : LoopsDone(h, x, b, places, round) /\ div(x, b, places, round) = Returned(h[places + 1], x, b)
    BY <1>1, <1>4, DivUnrolled
<1>6. Ended(h[places + 1], places, x.exp - b.exp, x.exp, D, F)
    BY <1>2, <1>3, <1>5, LoopsEnded
<1>7. Quotes(b, places, Returned(h[places + 1], x, b))
    BY <1>2, <1>3, <1>6, ReturnedQuotes
<1>. QED BY <1>5, <1>7

(***************************************************************************)
(* The client                                                              *)
(***************************************************************************)

(* Inductive: the accumulator is as trim leaves it, and its digits do not   *)
(* go farther behind the point than its values are read.                    *)
Kept == TypeOK /\ Fits(x)

(* a number that fits is read with all its digits                           *)
LEMMA FitsIs ==
    ASSUME NEW a, Trimmed(a), Fits(a)
    PROVE  /\ a \in Numbers /\ Len(a.digits) > 0 /\ Bottom(a) \in Int /\ Bottom(a) + Scale >= 0
           /\ Scale \in Int
<1>1. a \in Numbers /\ Len(a.digits) > 0
    BY TrimmedIs
<1>2. a.exp \in Int /\ Len(a.digits) \in Int /\ Bottom(a) \in Int
    BY <1>1, NumberIs
<1>3. Scale \in Int /\ Len(a.digits) - 1 - a.exp <= Scale /\ Bottom(a) = a.exp - Len(a.digits) + 1
    BY DigitalAssumption DEF Fits, Bottom
<1>. QED BY <1>1, <1>2, <1>3

(* the operands are numbers, all digits of which are read                   *)
LEMMA OperandIs ==
    ASSUME NEW b \in Operands
    PROVE  /\ Trimmed(b) /\ b \in Numbers /\ Len(b.digits) > 0 /\ Bottom(b) \in Int
           /\ Bottom(b) + Scale >= 0
BY OperandsAssumption, FitsIs

(* every operator leaves a number trimmed (numeric.cpp, trim)               *)
LEMMA KeptNext ==
    ASSUME Kept, [Next]_x
    PROVE  Kept'
<1>1. Trimmed(x) /\ x \in Numbers /\ Len(x.digits) > 0
    BY TrimmedIs DEF Kept, TypeOK
<1>. SUFFICES ASSUME Next PROVE Kept'
    <2>1. CASE x' = x
        BY <2>1 DEF Kept, TypeOK, Trimmed, Fits, Last
    <2>. QED BY <2>1
<1>2. ASSUME NEW a, Trimmed(a), Become(a) PROVE Kept'
    BY <1>2 DEF Become, Kept, TypeOK, Trimmed, Fits, Last
<1>3. ASSUME NEW k \in Digit, NEW e \in Ranks, AddDigit(k, e) PROVE Kept'
    <2>1. e \in Int
        BY DigitalAssumption DEF Ranks
    <2>2. Trimmed(add(x, k, e))
        BY <2>1, <1>1, AddIs
    <2>. QED BY <2>2, <1>2, <1>3 DEF AddDigit
<1>4. ASSUME NEW k \in Digit, NEW e \in Ranks, SubDigit(k, e) PROVE Kept'
    <2>1. e \in Int
        BY DigitalAssumption DEF Ranks
    <2>2. Trimmed(sub(x, k, e))
        BY <2>1, <1>1, SubIs
    <2>. QED BY <2>2, <1>2, <1>4 DEF SubDigit
<1>5. ASSUME NEW b \in Operands, AddNumber(b) PROVE Kept'
    <2>1. Trimmed(Plus(x, b))
        BY <1>1, OperandIs, PlusNumber
    <2>. QED BY <2>1, <1>2, <1>5 DEF AddNumber
<1>6. ASSUME NEW b \in Operands, SubNumber(b) PROVE Kept'
    <2>1. Trimmed(Minus(x, b))
        BY <1>1, OperandIs, MinusNumber
    <2>. QED BY <2>1, <1>2, <1>6 DEF SubNumber
<1>7. ASSUME NEW b \in Operands, MulNumber(b) PROVE Kept'
    <2>1. Multiple(Times(x, b), x, b)
        BY <1>1, OperandIs, TimesIs
    <2>. QED BY <2>1, <1>2, <1>7 DEF MulNumber, Multiple
<1>8. ASSUME NEW b \in Operands, DivNumber(b) PROVE Kept'
    <2>1. Divides(b) /\ Become(div(x, b, Precision, TRUE).quotient)
        BY <1>8 DEF DivNumber
    <2>2. Trimmed(div(x, b, Precision, TRUE).quotient)
        <3>1. Precision \in Nat /\ TRUE \in BOOLEAN
            BY DigitalAssumption
        <3>. QED BY <3>1, <2>1, <1>1, OperandIs, QuotientTrimmed
    <2>. QED BY <2>1, <2>2, <1>2
<1>9. ASSUME Negate PROVE Kept'
    <2>1. Trimmed(negate(x))
        BY <1>1, NegateTrimmed
    <2>. QED BY <2>1, <1>2, <1>9 DEF Negate
<1>10. ASSUME NEW s \in Shifts, Shift(s) PROVE Kept'
    <2>1. s \in Int
        BY OperandsAssumption
    <2>2. Trimmed(shift(x, s))
        BY <2>1, <1>1, ShiftNumber
    <2>. QED BY <2>2, <1>2, <1>10 DEF Shift
<1>. QED BY <1>3, <1>4, <1>5, <1>6, <1>7, <1>8, <1>9, <1>10 DEF Next

(* zero is trimmed                                                          *)
LEMMA KeptFirst ==
    ASSUME Init
    PROVE  Kept
<1>1. Trimmed(x)
    BY NumberZero DEF Init
<1>2. Fits(x)
    BY DigitalAssumption DEF Init, Zero, Fits
<1>. QED BY <1>1, <1>2 DEF Kept, TypeOK

(* the digits of the accumulator are kept in the code's form, and read with *)
(* all of them                                                              *)
THEOREM AccumulatorKept == Spec => []Kept
<1>1. Init => Kept
    BY KeptFirst
<1>2. Kept /\ [Next]_x => Kept'
    BY KeptNext
<1>. QED BY <1>1, <1>2, PTL DEF Spec

(* every operator of Digital leaves a number trimmed, whatever the base,    *)
(* the operands and the precision (numeric.cpp, trim), on which operator==  *)
(* relies                                                                   *)
THEOREM TypeCorrect == Spec => []TypeOK
<1>1. Kept => TypeOK
    BY DEF Kept
<1>. QED BY <1>1, AccumulatorKept, PTL

(* digits are added and subtracted exactly in every state                   *)
LEMMA DigitsOf ==
    ASSUME Kept
    PROVE  DigitsExact
<1>1. x \in Numbers /\ Len(x.digits) > 0 /\ Bottom(x) + Scale >= 0 /\ Scale \in Int
    BY FitsIs DEF Kept, TypeOK
<1>2. SUFFICES ASSUME NEW k \in Digit, NEW e \in Ranks, ~(SignAlone(x) /\ x.exp < e)
               PROVE  /\ Value(add(x, k, e), Scale) = Value(x, Scale) + k * Power(Base, e + Scale)
                      /\ Value(sub(x, k, e), Scale) = Value(x, Scale) - k * Power(Base, e + Scale)
    BY DEF DigitsExact
<1>3. e \in Int /\ e + Scale >= 0
    BY DigitalAssumption DEF Ranks
<1>4. Value(add(x, k, e), Scale) = Value(x, Scale) + k * Rank(e + Scale)
    BY <1>1, <1>2, <1>3, AddIs
<1>5. Value(sub(x, k, e), Scale) = Value(x, Scale) - k * Rank(e + Scale)
    BY <1>1, <1>2, <1>3, SubIs
<1>. QED BY <1>4, <1>5 DEF Rank

(* a sum is exact but in three cases, and in these never                    *)
LEMMA SumsOf ==
    ASSUME Kept
    PROVE  SumsExact
<1>1. Trimmed(x) /\ Bottom(x) + Scale >= 0
    BY FitsIs DEF Kept, TypeOK
<1>2. ASSUME NEW b \in Operands PROVE Trimmed(b) /\ Bottom(b) + Scale >= 0
    BY OperandIs
<1>. QED BY <1>1, <1>2, SumIff DEF SumsExact

(* a negation is exact, but of a sign and a 0                               *)
LEMMA NegatesOf ==
    ASSUME Kept
    PROVE  NegatesExact
<1>1. x \in Numbers /\ Len(x.digits) > 0 /\ Bottom(x) + Scale >= 0 /\ Scale \in Int
    BY FitsIs DEF Kept, TypeOK
<1>2. ASSUME ~SignAlone(x) PROVE Value(negate(x), Scale) = -Value(x, Scale)
    <2>1. Negatable(x)
        BY <1>1, <1>2, NotSignAlone
    <2>. QED BY <2>1, <1>1, NegateValue
<1>. QED BY <1>2 DEF NegatesExact

(* a shift is exact of what is not negative, but by a digit or more to the  *)
(* right                                                                    *)
LEMMA ShiftsOf ==
    ASSUME Kept
    PROVE  ShiftsExact
<1>1. x \in Numbers /\ Len(x.digits) > 0 /\ Bottom(x) + Scale >= 0 /\ Scale \in Int
    BY FitsIs DEF Kept, TypeOK
<1>2. SUFFICES ASSUME NEW s \in Shifts, ~x.neg
               PROVE  /\ s >= 0 => Value(shift(x, s), Scale) = Value(x, Scale) * Power(2, s)
                      /\ -Bits < s /\ s < 0
                         => Value(shift(x, s), Scale + 1) * Power(2, -s) = Value(x, Scale + 1)
    BY DEF ShiftsExact
<1>3. s \in Int
    BY OperandsAssumption
<1>4. ASSUME s >= 0 PROVE Value(shift(x, s), Scale) = Value(x, Scale) * Power(2, s)
    <2>1. s \in Nat
        BY <1>3, <1>4
    <2>. QED BY <2>1, <1>1, <1>2, ShiftValue
<1>5. ASSUME -Bits < s, s < 0
      PROVE  Value(shift(x, s), Scale + 1) * Power(2, -s) = Value(x, Scale + 1)
    BY <1>1, <1>2, <1>3, <1>5, ShiftRight
<1>. QED BY <1>4, <1>5

(* products are exact                                                       *)
LEMMA ProductsOf ==
    ASSUME Kept
    PROVE  ProductsExact
<1>1. x \in Numbers /\ Len(x.digits) > 0 /\ Bottom(x) + Scale >= 0
    BY FitsIs DEF Kept, TypeOK
<1>2. SUFFICES ASSUME NEW b \in Operands, ~SignAlone(x), ~SignAlone(b)
               PROVE  Value(Times(x, b), 2 * Scale) = Value(x, Scale) * Value(b, Scale)
    BY DEF ProductsExact
<1>3. b \in Numbers /\ Len(b.digits) > 0 /\ Bottom(b) + Scale >= 0
    BY OperandIs
<1>4. Scale \in Nat
    BY DigitalAssumption
<1>. QED BY <1>1, <1>2, <1>3, <1>4, ProductValue

(* one digit is divided by one exactly                                      *)
LEMMA QuotientOf ==
    ASSUME Kept
    PROVE  QuotientExact
<1>1. x \in Numbers
    BY FitsIs DEF Kept, TypeOK
<1>2. SUFFICES ASSUME NEW b \in Operands, NEW places \in 0..Precision, NEW round \in BOOLEAN,
                      Len(x.digits) = 1, x.digits # << 0 >>, Len(b.digits) = 1, Divides(b)
               PROVE  Quotes(b, places, div(x, b, places, round))
    BY DEF QuotientExact
<1>3. b \in Numbers
    BY OperandIs
<1>4. places \in Nat
    BY DigitalAssumption
<1>. QED BY <1>1, <1>2, <1>3, <1>4, QuotientValue

(* In every state, for every base and length: digits are added exactly but  *)
(* to a sign and a 0 that has to be extended (numeric.cpp:23); sums are     *)
(* exact but for that, for a negative number added below digits that are    *)
(* not just borrowed from (120-125), and for two negative numbers of which  *)
(* the first is cut off (139-141), and they are wrong in these; negations   *)
(* and products are but of a sign and a 0, shifts of what is not negative   *)
(* but by a digit or more to the right, and quotients of one digit by one.  *)
THEOREM Exact == Spec => []ArithmeticExact
<1>1. Kept => ArithmeticExact
    <2>1. SUFFICES ASSUME Kept PROVE ArithmeticExact
        OBVIOUS
    <2>2. TypeOK
        BY <2>1 DEF Kept
    <2>. QED BY <2>1, <2>2, DigitsOf, SumsOf, NegatesOf, ShiftsOf, ProductsOf, QuotientOf DEF ArithmeticExact
<1>. QED BY <1>1, AccumulatorKept, PTL

(* A comparison tells the order of the values just if Misordered does not   *)
(* name the numbers: a zero of higher rank than the other number, or minus  *)
(* one power of the base kept in its two ways (numeric.cpp:417), a first    *)
(* number of lower rank that its digits do not make less (418), numbers of  *)
(* one rank of which the less one has more digits, or if negative fewer     *)
(* (420-421), and different negative numbers of one rank and length         *)
(* (426-427).  For every base and length, and in every state.               *)
THEOREM Ordered == Spec => []OrderExact
<1>1. Kept => OrderExact
    <2>1. SUFFICES ASSUME Kept, NEW b \in Operands
                   PROVE  Compares(x, b, Value(x, Scale), Value(b, Scale)) <=> ~Misordered(x, b)
        BY DEF OrderExact, InOrder, Compares
    <2>2. Trimmed(x) /\ Bottom(x) + Scale >= 0 /\ Scale \in Int
        BY <2>1, FitsIs DEF Kept, TypeOK
    <2>3. Trimmed(b) /\ Bottom(b) + Scale >= 0
        BY OperandIs
    <2>. QED BY <2>2, <2>3, OrderIff
<1>. QED BY <1>1, AccumulatorKept, PTL

-------------------------------------------------------------------------------
(* Rational: numbers of one digit, of either sign *)

(* the numbers that one digit and a sign tell, and what they are at rank e  *)
Smalls == (-MAX)..MAX
(* the digit of v, the number at rank e, and all that is known of it        *)
SmallDigit(v) == IF v < 0 THEN Base + v ELSE v
Small(v, e) == [neg |-> (v < 0), exp |-> e, digits |-> <<SmallDigit(v)>>]
IsSmall(a, v, e) ==
    /\ a \in Numbers /\ Trimmed(a) /\ Len(a.digits) = 1 /\ a.digits = <<SmallDigit(v)>>
    /\ a.digits[1] = SmallDigit(v) /\ (a.neg <=> v < 0) /\ a.exp = e /\ Bottom(a) = e
    /\ Amount(a) = v /\ ~SignAlone(a) /\ Negatable(a)

(* The digit of a small number. *)
LEMMA SmallDigitIs ==
    ASSUME NEW v \in Smalls
    PROVE  /\ v \in Int /\ SmallDigit(v) \in Digit
           /\ v < 0 => SmallDigit(v) # 0 /\ SmallDigit(v) = Base + v
           /\ v >= 0 => SmallDigit(v) = v
           /\ v # 0 => SmallDigit(v) # 0
<1>1. v \in Int /\ v <= MAX /\ -MAX <= v
    BY BaseIs DEF Smalls
<1>. QED BY <1>1, BaseIs DEF SmallDigit

(* A small number is one of the code's, trimmed and not a sign alone. *)
LEMMA SmallIs ==
    ASSUME NEW v \in Smalls, NEW e \in Int
    PROVE  IsSmall(Small(v, e), v, e)
<1>. DEFINE a == Small(v, e)
            g == SmallDigit(v)
<1>1. /\ v \in Int /\ g \in Digit /\ (v < 0 => g # 0 /\ g = Base + v) /\ (v >= 0 => g = v)
    BY SmallDigitIs
<1>. HIDE DEF g
<1>2. a = [neg |-> (v < 0), exp |-> e, digits |-> <<g>>]
    BY DEF Small, g
<1>3. (v < 0) \in BOOLEAN
    OBVIOUS
<1>4. /\ a.neg = (v < 0) /\ a.exp = e /\ a.digits = <<g>>
    BY <1>2
<1>5. a \in Numbers
    <2>1. <<g>> \in Seq(Digit)
        BY <1>1
    <2>. QED BY <2>1, <1>2, <1>3 DEF Numbers
<1>. HIDE DEF a
<1>6. Len(a.digits) = 1 /\ a.digits[1] = g
    BY <1>4
<1>7. Bottom(a) = e
    BY <1>4, <1>6 DEF Bottom
<1>8. Trimmed(a)
    BY <1>5, <1>6 DEF Trimmed, Numbers
<1>9. ~SignAlone(a)
    BY <1>1, <1>4, <1>6 DEF SignAlone, Last
<1>10. Negatable(a)
    BY <1>5, <1>6, <1>9, NotSignAlone
<1>11. a.neg <=> v < 0
    BY <1>4
<1>12. Amount(a) = v
    <2>1. a.digits \in Seq(Digit)
        BY <1>5 DEF Numbers
    <2>2. Read(a.digits, 1) = g
        BY <2>1, <1>6, SingleDigit
    <2>3. CASE a.neg
        <3>1. Amount(a) = Read(a.digits, Len(a.digits)) - Rank(Len(a.digits))
            BY <2>3, <1>5, Negative
        <3>2. Rank(1) = Base
            BY <1>1, ReadFew
        <3>3. Amount(a) = g - Base
            BY <3>1, <3>2, <2>2, <1>6
        <3>. QED BY <3>3, <2>3, <1>1, <1>11, BaseIs
    <2>4. CASE ~a.neg
        <3>1. Amount(a) = Read(a.digits, Len(a.digits))
            BY <2>4, <1>5, Positive
        <3>. QED BY <3>1, <2>2, <2>4, <1>1, <1>6, <1>11
    <2>. QED BY <2>3, <2>4
<1>13. IsSmall(a, v, e)
    BY <1>4, <1>5, <1>6, <1>7, <1>8, <1>9, <1>10, <1>11, <1>12 DEF IsSmall, g
<1>. QED BY <1>13 DEF a

(* Two numbers that agree in everything are one. *)
LEMMA SameNumber ==
    ASSUME NEW a \in Numbers, NEW b \in Numbers, a.neg <=> b.neg, a.exp = b.exp, a.digits = b.digits
    PROVE  a = b
<1>1. a.neg \in BOOLEAN
    BY NumberIs
<1>2. b.neg \in BOOLEAN
    BY NumberIs
<1>3. a.neg = b.neg
    BY <1>1, <1>2, SameTruth
<1>. QED BY <1>3 DEF Numbers

(* What has the sign, the rank and the digit of a small number is that. *)
LEMMA SmallFrom ==
    ASSUME NEW a \in Numbers, NEW v \in Smalls, NEW e \in Int, Len(a.digits) = 1, a.exp = e,
           a.neg <=> v < 0, a.digits[1] = SmallDigit(v)
    PROVE  a = Small(v, e)
<1>1. IsSmall(Small(v, e), v, e)
    BY SmallIs
<1>2. a.digits = <<SmallDigit(v)>>
    <2>1. a.digits \in Seq(Digit)
        BY NumberIs
    <2>2. a.digits = <<a.digits[1]>>
        BY <2>1, SingleDigit
    <2>. QED BY <2>2
<1>. QED BY <1>1, <1>2, SameNumber DEF IsSmall

(* A small number at rank e, counted in units of rank -s. *)
LEMMA SmallValue ==
    ASSUME NEW v \in Smalls, NEW e \in Int, NEW s \in Int
    PROVE  Value(Small(v, e), s) = v * Rank(e + s)
<1>. DEFINE a == Small(v, e)
<1>1. a \in Numbers /\ Amount(a) = v /\ Bottom(a) = e
    BY SmallIs DEF IsSmall
<1>. HIDE DEF a
<1>2. Value(a, s) = v * Rank(e + s)
    BY <1>1, ValueIs
<1>. QED BY <1>2 DEF a

(* Nothing of a number of one digit is trimmed ... *)
LEMMA OneTrim ==
    ASSUME NEW a \in Numbers, Len(a.digits) = 1
    PROVE  trim(a) = a
<1>1. Widens(a, trim(a), Leading(a), Behind(a))
    BY TrimIs
<1>2. Leading(a) \in 0..(Len(a.digits) - 1)
    <2>1. Len(a.digits) > 0
        OBVIOUS
    <2>. QED BY <2>1, LeadingIs
<1>3. Leading(a) = 0
    BY <1>2
<1>4. /\ trim(a) \in Numbers /\ a.neg = trim(a).neg /\ a.exp = trim(a).exp + 0
      /\ Len(a.digits) = 0 + Len(trim(a).digits) + Behind(a) /\ Behind(a) \in Nat
      /\ \A i \in 1..Len(trim(a).digits) : a.digits[0 + i] = trim(a).digits[i]
    BY <1>1, <1>3 DEF Widens
<1>. DEFINE w == trim(a)
<1>5. Len(w.digits) > 0
    <2>1. Trimmed(w)
        BY TrimIs
    <2>. HIDE DEF w
    <2>. QED BY <2>1, TrimmedIs
<1>6. w \in Numbers /\ w.exp \in Int /\ w.digits \in Seq(Digit) /\ Len(w.digits) \in Nat
    <2>1. w \in Numbers
        BY <1>4
    <2>. HIDE DEF w
    <2>. QED BY <2>1, NumberIs
<1>7. Len(w.digits) = 1
    <2>. DEFINE l == Len(w.digits)
                n == Behind(a)
    <2>1. 1 = 0 + l + n /\ n \in Nat /\ l \in Nat /\ l > 0
        BY <1>4, <1>5, <1>6
    <2>. HIDE DEF l, n
    <2>2. l = 1
        BY <2>1
    <2>. QED BY <2>2 DEF l
<1>8. w.digits[1] = a.digits[1] /\ w.exp = a.exp /\ w.neg = a.neg
    BY <1>4, <1>6, <1>7
<1>. HIDE DEF w
<1>9. a.digits \in Seq(Digit)
    BY NumberIs
<1>10. a.digits = <<a.digits[1]>>
    BY <1>9, SingleDigit
<1>11. w.digits = <<w.digits[1]>>
    BY <1>6, <1>7, SingleDigit
<1>12. w.digits = a.digits
    BY <1>8, <1>10, <1>11
<1>13. w = a
    BY <1>6, <1>8, <1>12, SameNumber
<1>. QED BY <1>13 DEF w

(* ... and no room is made in it for its own place. *)
LEMMA OnePad ==
    ASSUME NEW a \in Numbers, Len(a.digits) = 1
    PROVE  pad(a, a.exp, Bottom(a)) = a
<1>. DEFINE w == pad(a, a.exp, Bottom(a))
<1>1. a.exp \in Int /\ Bottom(a) \in Int /\ a.digits \in Seq(Digit)
    BY NumberIs
<1>2. Pads(w, a, a.exp, Bottom(a))
    BY <1>1, Paddings
<1>3. Front(a, a.exp) = 0 /\ Back(a, Bottom(a)) = 0
    BY <1>1 DEF Front, Back
<1>. HIDE DEF w
<1>4. /\ w \in Numbers /\ w.neg = a.neg /\ w.exp = a.exp + 0 /\ Len(w.digits) = 0 + Len(a.digits) + 0
      /\ \A i \in 1..Len(a.digits) : w.digits[0 + i] = a.digits[i]
    BY <1>2, <1>3 DEF Pads
<1>5. Len(w.digits) = 1 /\ w.exp = a.exp /\ w.digits[1] = a.digits[1]
    BY <1>1, <1>4
<1>6. w.digits \in Seq(Digit)
    BY <1>4, NumberIs
<1>7. w.digits = <<w.digits[1]>>
    BY <1>5, <1>6, SingleDigit
<1>8. a.digits = <<a.digits[1]>>
    BY <1>1, SingleDigit
<1>9. w.digits = a.digits
    BY <1>5, <1>7, <1>8
<1>10. w = a
    BY <1>4, <1>5, <1>9, SameNumber
<1>. QED BY <1>10 DEF w

(* Two sequences of one digit. *)
LEMMA SameDigit ==
    ASSUME NEW d \in Seq(Digit), NEW g, Len(d) = 1, d[1] = g
    PROVE  d = <<g>>
BY SingleDigit

(* The digits of two numbers of one digit at the same rank are added, and   *)
(* nothing is above them: what is left is the sign that the carry tells.    *)
LEMMA OnePadded ==
    ASSUME NEW a \in Numbers, NEW b \in Numbers, Len(a.digits) = 1, Len(b.digits) = 1, a.exp = b.exp
    PROVE  \E sum \in Digit, carry \in BOOLEAN :
              /\ One(carry) * Base + sum = a.digits[1] + b.digits[1]
              /\ Padded(a, b) = Carry([a EXCEPT !.digits = <<sum>>], b, carry, sum = 0)
<1>. DEFINE at == Sums(a, b, 0)
            sum == at[1].digit
            carry == at[1].carry
            low == [i \in DOMAIN a.digits |->
                      IF i \in (0 + 1)..(0 + Len(b.digits)) THEN at[i].digit ELSE a.digits[i]]
<1>1. a.exp \in Int /\ a.digits \in Seq(Digit) /\ b.digits \in Seq(Digit) /\ a.neg \in BOOLEAN
    BY NumberIs
<1>2. SumsUp(at, a, b, 0)
    <2>1. 0 \in Nat /\ 0 + Len(b.digits) <= Len(a.digits)
        OBVIOUS
    <2>. QED BY <2>1, SumsAre
<1>. HIDE DEF at
<1>3. /\ at[0 + 1 + 1].carry = FALSE /\ at[1].digit \in Digit /\ at[1].carry \in BOOLEAN
      /\ One(at[1].carry) * Base + at[1].digit = a.digits[1] + b.digits[1 - 0] + One(at[1 + 1].carry)
    <2>1. 1 \in (0 + 1)..(0 + Len(b.digits)) /\ 1 \in (0 + 1)..(0 + Len(b.digits) + 1)
        OBVIOUS
    <2>. QED BY <2>1, <1>2 DEF SumsUp
<1>4. a.digits[1] \in Digit /\ b.digits[1] \in Digit
    BY <1>1, SingleDigit
<1>5. One(carry) * Base + sum = a.digits[1] + b.digits[1]
    BY <1>3, <1>4, BaseIs DEF One
<1>6. low = <<sum>>
    <2>1. DOMAIN a.digits = 1..1
        BY <1>1
    <2>2. low = [i \in 1..1 |-> sum]
        BY <2>1
    <2>3. <<sum>> = [i \in 1..1 |-> sum]
        OBVIOUS
    <2>. HIDE DEF low, sum
    <2>. QED BY <2>2, <2>3
<1>. HIDE DEF sum, carry
<1>7. sum \in Digit /\ carry \in BOOLEAN /\ <<sum>> \in Seq(Digit) /\ Len(<<sum>>) = 1
    BY <1>3 DEF sum, carry
<1>8. Padded(a, b) = Upper(a, b, 0, low, carry)
    <2>1. a.exp - b.exp = 0
        BY <1>1
    <2>2. Padded(a, b) = Lower(a, b, 0, at)
        BY <2>1 DEF Padded, at
    <2>. QED BY <2>2 DEF Lower, carry
<1>. HIDE DEF low
<1>. DEFINE digits == IF b.neg THEN [i \in DOMAIN low |-> IF i <= 0 THEN (low[i] - 1) % Base ELSE low[i]]
                      ELSE IF carry THEN PlusOne(low, 0 + 1, MAX, 1) ELSE low
            zero == /\ \A i \in (0 + 1)..(0 + Len(b.digits)) : digits[i] = 0
                    /\ b.neg => \A i \in 1..0 : digits[i] = 0
            out == IF b.neg THEN carry \/ \E i \in 1..0 : a.digits[i] # 0
                   ELSE carry /\ Out(low, 0 + 1, MAX)
<1>9. digits = <<sum>>
    <2>1. low \in Seq(Digit) /\ Len(low) = 1 /\ low[1] = sum /\ DOMAIN low = 1..1
        BY <1>6, <1>7
    <2>2. CASE b.neg
        <3>1. digits = [i \in 1..1 |-> IF i <= 0 THEN (low[i] - 1) % Base ELSE low[i]]
            BY <2>1, <2>2
        <3>2. digits = [i \in 1..1 |-> sum]
            BY <3>1, <2>1
        <3>. HIDE DEF digits
        <3>. QED BY <3>2
    <2>3. CASE ~b.neg /\ carry
        <3>. DEFINE u == PlusOne(low, 1, MAX, 1)
        <3>1. /\ u \in Seq(Digit) /\ Len(u) = Len(low)
              /\ \A j \in 1..Len(low) : u[j] = IF j < 1 /\ Reaches(low, MAX, j, 1)
                                               THEN (low[j] + 1) % Base ELSE low[j]
            <4>1. Carries(MAX, 1)
                BY DEF Carries
            <4>. QED BY <4>1, <2>1, PlusOneIs
        <3>2. digits = u
            BY <2>3
        <3>. HIDE DEF u, digits
        <3>3. u[1] = low[1]
            BY <3>1, <2>1
        <3>. QED BY <3>1, <3>2, <3>3, <2>1, SameDigit
    <2>4. CASE ~b.neg /\ ~carry
        BY <2>4, <1>6
    <2>. QED BY <2>2, <2>3, <2>4
<1>10. Upper(a, b, 0, low, carry) = Carry([a EXCEPT !.digits = digits], b, out, zero)
    BY DEF Upper
<1>11. out = carry
    <2>1. Out(low, 0 + 1, MAX)
        BY DEF Out, Reaches
    <2>2. ~ \E i \in 1..0 : a.digits[i] # 0
        OBVIOUS
    <2>3. out <=> carry
        <3>. HIDE DEF carry
        <3>. QED BY <2>1, <2>2
    <2>4. out \in BOOLEAN
        BY <1>7 DEF Out, Reaches
    <2>. HIDE DEF out
    <2>. QED BY <2>3, <2>4, <1>7, SameTruth
<1>. HIDE DEF digits, out
<1>12. zero = (sum = 0)
    <2>1. digits[1] = sum
        BY <1>9
    <2>2. zero <=> sum = 0
        BY <2>1
    <2>. QED BY <2>2, SameTruth
<1>. HIDE DEF zero
<1>13. Padded(a, b) = Carry([a EXCEPT !.digits = <<sum>>], b, carry, sum = 0)
    BY <1>8, <1>9, <1>10, <1>11, <1>12
<1>. QED BY <1>5, <1>7, <1>13

(* What is carried when small numbers are added, and the digit.             *)
LEMMA SmallSum ==
    ASSUME NEW u \in Smalls, NEW v \in Smalls, u + v \in Smalls,
           NEW sum \in Digit, NEW carry \in BOOLEAN,
           One(carry) * Base + sum = SmallDigit(u) + SmallDigit(v)
    PROVE  /\ sum = SmallDigit(u + v)
           /\ u >= 0 /\ v >= 0 => ~carry
           /\ u < 0 /\ v < 0 => carry /\ sum # 0
           /\ (u < 0 /\ v >= 0) \/ (u >= 0 /\ v < 0) => (carry <=> u + v >= 0)
<1>1. /\ u \in Int /\ v \in Int /\ u <= MAX /\ v <= MAX /\ -MAX <= u /\ -MAX <= v
      /\ -MAX <= u + v /\ u + v <= MAX /\ sum \in Int /\ 0 <= sum /\ sum < Base
      /\ Base \in Int /\ MAX = Base - 1
    BY BaseIs DEF Smalls
<1>2. One(carry) * Base = IF carry THEN Base ELSE 0
    BY <1>1 DEF One
<1>3. (IF carry THEN Base ELSE 0) + sum = SmallDigit(u) + SmallDigit(v)
    BY <1>2
<1>. QED BY <1>1, <1>3 DEF SmallDigit

(* Small numbers are added exactly, whatever their signs.                   *)
LEMMA SmallPlus ==
    ASSUME NEW u \in Smalls, NEW v \in Smalls, u + v \in Smalls, NEW e \in Int
    PROVE  Plus(Small(u, e), Small(v, e)) = Small(u + v, e)
<1>. DEFINE a == Small(u, e)
            b == Small(v, e)
            y == Padded(a, b)
<1>1. /\ a \in Numbers /\ Len(a.digits) = 1 /\ a.digits[1] = SmallDigit(u)
      /\ (a.neg <=> u < 0) /\ a.exp = e /\ Bottom(a) = e
    BY SmallIs DEF IsSmall
<1>2. /\ b \in Numbers /\ Len(b.digits) = 1 /\ b.digits[1] = SmallDigit(v)
      /\ (b.neg <=> v < 0) /\ b.exp = e /\ Bottom(b) = e
    BY SmallIs DEF IsSmall
<1>. HIDE DEF a, b
<1>3. PICK sum \in Digit, carry \in BOOLEAN :
        /\ One(carry) * Base + sum = a.digits[1] + b.digits[1]
        /\ y = Carry([a EXCEPT !.digits = <<sum>>], b, carry, sum = 0)
    <2>1. a.exp = b.exp
        BY <1>1, <1>2
    <2>. QED BY <2>1, <1>1, <1>2, OnePadded
<1>. DEFINE w == [a EXCEPT !.digits = <<sum>>]
<1>4. /\ w \in Numbers /\ w.digits = <<sum>> /\ w.exp = e /\ w.neg = a.neg
      /\ a.neg \in BOOLEAN /\ b.neg \in BOOLEAN
    <2>1. <<sum>> \in Seq(Digit)
        OBVIOUS
    <2>2. a = [neg |-> a.neg, exp |-> a.exp, digits |-> a.digits] /\ a.neg \in BOOLEAN
        BY <1>1 DEF Numbers
    <2>3. w = [neg |-> a.neg, exp |-> a.exp, digits |-> <<sum>>]
        BY <2>2
    <2>4. b.neg \in BOOLEAN
        BY <1>2, NumberIs
    <2>. HIDE DEF w
    <2>. QED BY <2>1, <2>2, <2>3, <2>4, <1>1 DEF Numbers
<1>5. /\ sum = SmallDigit(u + v)
      /\ u >= 0 /\ v >= 0 => ~carry
      /\ u < 0 /\ v < 0 => carry /\ sum # 0
      /\ (u < 0 /\ v >= 0) \/ (u >= 0 /\ v < 0) => (carry <=> u + v >= 0)
    BY <1>1, <1>2, <1>3, SmallSum
<1>6. u \in Int /\ v \in Int /\ u + v \in Int
    BY SmallDigitIs
<1>7. y = Carry(w, b, carry, sum = 0)
    BY <1>3
<1>. HIDE DEF w, y
<1>8. (y = w /\ (w.neg <=> u + v < 0)) \/ (\E g \in BOOLEAN : y = [w EXCEPT !.neg = g] /\ (g <=> u + v < 0))
    <2>0. (w.neg = TRUE <=> u < 0) /\ (w.neg = FALSE <=> u >= 0) /\ (b.neg = TRUE <=> v < 0) /\ (b.neg = FALSE <=> v >= 0)
        <3>1. (w.neg <=> u < 0) /\ (b.neg <=> v < 0) /\ w.neg \in BOOLEAN /\ b.neg \in BOOLEAN
            BY <1>1, <1>2, <1>4
        <3>2. (u >= 0 <=> ~(u < 0)) /\ (v >= 0 <=> ~(v < 0))
            BY <1>6
        <3>. QED BY <3>1, <3>2
    <2>1. CASE u >= 0 /\ v >= 0
        <3>1. w.neg = FALSE /\ b.neg = FALSE /\ ~carry /\ ~(u + v < 0)
            BY <2>0, <2>1, <1>5, <1>6
        <3>2. y = w
            BY <3>1, <1>7 DEF Carry
        <3>. QED BY <3>1, <3>2
    <2>2. CASE u < 0 /\ v < 0
        <3>1. w.neg = TRUE /\ b.neg = TRUE /\ carry /\ sum # 0 /\ u + v < 0
            BY <2>0, <2>2, <1>5, <1>6
        <3>2. y = w
            BY <3>1, <1>7 DEF Carry
        <3>. QED BY <3>1, <3>2
    <2>3. CASE u < 0 /\ v >= 0
        <3>1. w.neg = TRUE /\ b.neg = FALSE /\ (carry <=> u + v >= 0) /\ (u + v >= 0 <=> ~(u + v < 0))
            BY <2>0, <2>3, <1>5, <1>6
        <3>2. CASE carry
            <4>1. y = [w EXCEPT !.neg = FALSE]
                BY <3>1, <3>2, <1>7 DEF Carry
            <4>2. FALSE <=> u + v < 0
                BY <3>1, <3>2
            <4>. QED BY <4>1, <4>2
        <3>3. CASE ~carry
            <4>1. y = w
                BY <3>1, <3>3, <1>7 DEF Carry
            <4>2. w.neg <=> u + v < 0
                BY <3>1, <3>3
            <4>. QED BY <4>1, <4>2
        <3>. QED BY <3>2, <3>3
    <2>4. CASE u >= 0 /\ v < 0
        <3>1. w.neg = FALSE /\ b.neg = TRUE /\ (carry <=> u + v >= 0) /\ (u + v >= 0 <=> ~(u + v < 0))
            BY <2>0, <2>4, <1>5, <1>6
        <3>2. CASE carry
            <4>1. y = [w EXCEPT !.neg = FALSE]
                BY <3>1, <3>2, <1>7 DEF Carry
            <4>2. FALSE <=> u + v < 0
                BY <3>1, <3>2
            <4>. QED BY <4>1, <4>2
        <3>3. CASE ~carry
            <4>1. y = [w EXCEPT !.neg = TRUE]
                BY <3>1, <3>3, <1>7 DEF Carry
            <4>2. TRUE <=> u + v < 0
                BY <3>1, <3>3
            <4>. QED BY <4>1, <4>2
        <3>. QED BY <3>2, <3>3
    <2>. QED BY <2>1, <2>2, <2>3, <2>4, <1>6
<1>9. /\ y \in Numbers /\ y.digits = w.digits /\ y.exp = w.exp /\ (y.neg <=> u + v < 0)
    <2>1. CASE y = w /\ (w.neg <=> u + v < 0)
        BY <2>1, <1>4
    <2>2. ASSUME NEW g \in BOOLEAN, y = [w EXCEPT !.neg = g], g <=> u + v < 0
          PROVE  y \in Numbers /\ y.digits = w.digits /\ y.exp = w.exp /\ (y.neg <=> u + v < 0)
        <3>1. w = [neg |-> w.neg, exp |-> w.exp, digits |-> w.digits] /\ w.exp \in Int /\ w.digits \in Seq(Digit)
            BY <1>4 DEF Numbers
        <3>2. y = [neg |-> g, exp |-> w.exp, digits |-> w.digits]
            BY <2>2, <3>1
        <3>. QED BY <2>2, <3>1, <3>2 DEF Numbers
    <2>. QED BY <2>1, <2>2, <1>8
<1>10. Len(y.digits) = 1 /\ y.digits[1] = SmallDigit(u + v) /\ y.exp = e
    BY <1>4, <1>5, <1>9
<1>11. y = Small(u + v, e)
    BY <1>9, <1>10, SmallFrom
<1>12. Plus(a, b) = trim(y)
    <2>1. b.exp - Len(b.digits) + 1 = Bottom(a) /\ b.exp = a.exp
        BY <1>1, <1>2
    <2>2. pad(a, b.exp, b.exp - Len(b.digits) + 1) = a
        BY <2>1, <1>1, OnePad
    <2>. QED BY <2>2 DEF Plus, y
<1>13. trim(y) = y
    BY <1>9, <1>10, OneTrim
<1>. QED BY <1>11, <1>12, <1>13 DEF a, b

(* Small numbers are negated exactly. *)
LEMMA SmallNegate ==
    ASSUME NEW v \in Smalls, NEW e \in Int
    PROVE  -v \in Smalls /\ negate(Small(v, e)) = Small(-v, e)
<1>. DEFINE a == Small(v, e)
            y == negate(a)
            g == SmallDigit(v)
<1>1. v \in Int /\ -v \in Smalls /\ v <= MAX /\ -MAX <= v
    BY BaseIs DEF Smalls
<1>2. /\ a \in Numbers /\ Len(a.digits) = 1 /\ a.digits[1] = g /\ (a.neg <=> v < 0) /\ a.exp = e
    BY SmallIs DEF IsSmall
<1>3. g \in Digit /\ (v < 0 => g # 0 /\ g = Base + v) /\ (v >= 0 => g = v)
    BY SmallDigitIs
<1>. HIDE DEF a, g
<1>4. Opposite(y, a)
    BY <1>2, NegateIs
<1>5. a.digits \in Seq(Digit)
    BY <1>2, NumberIs
<1>6. /\ Lowest(a.digits) \in 0..1
      /\ Lowest(a.digits) = 0 => a.digits[1] = 0
      /\ Lowest(a.digits) > 0 => a.digits[Lowest(a.digits)] # 0
    <2>1. /\ Lowest(a.digits) \in 0..Len(a.digits)
          /\ \A i \in (Lowest(a.digits) + 1)..Len(a.digits) : a.digits[i] = 0
          /\ Lowest(a.digits) > 0 => a.digits[Lowest(a.digits)] # 0
        BY <1>5, LowestIs
    <2>2. Lowest(a.digits) = 0 => 1 \in (Lowest(a.digits) + 1)..Len(a.digits)
        BY <1>2
    <2>. QED BY <2>1, <2>2, <1>2
<1>. HIDE DEF y
<1>7. CASE g = 0
    <2>1. Lowest(a.digits) = 0
        BY <1>2, <1>6, <1>7
    <2>2. y = a
        BY <2>1, <1>4 DEF Opposite
    <2>3. v = 0 /\ -v = v
        BY <1>1, <1>3, <1>7
    <2>. QED BY <2>2, <2>3, <1>1 DEF y, a
<1>8. CASE g # 0
    <2>1. Lowest(a.digits) = 1
        BY <1>2, <1>6, <1>8
    <2>2. y \in Numbers /\ Len(y.digits) = 1 /\ y.exp = e /\ y.digits[1] = Base - g /\ (y.neg <=> ~a.neg)
        BY <2>1, <1>2, <1>4 DEF Opposite
    <2>3. (y.neg <=> -v < 0) /\ Base - g = SmallDigit(-v)
        <3>1. v # 0
            BY <1>3, <1>8, BaseIs
        <3>2. (v < 0) <=> ~(-v < 0)
            BY <3>1, <1>1
        <3>3. Base - g = SmallDigit(-v)
            BY <3>1, <1>1, <1>3, BaseIs DEF SmallDigit
        <3>. QED BY <3>2, <3>3, <2>2, <1>2
    <2>4. y = Small(-v, e)
        BY <2>2, <2>3, <1>1, SmallFrom
    <2>. QED BY <2>4, <1>1 DEF y, a
<1>. QED BY <1>7, <1>8

(* Small numbers are subtracted exactly, whatever their signs. *)
LEMMA SmallMinus ==
    ASSUME NEW u \in Smalls, NEW v \in Smalls, u - v \in Smalls, NEW e \in Int
    PROVE  Minus(Small(u, e), Small(v, e)) = Small(u - v, e)
<1>1. -v \in Smalls /\ negate(Small(v, e)) = Small(-v, e)
    BY SmallNegate
<1>2. u + (-v) = u - v
    BY SmallDigitIs
<1>3. Plus(Small(u, e), Small(-v, e)) = Small(u + (-v), e)
    BY <1>1, <1>2, SmallPlus
<1>. QED BY <1>1, <1>2, <1>3 DEF Minus

(* A negative number of several digits, trimmed, or with zeros behind, is   *)
(* not greater than minus a power of the base.                              *)
LEMMA NegativeFar ==
    ASSUME NEW a, Trimmed(a), a.neg, NEW t \in Int, Bottom(a) >= t,
           Len(a.digits) > 1 \/ Bottom(a) > t
    PROVE  Value(a, -t) <= -Base
<1>. DEFINE n == Len(a.digits)
            R == Read(a.digits, n)
            k == Bottom(a) - t
<1>1. a \in Numbers /\ n > 0 /\ n \in Nat /\ Digits(a.digits, n) /\ Bottom(a) \in Int /\ k \in Nat
    <2>1. a \in Numbers /\ n > 0
        BY TrimmedIs
    <2>2. n \in Nat /\ Digits(a.digits, n) /\ Bottom(a) \in Int
        BY <2>1, NumberIs
    <2>. QED BY <2>1, <2>2
<1>2. Amount(a) = R - Rank(n) /\ Amount(a) < 0 /\ Amount(a) \in Int
    BY <1>1, Negative, NumberIs
<1>3. Value(a, -t) = Amount(a) * Rank(k)
    <2>1. Value(a, -t) = Amount(a) * Rank(Bottom(a) + -t)
        BY <1>1, ValueIs
    <2>2. Bottom(a) + -t = k
        BY <1>1
    <2>. QED BY <2>1, <2>2
<1>4. Rank(k) \in Nat /\ Rank(k) > 0
    BY <1>1, RankNext
<1>5. Base \in Nat /\ Base > 3 /\ MAX = Base - 1
    BY BaseIs
<1>6. CASE n > 1
    <2>1. n - 1 \in Nat /\ 1 <= n /\ 1 \in Nat
        BY <1>1, <1>6
    <2>2. a.digits[1] \in Digit /\ a.digits[1] # MAX
        <3>1. 1 \in 1..n
            BY <1>1
        <3>2. a.digits[1] \in Digit
            BY <1>1, <3>1 DEF Digits
        <3>3. Len(a.digits) > 1 => a.digits[1] # IF a.neg THEN MAX ELSE 0
            BY DEF Trimmed
        <3>. QED BY <3>2, <3>3, <1>6
    <2>3. Read(a.digits, 1) = a.digits[1]
        <3>1. 0 \in Nat /\ 1 \in 1..n /\ 0 + 1 = 1
            BY <1>1
        <3>2. Row(a.digits, 1)
            BY <2>2, BaseIs DEF Row
        <3>3. Read(a.digits, 0 + 1) = Read(a.digits, 0) * Base + a.digits[0 + 1]
            BY <3>1, <3>2, ReadNext
        <3>4. Read(a.digits, 0) = 0
            BY ReadZero
        <3>5. Read(a.digits, 1) = Read(a.digits, 0) * Base + a.digits[1]
            BY <3>3
        <3>. DEFINE g == a.digits[1]
        <3>6. g \in Int /\ Read(a.digits, 1) = 0 * Base + g
            BY <3>4, <3>5, <2>2, BaseIs
        <3>. HIDE DEF g
        <3>7. 0 * Base + g = g
            BY <3>6, <1>5
        <3>. QED BY <3>6, <3>7 DEF g
    <2>. DEFINE g == a.digits[1]
                K == Rank(n - 1)
    <2>4. R < (g + 1) * K /\ K \in Nat /\ R \in Nat
        <3>1. /\ Read(a.digits, 1) \in Nat /\ Read(a.digits, n) \in Nat /\ Rank(n - 1) \in Nat
              /\ Read(a.digits, n) < (Read(a.digits, 1) + 1) * Rank(n - 1)
            BY <1>1, <2>1, ReadSplit
        <3>. QED BY <3>1, <2>3
    <2>5. Rank(n) = Base * K
        <3>1. Rank((n - 1) + 1) = Base * Rank(n - 1)
            BY <2>1, RankNext
        <3>2. (n - 1) + 1 = n
            BY <1>1
        <3>. QED BY <3>1, <3>2
    <2>6. K >= Base
        <3>1. n - 2 \in Nat /\ (n - 2) + 1 = n - 1
            BY <1>1, <1>6
        <3>2. Rank((n - 2) + 1) = Base * Rank(n - 2) /\ Rank(n - 2) \in Nat /\ Rank(n - 2) > 0
            BY <3>1, RankNext
        <3>. DEFINE j == Rank(n - 2)
        <3>3. K = Base * j /\ j \in Nat /\ j > 0
            BY <3>1, <3>2
        <3>. HIDE DEF j, K
        <3>4. Base * j >= Base
            BY <3>3, <1>5
        <3>. QED BY <3>3, <3>4
    <2>7. Amount(a) <= -K
        <3>1. g \in Nat /\ g + 1 <= Base - 1
            BY <2>2, <1>5, BaseIs
        <3>. HIDE DEF g, K
        <3>2. (g + 1) * K <= (Base - 1) * K /\ (g + 1) * K \in Int /\ (Base - 1) * K \in Int
            BY <3>1, <2>4, <1>5
        <3>3. (Base - 1) * K = Base * K - K
            BY <2>4, <1>5
        <3>4. Base * K \in Int
            BY <2>4, <1>5
        <3>. QED BY <3>2, <3>3, <3>4, <2>4, <2>5, <1>2
    <2>. DEFINE A == Amount(a)
                r == Rank(k)
    <2>. HIDE DEF A, r, K
    <2>8. A <= -Base /\ A \in Int /\ r \in Nat /\ r > 0
        BY <2>4, <2>6, <2>7, <1>2, <1>4, <1>5 DEF A, r
    <2>9. A * r <= A
        BY <2>8, <1>5
    <2>. QED BY <2>8, <2>9, <1>3, <1>5 DEF A, r
<1>7. CASE Bottom(a) > t
    <2>1. k - 1 \in Nat /\ (k - 1) + 1 = k
        BY <1>1, <1>7
    <2>2. Rank((k - 1) + 1) = Base * Rank(k - 1) /\ Rank(k - 1) \in Nat /\ Rank(k - 1) > 0
        BY <2>1, RankNext
    <2>. DEFINE A == Amount(a)
                r == Rank(k - 1)
                c == Base * r
    <2>3. Value(a, -t) = A * c
        BY <2>1, <2>2, <1>3
    <2>4. r \in Nat /\ r > 0 /\ A \in Int /\ A <= -1
        BY <2>2, <1>2
    <2>. HIDE DEF A, r
    <2>5. c \in Nat /\ c >= Base
        BY <2>4, <1>5
    <2>. HIDE DEF c
    <2>6. A * c <= -c /\ A * c \in Int
        BY <2>4, <2>5
    <2>. QED BY <2>3, <2>5, <2>6, <1>5
<1>. QED BY <1>6, <1>7

(* Only a small number is worth what it is. *)
LEMMA SmallOnly ==
    ASSUME NEW a, Trimmed(a), NEW e \in Int, Bottom(a) >= e, NEW v \in Smalls, v # 0, Value(a, -e) = v
    PROVE  a = Small(v, e)
<1>1. a \in Numbers /\ Len(a.digits) > 0
    BY TrimmedIs
<1>2. v \in Int /\ v <= MAX /\ -MAX <= v /\ MAX = Base - 1 /\ Base \in Nat /\ Base > 3
    BY BaseIs DEF Smalls
<1>3. Bottom(a) \in Int /\ Len(a.digits) \in Nat /\ a.digits \in Seq(Digit) /\ a.exp \in Int
    BY <1>1, NumberIs
<1>4. (a.neg => v < 0) /\ (~a.neg => v >= 0)
    <2>1. -e \in Int /\ Bottom(a) + -e >= 0
        BY <1>3
    <2>. QED BY <2>1, <1>1, ValueSign
<1>5. a.neg <=> v < 0
    BY <1>2, <1>4
<1>6. CASE v > 0
    <2>1. IsDigit(a, v, e)
        BY <1>2, <1>6, OneDigit
    <2>2. a.digits = <<v>> /\ a.exp = e
        BY <2>1 DEF IsDigit
    <2>3. Len(a.digits) = 1 /\ a.digits[1] = v /\ SmallDigit(v) = v
        BY <2>2, <1>2, <1>6 DEF SmallDigit
    <2>. QED BY <2>2, <2>3, <1>1, <1>5, SmallFrom
<1>7. CASE v < 0
    <2>1. ~(Len(a.digits) > 1 \/ Bottom(a) > e)
        <3>1. a.neg
            BY <1>5, <1>7
        <3>2. ~(v <= -Base)
            BY <1>2
        <3>. QED BY <3>1, <3>2, NegativeFar
    <2>2. Len(a.digits) = 1 /\ Bottom(a) = e
        <3>. DEFINE l == Len(a.digits)
                    t == Bottom(a)
        <3>1. l \in Nat /\ l > 0 /\ ~(l > 1) /\ t \in Int /\ t >= e /\ ~(t > e)
            BY <2>1, <1>1, <1>3
        <3>. HIDE DEF l, t
        <3>2. l = 1 /\ t = e
            BY <3>1
        <3>. QED BY <3>2 DEF l, t
    <2>3. a.exp = e
        BY <2>2, <1>3 DEF Bottom
    <2>4. Value(a, -e) = Amount(a)
        <3>1. Value(a, -e) = Amount(a) * Rank(Bottom(a) + -e)
            BY <1>1, ValueIs
        <3>2. Bottom(a) + -e = 0 /\ Rank(0) = 1
            BY <2>2, Ranks0
        <3>3. Amount(a) \in Int
            BY <1>1, NumberIs
        <3>. QED BY <3>1, <3>2, <3>3
    <2>5. Amount(a) = Read(a.digits, Len(a.digits)) - Rank(Len(a.digits))
        BY <1>1, <1>5, <1>7, Negative
    <2>6. Read(a.digits, 1) = a.digits[1] /\ a.digits[1] \in Digit
        BY <2>2, <1>3, SingleDigit
    <2>7. Rank(1) = Base
        BY <2>6, ReadFew
    <2>8. a.digits[1] = Base + v
        BY <2>2, <2>4, <2>5, <2>6, <2>7, <1>2, BaseIs
    <2>9. SmallDigit(v) = Base + v
        BY <1>7 DEF SmallDigit
    <2>. QED BY <2>2, <2>3, <2>8, <2>9, <1>1, <1>5, SmallFrom
<1>. QED BY <1>2, <1>6, <1>7

-------------------------------------------------------------------------------
(* Rational: products of small numbers *)

(* The product of small numbers is worth the product. *)
LEMMA TimesSmallIs ==
    ASSUME NEW q \in Smalls, NEW z \in Smalls, NEW w, w = Times(Small(q, 0), Small(z, 0))
    PROVE  w \in Numbers /\ Trimmed(w) /\ Bottom(w) >= 0 /\ Value(w, 0) = q * z
<1>. DEFINE a == Small(q, 0)
            b == Small(z, 0)
<1>1. a \in Numbers /\ Len(a.digits) = 1 /\ Bottom(a) = 0 /\ Amount(a) = q /\ ~SignAlone(a)
    BY SmallIs DEF IsSmall
<1>2. b \in Numbers /\ Len(b.digits) = 1 /\ Bottom(b) = 0 /\ Amount(b) = z /\ ~SignAlone(b)
    BY SmallIs DEF IsSmall
<1>. HIDE DEF a, b
<1>3. Multiple(Times(a, b), a, b)
    BY <1>1, <1>2, TimesIs
<1>4. w = Times(a, b)
    BY DEF a, b
<1>5. w \in Numbers /\ Trimmed(w) /\ Bottom(w) >= 0
    BY <1>1, <1>2, <1>3, <1>4 DEF Multiple
<1>6. Value(w, 0) = q * z * Rank(0)
    <2>1. Bottom(a) + Bottom(b) + 0 = 0 /\ 0 \in Int /\ 0 >= 0
        BY <1>1, <1>2
    <2>2. Value(w, 0) = Amount(a) * Amount(b) * Rank(Bottom(a) + Bottom(b) + 0)
        BY <2>1, <1>1, <1>2, <1>3, <1>4 DEF Multiple
    <2>. QED BY <2>1, <2>2, <1>1, <1>2
<1>7. q * z * Rank(0) = q * z
    <2>1. q \in Int
        BY SmallDigitIs
    <2>2. z \in Int
        BY SmallDigitIs
    <2>3. q * z \in Int
        BY <2>1, <2>2
    <2>. QED BY <2>3, Ranks0
<1>. QED BY <1>5, <1>6, <1>7

(* A product that is small is a small number, *)
LEMMA TimesSmall ==
    ASSUME NEW q \in Smalls, NEW z \in Smalls, q * z \in Smalls, q * z # 0
    PROVE  Times(Small(q, 0), Small(z, 0)) = Small(q * z, 0)
<1>. DEFINE w == Times(Small(q, 0), Small(z, 0))
            v == q * z
<1>1. Trimmed(w) /\ Bottom(w) >= 0 /\ Value(w, -0) = v
    BY TimesSmallIs
<1>. HIDE DEF w
<1>2. v \in Smalls /\ v # 0
    OBVIOUS
<1>. HIDE DEF v
<1>3. w = Small(v, 0)
    BY <1>1, <1>2, SmallOnly
<1>. QED BY <1>3 DEF v, w

(* and so is 0, of numbers that are not negative.                           *)
LEMMA TimesZero ==
    ASSUME NEW q \in Smalls, NEW z \in Smalls, q >= 0, z >= 0, q * z = 0
    PROVE  Times(Small(q, 0), Small(z, 0)) = Small(0, 0)
<1>. DEFINE a == Small(q, 0)
            b == Small(z, 0)
            p == Products(a, b)
<1>0. 0 \in Smalls
    BY BaseIs DEF Smalls
<1>1. a \in Numbers /\ Len(a.digits) = 1 /\ ~a.neg /\ a.exp = 0 /\ Bottom(a) = 0
    <2>1. /\ a \in Numbers /\ Len(a.digits) = 1 /\ (a.neg <=> q < 0) /\ a.exp = 0 /\ Bottom(a) = 0
        BY SmallIs DEF IsSmall
    <2>2. ~(q < 0)
        BY SmallDigitIs
    <2>. QED BY <2>1, <2>2
<1>2. b \in Numbers /\ Len(b.digits) = 1 /\ ~b.neg /\ b.exp = 0 /\ Bottom(b) = 0
    <2>1. /\ b \in Numbers /\ Len(b.digits) = 1 /\ (b.neg <=> z < 0) /\ b.exp = 0 /\ Bottom(b) = 0
        BY SmallIs DEF IsSmall
    <2>2. ~(z < 0)
        BY SmallDigitIs
    <2>. QED BY <2>1, <2>2
<1>3. Value(Times(a, b), 0) = 0
    BY TimesSmallIs
<1>. HIDE DEF a, b
<1>4. Len(a.digits) > 0 /\ Len(b.digits) > 0
    BY <1>1, <1>2
<1>5. Multiplied(p, a, b)
    BY <1>1, <1>2, <1>4, ProductsIs
<1>6. \E h : PairsDone(h, a, b) /\ p = trim(h[Len(a.digits) * Len(b.digits)])
    BY <1>1, <1>2, <1>4, ProductsUnrolled
<1>. HIDE DEF p
<1>7. Times(a, b) = p
    BY <1>1, <1>2 DEF Times, Unit, Signed, OfSecond, OfFirst, p
<1>8. p \in Numbers /\ Trimmed(p) /\ ~p.neg /\ Bottom(p) >= 0
    BY <1>5, <1>1, <1>2 DEF Multiplied
<1>9. p.digits = << 0 >>
    <2>1. 0 = Value(p, -0) /\ 0 >= 0 /\ 0 < Base
        BY <1>3, <1>7, BaseIs
    <2>2. IsDigit(p, 0, 0)
        BY <2>1, <1>8, OneDigit
    <2>. QED BY <2>2 DEF IsDigit
<1>10. p.exp = 0
    <2>1. PICK h : PairsDone(h, a, b) /\ p = trim(h[Len(a.digits) * Len(b.digits)])
        BY <1>6
    <2>2. Sizes(1, 1, a, b)
        BY <1>1, <1>2 DEF Sizes
    <2>3. Partial(h[1 * 1], a, b, 1, 0)
        BY <2>1, <2>2, <1>1, <1>2, PartialAt
    <2>4. p = trim(h[1]) /\ Partial(h[1], a, b, 1, 0)
        <3>1. Len(a.digits) * Len(b.digits) = 1 /\ 1 * 1 = 1
            BY <1>1, <1>2
        <3>. QED BY <3>1, <2>1, <2>3
    <2>. DEFINE y == h[1]
    <2>. HIDE DEF y
    <2>5. y \in Numbers /\ ~y.neg /\ Bottom(y) >= 0 /\ Len(y.digits) > 0 /\ Bottom(y) <= 0
        BY <2>4, <1>1, <1>2 DEF Partial, y
    <2>6. trim(y).exp = Bottom(y)
        BY <2>4, <2>5, <1>9, ZeroTrim DEF y
    <2>7. Bottom(y) = 0
        <3>1. Bottom(y) \in Int
            BY <2>5, NumberIs
        <3>. QED BY <3>1, <2>5
    <2>. QED BY <2>4, <2>6, <2>7 DEF y
<1>11. SmallDigit(0) = 0
    BY DEF SmallDigit
<1>12. p = Small(0, 0)
    <2>1. Len(p.digits) = 1 /\ p.digits[1] = SmallDigit(0) /\ 0 \in Int
        BY <1>9, <1>11
    <2>2. p.neg <=> 0 < 0
        BY <1>8
    <2>. QED BY <2>1, <2>2, <1>0, <1>8, <1>10, SmallFrom
<1>. QED BY <1>7, <1>12 DEF a, b

(* The product of two digits that is a multiple of the base is a digit of   *)
(* the rank above.                                                          *)
LEMMA ProductUnits ==
    ASSUME NEW a \in Numbers, NEW b \in Numbers, Len(a.digits) = 1, Len(b.digits) = 1,
           Bottom(a) = 0, Bottom(b) = 0, NEW u \in 1..MAX,
           a.digits[1] * b.digits[1] = u * Base
    PROVE  Products(a, b) = Small(u, 1)
<1>. DEFINE p == Products(a, b)
            v == u * Base
            l == Len(p.digits)
<1>1. Multiplied(p, a, b)
    BY ProductsIs
<1>. HIDE DEF p
<1>2. p \in Numbers /\ Trimmed(p) /\ ~p.neg /\ Bottom(p) >= 0
    BY <1>1 DEF Multiplied
<1>3. /\ l > 0 /\ l \in Nat /\ Digits(p.digits, l) /\ Row(p.digits, l) /\ Bottom(p) \in Int
      /\ Amount(p) \in Int
    BY <1>2, TrimmedIs, NumberIs
<1>4. u \in Nat /\ u > 0 /\ u < Base /\ Base \in Nat /\ Base > 3 /\ v \in Nat /\ v >= Base
    <2>1. u \in Nat /\ u > 0 /\ u < Base /\ Base \in Nat /\ Base > 3
        BY BaseIs
    <2>2. v \in Nat /\ v >= Base
        BY <2>1
    <2>. QED BY <2>1, <2>2
<1>5. Value(p, 0) = v
    <2>1. Bottom(a) + Bottom(b) + 0 = 0 /\ 0 \in Int
        OBVIOUS
    <2>2. Value(p, 0) = Read(a.digits, 1) * Read(b.digits, 1) * Rank(0)
        BY <2>1, <1>1 DEF Multiplied
    <2>3. a.digits \in Seq(Digit)
        BY NumberIs
    <2>4. b.digits \in Seq(Digit)
        BY NumberIs
    <2>5. Read(a.digits, 1) = a.digits[1]
        BY <2>3, SingleDigit
    <2>6. Read(b.digits, 1) = b.digits[1]
        BY <2>4, SingleDigit
    <2>7. Value(p, 0) = v * 1
        BY <2>2, <2>5, <2>6, Ranks0
    <2>. HIDE DEF v
    <2>. QED BY <2>7, <1>4
<1>6. Amount(p) = Read(p.digits, l)
    BY <1>2, Positive
<1>7. Bottom(p) # 0
    <2>1. ASSUME Bottom(p) = 0 PROVE FALSE
        <3>1. Value(p, 0) = Amount(p) * Rank(Bottom(p) + 0)
            BY <1>2, ValueIs
        <3>2. Bottom(p) + 0 = 0
            BY <2>1
        <3>3. Amount(p) * 1 = v
            BY <3>1, <3>2, <1>5, Ranks0
        <3>4. Read(p.digits, l) = v
            <4>. HIDE DEF v, l
            <4>. QED BY <3>3, <1>3, <1>6
        <3>. DEFINE n == l - 1
                    R == Read(p.digits, n)
                    g == p.digits[l]
        <3>5. n \in Nat /\ n + 1 = l
            BY <1>3
        <3>6. R \in Int /\ Read(p.digits, n + 1) = R * Base + p.digits[n + 1]
            <4>1. Row(p.digits, n + 1)
                BY <3>5, <1>3
            <4>. HIDE DEF n, l
            <4>. QED BY <3>5, <4>1, ReadNext
        <3>7. g \in 0..(Base - 1)
            <4>1. l \in 1..l
                BY <1>3
            <4>2. g \in Digit
                BY <4>1, <1>3 DEF Digits
            <4>. QED BY <4>2, BaseIs
        <3>8. v = Base * R + g
            <4>1. v = R * Base + g
                BY <3>4, <3>5, <3>6
            <4>. HIDE DEF v, R, g
            <4>. QED BY <4>1, <3>6, <3>7, <1>4
        <3>9. g # 0
            <4>1. CASE l > 1
                BY <4>1, <1>2 DEF Trimmed, Last
            <4>2. CASE l = 1
                <5>1. R = 0
                    BY <4>2, ReadZero
                <5>2. v = g
                    <6>. HIDE DEF v, R, g
                    <6>. QED BY <5>1, <3>7, <3>8, <1>4
                <5>3. v # 0
                    <6>. HIDE DEF v
                    <6>. QED BY <1>4
                <5>. QED BY <5>2, <5>3
            <4>. HIDE DEF l
            <4>. QED BY <4>1, <4>2, <1>3
        <3>. HIDE DEF R, g
        <3>10. Base * u + 0 = Base * R + g
            BY <3>6, <3>7, <3>8, <1>4
        <3>11. 0 = g
            <4>1. 0 \in 0..(Base - 1) /\ Base \in Nat \ {0} /\ u \in Int
                BY <1>4
            <4>. QED BY <4>1, <3>6, <3>7, <3>10, DivUnique
        <3>. QED BY <3>9, <3>11
    <2>. QED BY <2>1
<1>8. Bottom(p) >= 1
    BY <1>2, <1>3, <1>7
<1>9. Value(p, -1) = u
    <2>1. -1 \in Int /\ Bottom(p) + -1 >= 0 /\ -1 + 1 = 0
        BY <1>3, <1>8
    <2>2. Value(p, -1) \in Int /\ Value(p, 0) = Value(p, -1) * Base
        <3>1. Value(p, -1) \in Int /\ Value(p, -1 + 1) = Value(p, -1) * Base
            BY <2>1, <1>2, ValueNext
        <3>. QED BY <3>1, <2>1
    <2>. DEFINE w == Value(p, -1)
    <2>. HIDE DEF w
    <2>3. w \in Int /\ w * Base = u * Base
        BY <2>2, <1>5 DEF w
    <2>4. w < u => w * Base < u * Base
        BY <2>3, <1>4
    <2>5. w > u => w * Base > u * Base
        BY <2>3, <1>4
    <2>6. w = u
        <3>1. w * Base \in Int /\ u * Base \in Int
            BY <2>3, <1>4
        <3>. QED BY <3>1, <2>3, <2>4, <2>5, <1>4
    <2>. QED BY <2>6 DEF w
<1>10. u \in Smalls /\ u # 0
    BY <1>4, BaseIs DEF Smalls
<1>11. p = Small(u, 1)
    BY <1>2, <1>8, <1>9, <1>10, SmallOnly
<1>. QED BY <1>11 DEF p

(* A sign alone is worth minus a power of the base. *)
LEMMA AloneIs ==
    ASSUME NEW a, Trimmed(a), SignAlone(a), Bottom(a) >= 0
    PROVE  /\ a.exp \in Nat /\ Value(a, 0) = -(Base * Rank(a.exp))
           /\ Rank(a.exp) \in Nat /\ Rank(a.exp) > 0 /\ (a.exp # 0 => Rank(a.exp) >= Base)
<1>1. a \in Numbers /\ Len(a.digits) > 0
    BY TrimmedIs
<1>2. a.digits \in Seq(Digit) /\ Len(a.digits) \in Nat /\ a.exp \in Int
    BY <1>1, NumberIs
<1>3. Len(a.digits) = 1
    <2>. DEFINE l == Len(a.digits)
    <2>1. l \in Nat /\ l > 0
        BY <1>1, <1>2
    <2>2. ~(l > 1)
        BY DEF Trimmed, SignAlone
    <2>. HIDE DEF l
    <2>3. l = 1
        BY <2>1, <2>2
    <2>. QED BY <2>3 DEF l
<1>4. a.digits[1] = 0
    BY <1>3 DEF SignAlone, Last
<1>5. Bottom(a) = a.exp /\ a.exp \in Nat
    BY <1>2, <1>3 DEF Bottom
<1>6. Amount(a) = -Base
    <2>1. Amount(a) = Read(a.digits, Len(a.digits)) - Rank(Len(a.digits))
        BY <1>1, Negative DEF SignAlone
    <2>2. Read(a.digits, 1) = 0 /\ 0 \in Digit
        BY <1>2, <1>3, <1>4, SingleDigit
    <2>3. Rank(1) = Base
        BY <2>2, ReadFew
    <2>. QED BY <2>1, <2>2, <2>3, <1>3, BaseIs
<1>7. Rank(a.exp) \in Nat /\ Rank(a.exp) > 0
    BY <1>5, RankNext
<1>8. Value(a, 0) = -(Base * Rank(a.exp))
    <2>1. Value(a, 0) = Amount(a) * Rank(Bottom(a) + 0)
        BY <1>1, ValueIs
    <2>2. Bottom(a) + 0 = a.exp
        BY <1>5
    <2>3. Value(a, 0) = (-Base) * Rank(a.exp)
        BY <2>1, <2>2, <1>6
    <2>. DEFINE r == Rank(a.exp)
    <2>4. r \in Int /\ Base \in Int
        BY <1>7, BaseIs
    <2>. HIDE DEF r
    <2>5. (-Base) * r = -(Base * r)
        BY <2>4
    <2>. QED BY <2>3, <2>5 DEF r
<1>9. a.exp # 0 => Rank(a.exp) >= Base
    <2>1. ASSUME a.exp # 0 PROVE Rank(a.exp) >= Base
        <3>. DEFINE n == a.exp - 1
        <3>1. n \in Nat /\ n + 1 = a.exp
            BY <1>5, <2>1
        <3>2. Rank(n) \in Nat /\ Rank(n) > 0 /\ Rank(n + 1) = Base * Rank(n)
            BY <3>1, RankNext
        <3>. DEFINE r == Rank(n)
        <3>3. r \in Nat /\ r > 0 /\ Rank(a.exp) = Base * r /\ Base \in Nat
            BY <3>1, <3>2, BaseIs
        <3>. HIDE DEF r
        <3>4. Base * r >= Base
            BY <3>3
        <3>. QED BY <3>3, <3>4
    <2>. QED BY <2>1
<1>. QED BY <1>5, <1>7, <1>8, <1>9

(* The product of two digits is far from minus the square of the base. *)
LEMMA SmallProduct ==
    ASSUME NEW q \in Smalls, NEW z \in Smalls
    PROVE  q * z \in Int /\ q * z > -(Base * Base)
<1>1. /\ q \in Int /\ z \in Int /\ q <= MAX /\ -MAX <= q /\ z <= MAX /\ -MAX <= z
      /\ Base \in Nat /\ Base > 3 /\ MAX = Base - 1
    BY BaseIs DEF Smalls
<1>2. ASSUME NEW m \in Nat, NEW n \in Nat, m < Base, n < Base
      PROVE  m * n < Base * Base /\ m * n \in Int /\ Base * Base \in Int
    <2>1. m * n <= m * Base
        BY <1>1, <1>2
    <2>2. m * Base < Base * Base
        BY <1>1, <1>2
    <2>3. m * n \in Int /\ m * Base \in Int /\ Base * Base \in Int
        BY <1>1
    <2>. QED BY <2>1, <2>2, <2>3
<1>3. q * z \in Int /\ Base * Base \in Nat
    BY <1>1
<1>4. CASE (q >= 0 /\ z >= 0) \/ (q < 0 /\ z < 0)
    <2>1. q * z >= 0
        BY <1>1, <1>4
    <2>2. Base * Base > 0
        BY <1>1
    <2>. QED BY <2>1, <2>2, <1>3
<1>5. CASE q >= 0 /\ z < 0
    <2>1. q \in Nat /\ -z \in Nat /\ q < Base /\ -z < Base
        BY <1>1, <1>5
    <2>2. q * (-z) < Base * Base /\ q * (-z) \in Int /\ Base * Base \in Int
        BY <2>1, <1>2
    <2>3. q * z = -(q * (-z))
        BY <1>1
    <2>. QED BY <2>2, <2>3
<1>6. CASE q < 0 /\ z >= 0
    <2>1. z \in Nat /\ -q \in Nat /\ z < Base /\ -q < Base
        BY <1>1, <1>6
    <2>2. (-q) * z < Base * Base /\ (-q) * z \in Int /\ Base * Base \in Int
        BY <2>1, <1>2
    <2>3. q * z = -((-q) * z)
        BY <1>1
    <2>. QED BY <2>2, <2>3
<1>. QED BY <1>1, <1>4, <1>5, <1>6

(* A negative digit times another: what is a multiple of the base comes out *)
(* of the corrections for the signs as a difference of two digits at the    *)
(* rank above.                                                              *)
LEMMA UnitsDiffer ==
    ASSUME NEW z \in 1..MAX, NEW k \in 1..MAX, k * z = Base
    PROVE  /\ z - 1 \in 1..MAX /\ (Base - k) * z = (z - 1) * Base
           /\ z \in Smalls /\ z - 1 \in Smalls /\ (z - 1) - z = -1 /\ -1 \in Smalls
<1>1. z \in Nat /\ k \in Nat /\ 0 < z /\ 0 < k /\ z < Base /\ k < Base /\ Base \in Nat /\ MAX = Base - 1
    BY BaseIs
<1>2. z # 1
    <2>1. z = 1 => k * z = k
        BY <1>1
    <2>. QED BY <2>1, <1>1
<1>3. (Base - k) * z = Base * z - k * z /\ (z - 1) * Base = Base * z - Base
    BY <1>1
<1>4. Base * z \in Int
    BY <1>1
<1>5. z - 1 \in 1..MAX /\ z \in Smalls /\ z - 1 \in Smalls /\ (z - 1) - z = -1 /\ -1 \in Smalls
    BY <1>1, <1>2 DEF Smalls
<1>. QED BY <1>3, <1>4, <1>5

(* A product of small numbers is no sign alone: where it could be, it is -1 *)
(* at the rank above.                                                       *)
LEMMA TimesNotAlone ==
    ASSUME NEW q \in Smalls, NEW z \in Smalls
    PROVE  ~SignAlone(Times(Small(q, 0), Small(z, 0)))
<1>. DEFINE a == Small(q, 0)
            b == Small(z, 0)
            p == Products(a, b)
            w == Times(a, b)
<1>1. /\ a \in Numbers /\ Len(a.digits) = 1 /\ (a.neg <=> q < 0) /\ a.exp = 0 /\ Bottom(a) = 0
      /\ a.digits[1] = SmallDigit(q)
    BY SmallIs DEF IsSmall
<1>2. /\ b \in Numbers /\ Len(b.digits) = 1 /\ (b.neg <=> z < 0) /\ b.exp = 0 /\ Bottom(b) = 0
      /\ b.digits[1] = SmallDigit(z)
    BY SmallIs DEF IsSmall
<1>3. w \in Numbers /\ Trimmed(w) /\ Bottom(w) >= 0 /\ Value(w, 0) = q * z
    BY TimesSmallIs
<1>4. q \in Int /\ z \in Int /\ Base \in Nat /\ Base > 3 /\ MAX = Base - 1 /\ q <= MAX /\ -MAX <= q
      /\ z <= MAX /\ -MAX <= z
    BY BaseIs DEF Smalls
<1>5. Small(z, 1) = Ranked(b, 1) /\ Small(q, 1) = Ranked(a, 1)
    BY DEF Small, Ranked
<1>6. shift(a, Bits * (b.exp + 1)) = Small(q, 1) /\ shift(b, Bits * (a.exp + 1)) = Small(z, 1)
    <2>1. b.exp + 1 = 1 /\ a.exp + 1 = 1 /\ 1 \in Int
        BY <1>1, <1>2
    <2>. HIDE DEF a, b
    <2>. QED BY <2>1, <1>5, ShiftDigits
<1>. HIDE DEF a, b, w, p
<1>7. ASSUME SignAlone(w) PROVE FALSE
    <2>1. q * z = -Base
        <3>1. /\ w.exp \in Nat /\ Value(w, 0) = -(Base * Rank(w.exp))
              /\ Rank(w.exp) \in Nat /\ Rank(w.exp) > 0 /\ (w.exp # 0 => Rank(w.exp) >= Base)
            BY <1>3, <1>7, AloneIs
        <3>. DEFINE r == Rank(w.exp)
        <3>2. q * z > -(Base * Base) /\ q * z \in Int
            BY SmallProduct
        <3>3. r = 1
            <4>1. ASSUME w.exp # 0 PROVE FALSE
                <5>1. r \in Nat /\ r >= Base
                    BY <3>1, <4>1
                <5>2. q * z = -(Base * r)
                    BY <3>1, <1>3
                <5>. HIDE DEF r
                <5>3. Base * r >= Base * Base /\ Base * r \in Int /\ Base * Base \in Int
                    BY <5>1, <1>4
                <5>. QED BY <5>2, <5>3, <3>2
            <4>. QED BY <4>1, Ranks0
        <3>4. q * z = -(Base * r)
            BY <3>1, <1>3
        <3>. HIDE DEF r
        <3>. QED BY <3>3, <3>4, <1>4
    <2>2. (q < 0 /\ z > 0) \/ (q > 0 /\ z < 0)
        <3>1. ~(q >= 0 /\ z >= 0)
            <4>1. q >= 0 /\ z >= 0 => q * z >= 0
                BY <1>4
            <4>. QED BY <4>1, <2>1, <1>4
        <3>2. ~(q <= 0 /\ z <= 0)
            <4>1. q <= 0 /\ z <= 0 => q * z >= 0
                BY <1>4
            <4>. QED BY <4>1, <2>1, <1>4
        <3>. QED BY <3>1, <3>2, <1>4
    <2>3. CASE q < 0 /\ z > 0
        <3>1. z \in 1..MAX /\ -q \in 1..MAX /\ (-q) * z = Base
            BY <2>1, <2>3, <1>4
        <3>2. /\ z - 1 \in 1..MAX /\ (Base - (-q)) * z = (z - 1) * Base
              /\ z \in Smalls /\ z - 1 \in Smalls /\ (z - 1) - z = -1 /\ -1 \in Smalls
            BY <3>1, UnitsDiffer
        <3>3. SmallDigit(q) = Base - (-q) /\ SmallDigit(z) = z
            BY <2>3, <1>4 DEF SmallDigit
        <3>4. p = Small(z - 1, 1)
            <4>1. a.digits[1] * b.digits[1] = (z - 1) * Base
                BY <3>2, <3>3, <1>1, <1>2
            <4>. QED BY <4>1, <3>2, <1>1, <1>2, ProductUnits DEF p
        <3>5. w = Minus(p, Small(z, 1))
            <4>1. a.neg /\ ~b.neg
                BY <2>3, <1>1, <1>2, <1>4
            <4>. QED BY <4>1, <1>6 DEF Times, Unit, Signed, OfSecond, OfFirst, p, w
        <3>6. w = Small(-1, 1)
            BY <3>2, <3>4, <3>5, SmallMinus
        <3>7. ~SignAlone(Small(-1, 1))
            BY <3>2, SmallIs DEF IsSmall
        <3>. QED BY <3>6, <3>7, <1>7
    <2>4. CASE q > 0 /\ z < 0
        <3>1. q \in 1..MAX /\ -z \in 1..MAX /\ (-z) * q = Base
            BY <2>1, <2>4, <1>4
        <3>2. /\ q - 1 \in 1..MAX /\ (Base - (-z)) * q = (q - 1) * Base
              /\ q \in Smalls /\ q - 1 \in Smalls /\ (q - 1) - q = -1 /\ -1 \in Smalls
            BY <3>1, UnitsDiffer
        <3>3. SmallDigit(z) = Base - (-z) /\ SmallDigit(q) = q
            BY <2>4, <1>4 DEF SmallDigit
        <3>4. p = Small(q - 1, 1)
            <4>1. a.digits[1] * b.digits[1] = (q - 1) * Base
                <5>1. q * (Base - (-z)) = (Base - (-z)) * q
                    BY <1>4
                <5>. QED BY <5>1, <3>2, <3>3, <1>1, <1>2
            <4>. QED BY <4>1, <3>2, <1>1, <1>2, ProductUnits DEF p
        <3>5. w = Minus(p, Small(q, 1))
            <4>1. ~a.neg /\ b.neg
                BY <2>4, <1>1, <1>2, <1>4
            <4>. QED BY <4>1, <1>6 DEF Times, Unit, Signed, OfSecond, OfFirst, p, w
        <3>6. w = Small(-1, 1)
            BY <3>2, <3>4, <3>5, SmallMinus
        <3>7. ~SignAlone(Small(-1, 1))
            BY <3>2, SmallIs DEF IsSmall
        <3>. QED BY <3>6, <3>7, <1>7
    <2>. QED BY <2>2, <2>3, <2>4
<1>. QED BY <1>7 DEF w, a, b

-------------------------------------------------------------------------------
(* Rational: a coefficient, less a product *)

(* A number of any size that leaves a small one is subtracted exactly, if   *)
(* it is negative or subtracted from what is not.                           *)
LEMMA MinusWide ==
    ASSUME NEW y \in Smalls, NEW p, Trimmed(p), Bottom(p) >= 0, ~SignAlone(p),
           NEW w \in Int, w = Value(p, 0), w < 0 \/ (w # 0 /\ y >= 0),
           NEW v \in Smalls, v # 0, v = y - w
    PROVE  Minus(Small(y, 0), p) = Small(v, 0)
<1>. DEFINE a == Small(y, 0)
            n == negate(p)
            r == Minus(a, p)
<1>1. /\ a \in Numbers /\ Len(a.digits) = 1 /\ (a.neg <=> y < 0) /\ a.exp = 0 /\ Bottom(a) = 0
      /\ ~SignAlone(a)
    BY SmallIs DEF IsSmall
<1>2. y \in Int /\ v \in Int
    BY SmallDigitIs
<1>3. Value(a, 0) = y
    <2>1. Value(a, 0) = y * Rank(0 + 0)
        <3>1. 0 \in Int
            OBVIOUS
        <3>. QED BY <3>1, SmallValue
    <2>2. 0 + 0 = 0
        OBVIOUS
    <2>3. Value(a, 0) = y * 1
        BY <2>1, <2>2, Ranks0
    <2>. HIDE DEF a
    <2>. QED BY <2>3, <1>2
<1>4. p \in Numbers /\ Len(p.digits) > 0 /\ Negatable(p)
    BY TrimmedIs, NotSignAlone
<1>5. /\ p.exp \in Int /\ Len(p.digits) \in Nat /\ Bottom(p) = p.exp - Len(p.digits) + 1
      /\ p.neg \in BOOLEAN
    BY <1>4, NumberIs DEF Bottom
<1>6. p.exp >= 0
    BY <1>4, <1>5
<1>7. (p.neg => w < 0) /\ (~p.neg => w >= 0)
    <2>1. Bottom(p) + 0 >= 0 /\ 0 \in Int
        BY <1>5
    <2>. QED BY <2>1, <1>4, ValueSign
<1>8. n \in Numbers /\ n.exp = p.exp /\ Len(n.digits) = Len(p.digits) /\ Bottom(n) = Bottom(p)
    BY <1>4, NegateIs DEF Opposite
<1>9. n.neg <=> w > 0
    <2>1. n.neg <=> Amount(p) > 0
        BY <1>4, NegateSign
    <2>2. p.neg => Amount(p) < 0
        BY <1>4, Negative
    <2>3. CASE p.neg
        BY <2>1, <2>2, <2>3, <1>4, <1>7, NumberIs
    <2>4. CASE ~p.neg
        <3>1. w = Amount(p) * Rank(Bottom(p))
            <4>1. Value(p, 0) = Amount(p) * Rank(Bottom(p) + 0)
                BY <1>4, ValueIs
            <4>2. Bottom(p) + 0 = Bottom(p)
                BY <1>5
            <4>. QED BY <4>1, <4>2
        <3>2. Amount(p) \in Nat
            BY <2>4, <1>4, Positive
        <3>3. Amount(p) # 0
            <4>1. Bottom(p) \in Nat
                BY <1>5
            <4>2. Rank(Bottom(p)) \in Nat
                BY <4>1, RankNext
            <4>3. 0 * Rank(Bottom(p)) = 0
                BY <4>2
            <4>. QED BY <4>3, <3>1
        <3>. QED BY <2>1, <2>4, <3>2, <3>3, <1>7
    <2>. QED BY <2>3, <2>4, <1>5
<1>. HIDE DEF a, n
<1>10. Summable(a, n)
    <2>1. CASE w < 0
        BY <2>1, <1>1, <1>9 DEF Summable
    <2>2. CASE w > 0
        <3>1. y >= 0
            BY <2>2
        <3>2. ~a.neg
            BY <3>1, <1>1, <1>2
        <3>3. a.exp <= n.exp
            BY <1>1, <1>6, <1>8
        <3>. QED BY <2>2, <3>2, <3>3, <1>9 DEF Summable
    <2>. QED BY <2>1, <2>2
<1>11. Value(r, 0) = v
    <2>1. /\ Bottom(a) + 0 >= 0 /\ Bottom(p) + 0 >= 0 /\ 0 \in Int
          /\ (a.neg => Len(a.digits) > 0) /\ Summable(a, negate(p))
        BY <1>1, <1>5, <1>10 DEF n
    <2>2. Value(Minus(a, p), 0) = Value(a, 0) - Value(p, 0)
        BY <2>1, <1>1, <1>4, MinusValue
    <2>. QED BY <2>2, <1>3
<1>12. Trimmed(r) /\ Bottom(r) >= 0
    <2>1. r \in Numbers /\ Trimmed(r) /\ Bottom(r) >= Least(Bottom(a), Bottom(p))
        BY <1>1, <1>4, MinusNumber
    <2>2. Least(Bottom(a), Bottom(p)) = 0
        BY <1>1, <1>5 DEF Least
    <2>. QED BY <2>1, <2>2
<1>. HIDE DEF r
<1>13. r = Small(v, 0)
    <2>1. Value(r, -0) = v /\ 0 \in Int
        BY <1>11
    <2>. QED BY <2>1, <1>12, SmallOnly
<1>. QED BY <1>13 DEF r, a

(* What a turn takes from a coefficient y, for a quotient q and the other   *)
(* coefficient z: the product is 0, or small, or is subtracted where that   *)
(* is exact.                                                                *)
Takeable(y, q, z) ==
    \/ q >= 0 /\ z >= 0 /\ q * z = 0
    \/ q * z # 0 /\ q * z \in Smalls
    \/ q * z < 0 /\ y - q * z # 0
    \/ q * z # 0 /\ y >= 0 /\ y - q * z # 0

(* What round() takes from a coefficient comes out exactly.                 *)
LEMMA TakenIs ==
    ASSUME NEW y \in Smalls, NEW q \in Smalls, NEW z \in Smalls, y - q * z \in Smalls,
           Takeable(y, q, z), NEW turn, turn.quotient = Small(q, 0)
    PROVE  Taken(Small(y, 0), turn, Small(z, 0)) = Small(y - q * z, 0)
<1>. DEFINE w == q * z
            p == Times(Small(q, 0), Small(z, 0))
            v == y - w
<1>1. w \in Int /\ y \in Int /\ q \in Int /\ z \in Int
    <2>1. q \in Int /\ z \in Int /\ y \in Int
        BY SmallDigitIs
    <2>. QED BY <2>1
<1>2. Taken(Small(y, 0), turn, Small(z, 0)) = Minus(Small(y, 0), p)
    BY DEF Taken
<1>3. v \in Smalls
    OBVIOUS
<1>4. ASSUME w \in Smalls, p = Small(w, 0) PROVE Minus(Small(y, 0), p) = Small(v, 0)
    <2>. HIDE DEF w, p
    <2>. QED BY <1>3, <1>4, SmallMinus DEF v
<1>5. CASE q >= 0 /\ z >= 0 /\ w = 0
    <2>1. p = Small(0, 0)
        BY <1>5, TimesZero
    <2>2. w \in Smalls
        BY <1>5, BaseIs DEF Smalls
    <2>. HIDE DEF w, p
    <2>. QED BY <2>1, <2>2, <1>2, <1>4, <1>5 DEF v, w
<1>6. CASE w # 0 /\ w \in Smalls
    <2>1. p = Small(w, 0)
        BY <1>6, TimesSmall
    <2>. HIDE DEF p
    <2>. QED BY <2>1, <1>2, <1>4, <1>6
<1>7. CASE (w < 0 \/ (w # 0 /\ y >= 0)) /\ v # 0
    <2>1. Trimmed(p) /\ Bottom(p) >= 0 /\ Value(p, 0) = w
        BY TimesSmallIs
    <2>2. ~SignAlone(p)
        BY TimesNotAlone
    <2>. HIDE DEF p, w
    <2>3. Minus(Small(y, 0), p) = Small(v, 0)
        <3>1. v = y - w /\ w \in Int /\ w = Value(p, 0)
            BY <2>1, <1>1
        <3>. HIDE DEF v
        <3>. QED BY <3>1, <2>1, <2>2, <1>3, <1>7, MinusWide
    <2>. QED BY <2>3, <1>2 DEF w
<1>. QED BY <1>5, <1>6, <1>7 DEF Takeable

(* The numbers 0 and 1, and those of fractions *)
LEMMA ZeroIs == 0 \in Smalls /\ Number(0) = Small(0, 0)
<1>1. 0 \in Smalls /\ SmallDigit(0) = 0
    BY BaseIs DEF Smalls, SmallDigit
<1>2. (0 < 0) = FALSE
    OBVIOUS
<1>3. Zero = Small(0, 0)
    BY <1>1, <1>2 DEF Zero, Small
<1>. QED BY <1>1, <1>3, NumberZero

(* Digital(n) of a digit is a small number. *)
LEMMA NumberSmall ==
    ASSUME NEW n \in Digit
    PROVE  n \in Smalls /\ Number(n) = Small(n, 0)
<1>. DEFINE d == [i \in 1..4 |-> (n \div Power(Base, 4 - i)) % Base]
            a == [neg |-> FALSE, exp |-> 3, digits |-> d]
<1>1. n \in Nat /\ n < Base /\ Base \in Nat /\ Base > 3 /\ n \in Smalls
    BY BaseIs DEF Smalls
<1>2. ASSUME NEW i \in 1..4 PROVE d[i] = IF i = 4 THEN n ELSE 0
    <2>. DEFINE r == Power(Base, 4 - i)
    <2>1. 4 - i \in Nat
        OBVIOUS
    <2>2. r \in Nat /\ r > 0 /\ (i # 4 => r >= Base) /\ (i = 4 => r = 1)
        <3>1. Rank(4 - i) \in Nat /\ Rank(4 - i) > 0
            BY <2>1, RankNext
        <3>2. CASE i = 4
            <4>1. 4 - i = 0
                BY <3>2
            <4>2. Rank(4 - i) = 1
                BY <4>1, Ranks0
            <4>3. r = 1
                BY <4>2 DEF Rank
            <4>. QED BY <4>3, <3>2
        <3>3. CASE i # 4
            <4>1. 3 - i \in Nat /\ (3 - i) + 1 = 4 - i
                BY <3>3
            <4>2. Rank(3 - i) \in Nat /\ Rank(3 - i) > 0 /\ Rank((3 - i) + 1) = Base * Rank(3 - i)
                BY <4>1, RankNext
            <4>. DEFINE u == Rank(3 - i)
            <4>3. u \in Nat /\ u > 0 /\ Rank(4 - i) = Base * u
                BY <4>1, <4>2
            <4>. HIDE DEF u
            <4>4. Base * u >= Base
                BY <4>3, <1>1
            <4>5. r = Base * u
                BY <4>3 DEF Rank
            <4>. HIDE DEF r
            <4>. QED BY <4>3, <4>4, <4>5, <1>1, <3>3
        <3>. QED BY <3>2, <3>3
    <2>3. d[i] = (n \div r) % Base
        OBVIOUS
    <2>. HIDE DEF r, d
    <2>4. n \div r = IF i = 4 THEN n ELSE 0
        <3>1. CASE i = 4
            BY <3>1, <2>2, <1>1
        <3>2. CASE i # 4
            <4>1. n = r * 0 + n /\ n \in 0..(r - 1) /\ r \in Nat \ {0}
                BY <3>2, <2>2, <1>1
            <4>. QED BY <4>1, <3>2, Divided2
        <3>. QED BY <3>1, <3>2
    <2>5. n % Base = n /\ 0 % Base = 0
        BY <1>1
    <2>. QED BY <2>3, <2>4, <2>5
<1>3. d \in Seq(Digit) /\ Len(d) = 4
    <2>1. d = [i \in 1..4 |-> d[i]]
        OBVIOUS
    <2>2. 4 \in Nat /\ 0 \in Digit
        BY BaseIs
    <2>. HIDE DEF d
    <2>3. d \in [1..4 -> Digit]
        BY <2>1, <2>2, <1>2
    <2>. QED BY <2>2, <2>3, MadeSeq
<1>4. a \in Numbers /\ ~a.neg /\ a.exp = 3 /\ a.digits = d
    <2>. HIDE DEF d
    <2>. QED BY <1>3 DEF Numbers
<1>5. Number(n) = trim(a)
    BY DEF Number
<1>. HIDE DEF a, d
<1>6. Bottom(a) = 0 /\ Len(a.digits) > 0
    <2>1. Len(a.digits) = 4
        BY <1>3, <1>4
    <2>2. Bottom(a) = 3 - 4 + 1
        BY <2>1, <1>4 DEF Bottom
    <2>. QED BY <2>1, <2>2
<1>7. Amount(a) = n
    <2>1. Amount(a) = Read(d, 4)
        BY <1>3, <1>4, Positive
    <2>2. 4 = 3 + 1 /\ 3 \in Nat
        OBVIOUS
    <2>3. Row(d, 3 + 1)
        BY <1>1, <1>2 DEF Row
    <2>4. Read(d, 3 + 1) = Read(d, 3) * Base + d[3 + 1]
        BY <2>2, <2>3, ReadNext
    <2>5. Read(d, 3) = 0
        <3>1. \A i \in 1..3 : d[i] = 0
            BY <1>2
        <3>. QED BY <2>2, <3>1, ReadZeros
    <2>6. d[4] = n
        BY <1>2
    <2>. QED BY <2>1, <2>2, <2>4, <2>5, <2>6, <1>1
<1>8. Value(a, 0) = n
    <2>1. Value(a, 0) = Amount(a) * Rank(Bottom(a) + 0)
        BY <1>4, ValueIs
    <2>2. Bottom(a) + 0 = 0
        BY <1>6
    <2>. QED BY <2>1, <2>2, <1>1, <1>7, Ranks0
<1>9. CASE n = 0
    BY <1>9, ZeroIs
<1>10. CASE n # 0
    <2>. DEFINE w == trim(a)
    <2>1. Trimmed(w) /\ Bottom(w) >= Bottom(a)
        BY <1>4, <1>6, TrimIs, TrimFits
    <2>2. Bottom(a) + 0 >= 0 /\ 0 \in Int
        <3>1. Bottom(a) + 0 = 0
            BY <1>6
        <3>. QED BY <3>1
    <2>3. Value(w, 0) = n
        BY <2>2, <1>4, <1>6, <1>8, TrimValue
    <2>4. Bottom(w) >= 0 /\ Value(w, -0) = n
        BY <2>1, <2>2, <2>3, <1>6
    <2>. HIDE DEF w
    <2>5. w = Small(n, 0)
        BY <2>1, <2>2, <2>4, <1>1, <1>10, SmallOnly
    <2>. QED BY <2>5, <1>1, <1>5 DEF w
<1>. QED BY <1>9, <1>10

(* A small number is zero if it is 0. *)
LEMMA IsZeroSmall ==
    ASSUME NEW v \in Smalls
    PROVE  IsZero(Small(v, 0)) <=> v = 0
<1>. DEFINE a == Small(v, 0)
<1>1. a \in Numbers /\ a.digits = <<SmallDigit(v)>> /\ (a.neg <=> v < 0) /\ a.exp = 0
    BY SmallIs DEF IsSmall
<1>2. v \in Int /\ (v # 0 => SmallDigit(v) # 0) /\ (v >= 0 => SmallDigit(v) = v)
    BY SmallDigitIs
<1>. HIDE DEF a
<1>3. IsZero(a) <=> ~a.neg /\ a.exp <= 0 /\ a.digits = << 0 >>
    BY <1>1, EqualsZero DEF IsZero
<1>. DEFINE g == SmallDigit(v)
<1>. HIDE DEF g
<1>4. a.digits = << 0 >> <=> g = 0
    BY <1>1 DEF g
<1>. QED BY <1>1, <1>2, <1>3, <1>4 DEF a, g

-------------------------------------------------------------------------------
(* Rational: a turn *)

(* the magnitude of n, and v with the sign that a divisor n gives it        *)
Magnitude1(n) == IF n < 0 THEN -n ELSE n
Minus1(n, v) == IF n < 0 THEN -v ELSE v

(* What div divides a small number by is its magnitude. *)
LEMMA MagnitudeSmall ==
    ASSUME NEW n \in Smalls, n # 0
    PROVE  /\ Magnitude1(n) \in 1..MAX /\ Magnitude(Small(n, 0)) = Magnitude1(n)
           /\ Single(Small(n, 0), Magnitude1(n))
<1>. DEFINE b == Small(n, 0)
            g == SmallDigit(n)
            f == Magnitude1(n)
<1>1. /\ b \in Numbers /\ Len(b.digits) = 1 /\ b.digits = <<g>> /\ b.digits[1] = g
      /\ (b.neg <=> n < 0) /\ Amount(b) = n
    BY SmallIs DEF IsSmall
<1>2. /\ n \in Int /\ g \in Digit /\ g # 0 /\ (n < 0 => g = Base + n) /\ (n >= 0 => g = n)
      /\ n <= MAX /\ -MAX <= n
    BY SmallDigitIs, BaseIs DEF Smalls
<1>3. f \in 1..MAX
    BY <1>2, BaseIs DEF Magnitude1
<1>4. Magnitude(b) = IF ~b.neg THEN g ELSE (-g) % Base
    <2>1. \A i \in 2..Len(b.digits) : b.digits[i] = 0
        BY <1>1
    <2>. HIDE DEF b, g
    <2>. QED BY <2>1, <1>1 DEF Magnitude
<1>. HIDE DEF b, g
<1>5. Magnitude(b) = f
    <2>1. CASE n < 0
        <3>1. (-g) % Base = Base - g
            BY <1>2, NegateDigit
        <3>2. Base - g = -n
            BY <1>2, <2>1, BaseIs
        <3>. QED BY <3>1, <3>2, <2>1, <1>1, <1>4 DEF Magnitude1
    <2>2. CASE n >= 0
        <3>1. ~(n < 0)
            BY <2>2, <1>2
        <3>. QED BY <3>1, <2>2, <1>1, <1>2, <1>4 DEF Magnitude1
    <2>. QED BY <2>1, <2>2, <1>2
<1>6. Single(b, f)
    <2>1. b.digits # << 0 >>
        BY <1>1, <1>2
    <2>2. Amount(b) = IF b.neg THEN -f ELSE f
        <3>1. n = IF n < 0 THEN -f ELSE f
            BY <1>2 DEF Magnitude1
        <3>. QED BY <3>1, <1>1
    <2>. HIDE DEF f
    <2>. QED BY <2>1, <2>2, <1>1, <1>3 DEF Single
<1>. QED BY <1>3, <1>5, <1>6 DEF b

(* A quotient H of m by f leaves the rest r: less than f, or, rounded, the  *)
(* rest that the last digit has is at least almost a half.                  *)
Leaving(m, f, H, round, r) ==
    /\ H \in Digit /\ r \in Int /\ r = m - f * H
    /\ \/ 0 <= r /\ r < f
       \/ round /\ r < 0 /\ -r < f /\ f * (Base - 2) <= 2 * (f + r) * Base
(* The digit that div estimates leaves less than the divisor, or as much   *)
(* too little if it was rounded.                                            *)
LEMMA HighLeaves ==
    ASSUME NEW m \in Digit, NEW f \in 1..MAX, NEW round \in BOOLEAN,
           NEW H, H = High((m * Base) \div f, TRUE, round)
    PROVE  Leaving(m, f, H, round, m - f * H) /\ (m # 0 => (m * Base) \div f # 0)
<1>1. PICK h, t, k, l : Guess(m, f, h, t, k, l)
    BY Guesses
<1>. DEFINE wide == (m * Base) \div f
<1>2. /\ f \in Nat /\ f > 0 /\ f < Base /\ Base \in Nat /\ Base > 3 /\ h \in Nat /\ k \in Nat
      /\ t \in Nat /\ l \in Nat /\ t < f /\ m \in Nat /\ h \in Digit
    BY <1>1, BaseIs DEF Guess
<1>3. /\ m = f * h + t /\ t * Base = f * k + l
      /\ wide = h * Base + k /\ wide \div Base = h /\ wide % Base = k
    BY <1>1 DEF Guess
<1>4. m # 0 => wide # 0
    BY <1>1, <1>3, GuessIs
<1>5. H = h \/ (round /\ H = (h + 1) % Base /\ k >= MAX \div 2)
    BY <1>3 DEF High
<1>. HIDE DEF wide
<1>6. CASE H = h
    <2>1. m - f * H = t
        <3>. DEFINE u == f * h
        <3>1. u \in Int
            BY <1>2
        <3>2. m = u + t
            BY <1>3
        <3>. HIDE DEF u
        <3>3. m - u = t
            BY <3>1, <3>2, <1>2
        <3>. QED BY <3>3, <1>6 DEF u
    <2>2. t \in Int /\ 0 <= t
        BY <1>2
    <2>3. Leaving(m, f, H, round, t)
        BY <2>1, <2>2, <1>2, <1>6 DEF Leaving
    <2>. QED BY <2>1, <2>3, <1>4 DEF wide
<1>7. CASE round /\ H = (h + 1) % Base /\ k >= MAX \div 2
    <2>1. MAX \div 2 \in Int /\ 2 * (MAX \div 2) = Base - 2
        <3>1. Bits \in Nat /\ Bits - 1 \in Nat /\ (Bits - 1) + 1 = Bits /\ 2 \in Int
            BY BitsIs
        <3>2. Power(2, Bits - 1) \in Int /\ Power(2, (Bits - 1) + 1) = 2 * Power(2, Bits - 1)
            BY <3>1, PowerNext
        <3>. DEFINE w == Power(2, Bits - 1)
        <3>3. w \in Int /\ Base = 2 * w
            BY <3>1, <3>2, BitsIs
        <3>. HIDE DEF w
        <3>4. MAX = 2 * (w - 1) + 1 /\ w - 1 \in Int /\ 1 \in 0..(2 - 1) /\ 2 \in Nat \ {0}
            BY <3>3, BaseIs
        <3>5. MAX \div 2 = w - 1
            BY <3>4, Divided2
        <3>. QED BY <3>3, <3>5
    <2>. DEFINE c == MAX \div 2
    <2>2. c \in Int /\ 2 * c = Base - 2 /\ k >= c /\ c > 0
        BY <2>1, <1>2, <1>7
    <2>. HIDE DEF c
    <2>3. k # 0
        BY <2>2, <1>2
    <2>4. t # 0 /\ h + 1 \in Digit
        BY <2>3, <1>1, GuessIs
    <2>5. H = h + 1
        <3>1. (h + 1) % Base = h + 1
            BY <2>4, BaseIs
        <3>. QED BY <3>1, <1>7
    <2>6. m - f * H = t - f
        <3>. DEFINE u == f * h
        <3>1. u \in Int /\ f * (h + 1) = u + f
            BY <1>2
        <3>2. m = u + t
            BY <1>3
        <3>. HIDE DEF u
        <3>3. m - (u + f) = t - f
            BY <3>1, <3>2, <1>2
        <3>. QED BY <3>1, <3>3, <2>5
    <2>7. f * (Base - 2) <= 2 * (f + (t - f)) * Base
        <3>1. f * k >= f * c
            BY <2>2, <1>2
        <3>2. f * k \in Int /\ f * c \in Int /\ t * Base \in Int
            BY <2>2, <1>2
        <3>3. t * Base >= f * c
            BY <3>1, <3>2, <1>2, <1>3
        <3>4. 2 * (f * c) = f * (Base - 2)
            <4>1. 2 * (f * c) = f * (2 * c)
                BY <2>2, <1>2
            <4>. QED BY <4>1, <2>2
        <3>5. 2 * (f + (t - f)) * Base = 2 * (t * Base)
            <4>1. f + (t - f) = t
                BY <1>2
            <4>2. 2 * t * Base = 2 * (t * Base)
                BY <1>2
            <4>. QED BY <4>1, <4>2
        <3>6. 2 * (f * c) <= 2 * (t * Base)
            BY <3>2, <3>3
        <3>. QED BY <3>4, <3>5, <3>6
    <2>8. t - f < 0 /\ -(t - f) < f /\ t - f \in Int
        BY <2>4, <1>2
    <2>. HIDE DEF wide
    <2>9. Leaving(m, f, H, round, m - f * H)
        BY <2>4, <2>5, <2>6, <2>7, <2>8, <1>7 DEF Leaving
    <2>. QED BY <2>9, <1>4 DEF wide
<1>. QED BY <1>5, <1>6, <1>7

(* What is taken from the remainder for one digit is a small number. *)
LEMMA LessSmall ==
    ASSUME NEW n \in Smalls, NEW H \in Digit, H # 0, NEW wide \in Int, wide # 0
    PROVE  /\ H \in Smalls /\ -H \in Smalls
           /\ Less(Small(n, 0), <<H>>, 0, wide) = Small(IF n < 0 THEN H ELSE -H, 0)
<1>. DEFINE b == Small(n, 0)
            q == <<H>>
            c == Less(b, q, 0, wide)
<1>1. b \in Numbers /\ (b.neg <=> n < 0)
    BY SmallIs DEF IsSmall
<1>2. H \in Int /\ 0 < H /\ H <= MAX /\ H < Base /\ H \in Smalls /\ -H \in Smalls /\ Base \in Nat
    BY BaseIs DEF Smalls
<1>3. q \in Seq(Digit) /\ Len(q) = 1 /\ q[1] = H
    OBVIOUS
<1>. HIDE DEF b, q
<1>4. c \in Numbers /\ Len(c.digits) > 0
    BY <1>1, <1>3, LessNumber, SMTT(30)
<1>5. CASE n < 0
    <2>1. c = [neg |-> FALSE, exp |-> 0, digits |-> q]
        BY <1>1, <1>5 DEF Less
    <2>2. ~c.neg /\ c.exp = 0 /\ c.digits = q
        BY <2>1
    <2>3. SmallDigit(H) = H /\ ~(H < 0) /\ 0 \in Int
        BY <1>2 DEF SmallDigit
    <2>. HIDE DEF c
    <2>4. c = Small(H, 0)
        BY <2>2, <2>3, <1>2, <1>3, <1>4, SmallFrom
    <2>. QED BY <2>4, <1>2, <1>5 DEF c, b, q
<1>6. CASE ~(n < 0)
    <2>1. c = [neg |-> wide # 0, exp |-> 0,
               digits |-> [i \in DOMAIN q |-> IF i = Len(q) THEN (-q[i]) % Base ELSE MAX - q[i]]]
        BY <1>1, <1>6 DEF Less
    <2>2. c.neg /\ c.exp = 0
        <3>. HIDE DEF c
        <3>. QED BY <2>1
    <2>3. c.digits = [i \in 1..1 |-> IF i = Len(q) THEN (-q[i]) % Base ELSE MAX - q[i]]
        <3>1. DOMAIN q = 1..1
            BY <1>3
        <3>. QED BY <3>1, <2>1
    <2>4. Len(c.digits) = 1 /\ c.digits[1] = (-H) % Base
        <3>1. DOMAIN c.digits = 1..1
            BY <2>3
        <3>2. c.digits \in Seq(Digit)
            BY <1>4, NumberIs
        <3>3. Len(c.digits) = 1
            <4>. DEFINE d == c.digits
            <4>1. d \in Seq(Digit) /\ DOMAIN d = 1..1
                BY <3>1, <3>2
            <4>. HIDE DEF d
            <4>2. Len(d) = 1
                BY <4>1
            <4>. QED BY <4>2 DEF d
        <3>4. 1 \in 1..1
            OBVIOUS
        <3>5. c.digits[1] = IF 1 = Len(q) THEN (-q[1]) % Base ELSE MAX - q[1]
            BY <2>3, <3>4
        <3>. QED BY <3>3, <3>5, <1>3
    <2>5. (-H) % Base = SmallDigit(-H) /\ -H < 0 /\ 0 \in Int
        <3>1. (-H) % Base = Base - H
            BY NegateDigit
        <3>2. -H < 0 /\ Base + (-H) = Base - H
            BY <1>2
        <3>. QED BY <3>1, <3>2 DEF SmallDigit
    <2>. HIDE DEF c
    <2>6. c = Small(-H, 0)
        BY <2>2, <2>4, <2>5, <1>2, <1>4, SmallFrom
    <2>. QED BY <2>6, <1>2, <1>6 DEF c, b, q
<1>. QED BY <1>5, <1>6

(* What is left of a small number is one. *)
LEMMA RestSmall ==
    ASSUME NEW m \in 1..MAX, NEW n \in Smalls, n # 0, NEW H \in Digit, H # 0,
           NEW f, f = Magnitude1(n), m - f * H \in Smalls, NEW wide \in Int, wide # 0
    PROVE  Plus(Small(m, 0), Times(Small(n, 0), Less(Small(n, 0), <<H>>, 0, wide)))
           = Small(m - f * H, 0)
<1>. DEFINE a == Small(m, 0)
            b == Small(n, 0)
            q == <<H>>
            z == IF n < 0 THEN H ELSE -H
            v == m - f * H
            y == Plus(a, Times(b, Less(b, q, 0, wide)))
<1>1. /\ m \in Int /\ m > 0 /\ m \in Smalls /\ m \in Digit /\ -m \in Smalls /\ m # 0
      /\ H \in Int /\ H > 0 /\ n \in Int
    BY BaseIs, SmallDigitIs DEF Smalls
<1>2. f \in 1..MAX /\ f \in Int /\ Magnitude(b) = f /\ Single(b, f)
    BY MagnitudeSmall
<1>3. CASE v # 0
    <2>1. IsDigit(a, m, 0)
        <3>1. SmallDigit(m) = m
            BY <1>1, SmallDigitIs
        <3>2. a \in Numbers /\ (a.neg <=> m < 0) /\ a.digits = <<SmallDigit(m)>> /\ a.exp = 0
            BY <1>1, SmallIs DEF IsSmall
        <3>. HIDE DEF a
        <3>. QED BY <3>1, <3>2, <1>1 DEF IsDigit
    <2>2. q \in Seq(Digit) /\ Len(q) = 1 /\ q[Len(q)] # 0
        OBVIOUS
    <2>3. b.exp = 0
        BY SmallIs DEF IsSmall
    <2>. HIDE DEF a, b, q, v
    <2>4. Reduces(y, m, 0, f, q)
        <3>1. Len(q) \in 1..2 /\ 0 \in Int /\ 0 = 0 - b.exp
            BY <2>2, <2>3
        <3>. QED BY <2>1, <2>2, <3>1, <1>1, <1>2, Reduced
    <2>5. Trimmed(y) /\ Bottom(y) >= 0
        <3>1. 0 - Len(q) + 1 = 0
            BY <2>2
        <3>. HIDE DEF y
        <3>. QED BY <2>4, <3>1 DEF Reduces
    <2>6. Value(y, 0) = v
        <3>1. 0 - Len(q) + 1 + 0 = 0 /\ 0 \in Int /\ 0 >= 0 /\ Len(q) - 1 = 0
            BY <2>2
        <3>2. Value(y, 0) = (m * Rank(Len(q) - 1) - f * Read(q, Len(q))) * Rank(0 - Len(q) + 1 + 0)
            <4>. HIDE DEF y
            <4>. QED BY <2>4, <3>1 DEF Reduces
        <3>3. Read(q, Len(q)) = H
            <4>1. Read(<<H>>, 1) = H
                BY BaseIs, ReadFew
            <4>. QED BY <4>1, <2>2 DEF q
        <3>4. Value(y, 0) = (m * 1 - f * H) * 1
            <4>. HIDE DEF y
            <4>. QED BY <3>1, <3>2, <3>3, Ranks0
        <3>5. (m * 1 - f * H) * 1 = m - f * H
            BY <1>1, <1>2
        <3>. QED BY <3>4, <3>5 DEF v
    <2>. HIDE DEF y
    <2>7. y = Small(v, 0)
        <3>1. 0 \in Int /\ Value(y, -0) = v /\ v \in Smalls
            BY <2>6 DEF v
        <3>. QED BY <3>1, <2>5, <1>3, SmallOnly DEF v
    <2>. QED BY <2>7 DEF y, v, a, b, q
<1>4. CASE v = 0
    <2>1. Less(b, q, 0, wide) = Small(z, 0) /\ z \in Smalls
        BY LessSmall
    <2>2. f * H = m
        <3>. DEFINE u == f * H
        <3>1. u \in Int
            BY <1>1, <1>2
        <3>. HIDE DEF u
        <3>2. u = m
            BY <3>1, <1>1, <1>4 DEF u
        <3>. QED BY <3>2 DEF u
    <2>3. n * z = -m
        <3>1. CASE n < 0
            <4>1. n = -f /\ z = H
                BY <3>1, <1>1, <1>2 DEF Magnitude1
            <4>2. (-f) * H = -(f * H)
                BY <1>1, <1>2
            <4>. QED BY <4>1, <4>2, <2>2
        <3>2. CASE ~(n < 0)
            <4>1. n = f /\ z = -H
                BY <3>2, <1>1, <1>2 DEF Magnitude1
            <4>2. f * (-H) = -(f * H)
                BY <1>1, <1>2
            <4>. QED BY <4>1, <4>2, <2>2
        <3>. QED BY <3>1, <3>2
    <2>. HIDE DEF z
    <2>4. Times(b, Small(z, 0)) = Small(-m, 0)
        <3>1. n * z \in Smalls /\ n * z # 0
            BY <2>3, <1>1
        <3>2. Times(b, Small(z, 0)) = Small(n * z, 0)
            BY <3>1, <2>1, TimesSmall
        <3>. QED BY <3>2, <2>3
    <2>5. Plus(a, Small(-m, 0)) = Small(0, 0)
        <3>1. m + (-m) = 0 /\ 0 \in Smalls /\ 0 \in Int
            BY <1>1, ZeroIs
        <3>2. Plus(a, Small(-m, 0)) = Small(m + (-m), 0)
            <4>1. m + (-m) \in Smalls
                BY <3>1
            <4>. QED BY <4>1, <3>1, <1>1, SmallPlus
        <3>. QED BY <3>1, <3>2
    <2>. HIDE DEF a, b, q, v
    <2>6. y = Small(v, 0)
        BY <2>1, <2>4, <2>5, <1>4
    <2>. QED BY <2>6 DEF y, v, a, b, q
<1>. QED BY <1>3, <1>4

(* The quotient begins as 0 and takes a digit, or none. *)
LEMMA FirstRecorded ==
    ASSUME NEW H \in Digit
    PROVE  Recorded(Small(0, 0), H, 0) = Small(H, 0)
<1>. DEFINE a == Small(0, 0)
            w == Recorded(a, H, 0)
<1>1. H \in Smalls /\ SmallDigit(H) = H /\ H \in Int /\ ~(H < 0) /\ 0 \in Smalls /\ 0 \in Int
    BY BaseIs DEF Smalls, SmallDigit
<1>2. a \in Numbers /\ ~a.neg /\ a.exp = 0 /\ a.digits = << 0 >> /\ Len(a.digits) = 1
    <2>1. /\ a \in Numbers /\ Len(a.digits) = 1 /\ a.digits = <<SmallDigit(0)>>
          /\ (a.neg <=> 0 < 0) /\ a.exp = 0
        BY <1>1, SmallIs DEF IsSmall
    <2>2. SmallDigit(0) = 0
        BY DEF SmallDigit
    <2>. HIDE DEF a
    <2>. QED BY <2>1, <2>2
<1>. HIDE DEF a
<1>3. CASE H # 0
    <2>1. w = add(a, H, a.exp)
        BY <1>2, <1>3 DEF Recorded
    <2>2. w \in Numbers /\ ~w.neg /\ w.exp = 0 /\ w.digits = <<H>>
        BY <2>1, <1>2, <1>3, FirstHigh
    <2>. HIDE DEF w
    <2>3. Len(w.digits) = 1 /\ w.digits[1] = H
        BY <2>2
    <2>4. w = Small(H, 0)
        BY <2>2, <2>3, <1>1, SmallFrom
    <2>. QED BY <2>4 DEF w, a
<1>4. CASE H = 0
    <2>1. w = [a EXCEPT !.digits = @ \o Repeat(Max({0, a.exp - Len(@) - 0}), 0)]
        BY <1>4 DEF Recorded
    <2>2. Max({0, a.exp - Len(a.digits) - 0}) = 0
        <3>1. a.exp - Len(a.digits) - 0 = -1 /\ -1 \in Int /\ 0 \in Int
            BY <1>2
        <3>2. Max({0, -1}) = 0
            BY <3>1, LargerOf
        <3>. QED BY <3>1, <3>2
    <2>3. Repeat(0, 0) = << >>
        BY DEF Repeat
    <2>4. a.digits \o << >> = a.digits
        BY <1>2
    <2>5. w = [a EXCEPT !.digits = a.digits]
        BY <2>1, <2>2, <2>3, <2>4
    <2>6. w = a
        BY <2>5, <1>2 DEF Numbers
    <2>. QED BY <2>6, <1>4 DEF a, w
<1>. QED BY <1>3, <1>4

(* div divides one digit by another: the quotient is a digit, or a digit    *)
(* with a sign, and the remainder what is left, with the divisor's sign.    *)
LEMMA DivSmall ==
    ASSUME NEW m \in 1..MAX, NEW n \in Smalls, n # 0, NEW f, f = Magnitude1(n), NEW round \in BOOLEAN
    PROVE  \E H : /\ Leaving(m, f, H, round, m - f * H)
                  /\ Minus1(n, H) \in Smalls /\ Minus1(n, m - f * H) \in Smalls
                  /\ div(Small(m, 0), Small(n, 0), 0, round)
                     = [quotient |-> Small(Minus1(n, H), 0), remainder |-> Small(Minus1(n, m - f * H), 0)]
<1>. DEFINE a == Small(m, 0)
            b == Small(n, 0)
            wide == (m * Base) \div f
            H == High(wide, TRUE, round)
            v == m - f * H
<1>1. /\ m \in Int /\ m > 0 /\ m \in Smalls /\ m \in Digit /\ m # 0 /\ n \in Int
      /\ 0 \in Int /\ 0 \in Nat /\ 0 \in Smalls
    BY BaseIs, SmallDigitIs DEF Smalls
<1>2. f \in 1..MAX /\ f \in Int /\ f > 0 /\ Magnitude(b) = f
    BY MagnitudeSmall
<1>3. /\ a \in Numbers /\ a.neg = FALSE /\ a.exp = 0 /\ a.digits = <<m>> /\ a.digits[1] = m
      /\ Len(a.digits) > 0
    <2>1. /\ a \in Numbers /\ Len(a.digits) = 1 /\ a.digits = <<SmallDigit(m)>>
          /\ (a.neg <=> m < 0) /\ a.exp = 0
        BY <1>1, SmallIs DEF IsSmall
    <2>2. SmallDigit(m) = m
        BY <1>1 DEF SmallDigit
    <2>. HIDE DEF a
    <2>3. a.neg \in BOOLEAN /\ ~a.neg
        BY <2>1, <1>1, NumberIs
    <2>. QED BY <2>1, <2>2, <2>3
<1>4. b \in Numbers /\ (b.neg <=> n < 0) /\ b.exp = 0 /\ Len(b.digits) > 0 /\ b.neg \in BOOLEAN
    <2>1. b \in Numbers /\ Len(b.digits) = 1 /\ (b.neg <=> n < 0) /\ b.exp = 0
        BY <1>1, SmallIs DEF IsSmall
    <2>. HIDE DEF b
    <2>. QED BY <2>1, NumberIs
<1>5. Leaving(m, f, H, round, v) /\ wide # 0
    BY <1>1, <1>2, HighLeaves
<1>6. ~cmp(a, Number(0), "Eq")
    BY <1>1, IsZeroSmall DEF IsZero
<1>7. PICK h : LoopsDone(h, a, b, 0, round) /\ div(a, b, 0, round) = Returned(h[0 + 1], a, b)
    <2>. HIDE DEF a, b
    <2>1. Magnitude(b) # 0
        BY <1>2
    <2>. QED BY <2>1, <1>1, <1>3, <1>4, <1>6, DivUnrolled
<1>8. wide \in Int /\ H \in Digit /\ v \in Int /\ H \in Int /\ v \in Smalls /\ H \in Smalls /\ -v \in Smalls /\ -H \in Smalls
    <2>1. wide \in Int /\ H \in Digit
        BY <1>1, <1>2, <1>5, EstimateDigits DEF Leaving
    <2>2. v \in Int /\ v < f /\ -v < f
        <3>. HIDE DEF H, v, wide
        <3>1. v \in Int /\ ((0 <= v /\ v < f) \/ (v < 0 /\ -v < f))
            BY <1>5 DEF Leaving
        <3>. QED BY <3>1, <1>2
    <2>3. v \in Smalls /\ -v \in Smalls
        <3>. HIDE DEF v
        <3>. QED BY <2>2, <1>2, BaseIs DEF Smalls
    <2>4. H \in Smalls /\ -H \in Smalls /\ H \in Int
        <3>. HIDE DEF H
        <3>. QED BY <2>1, BaseIs DEF Smalls
    <2>. QED BY <2>1, <2>2, <2>3, <2>4
<1>9. h[0].res = Small(0, 0) /\ h[0].rem = a
    <2>1. h[0] = Beginning(a, b)
        BY <1>7 DEF LoopsDone
    <2>2. [neg |-> FALSE, exp |-> a.exp - b.exp, digits |-> << 0 >>] = Small(0, 0)
        <3>1. a.exp - b.exp = 0
            BY <1>3, <1>4
        <3>2. Zero = Small(0, 0)
            BY ZeroIs, NumberZero
        <3>. QED BY <3>1, <3>2 DEF Zero
    <2>. HIDE DEF a, b
    <2>. QED BY <2>1, <2>2, <1>3 DEF Beginning
<1>10. h[1] = Divided(h[0], b, 0, wide, H, 0)
    <2>. HIDE DEF a, b
    <2>1. 1 \in 1..(0 + 1) /\ 1 - 1 = 0 /\ 1 = 0 + 1
        OBVIOUS
    <2>2. h[1] = Looped(h[1 - 1], a, b, 1, 0, round)
        BY <2>1, <1>7 DEF LoopsDone
    <2>3. a.exp - b.exp - 1 + 1 = 0
        BY <1>3, <1>4
    <2>4. h[1] = Division(h[0], b, 0, TRUE, TRUE, round)
        BY <2>1, <2>2, <2>3 DEF Looped
    <2>5. h[1] = Estimated(h[0], b, 0, (a.digits[1] * Base) \div Magnitude(b), TRUE, round)
        BY <2>4, <1>9 DEF Division
    <2>6. h[1] = Estimated(h[0], b, 0, wide, TRUE, round)
        BY <2>5, <1>2, <1>3
    <2>7. Low(wide, TRUE) = 0
        BY DEF Low
    <2>. HIDE DEF wide
    <2>. QED BY <2>6, <2>7 DEF Estimated, H
<1>11. h[1].res = Small(H, 0) /\ h[1].rem = Small(v, 0)
    <2>. DEFINE s == h[0]
    <2>1. Recorded(s.res, H, 0) = Small(H, 0)
        <3>. HIDE DEF H
        <3>. QED BY <1>8, <1>9, FirstRecorded
    <2>2. CASE H = 0
        <3>1. h[1] = [s EXCEPT !.res = Recorded(@, 0, 0)]
            <4>. HIDE DEF H, wide, b
            <4>. QED BY <2>2, <1>10 DEF Divided
        <3>2. s \in [res : Numbers, rem : Numbers]
            <4>1. s = Beginning(a, b)
                BY <1>7 DEF LoopsDone
            <4>2. Proper(Beginning(a, b))
                <5>. HIDE DEF a, b
                <5>. QED BY <1>3, <1>4, BeginningProper
            <4>. HIDE DEF a, b, s
            <4>. QED BY <4>1, <4>2 DEF Proper
        <3>3. v = m
            <4>1. f * 0 = 0
                BY <1>2
            <4>. HIDE DEF H
            <4>. QED BY <4>1, <2>2, <1>1
        <3>. HIDE DEF H, v, a, s
        <3>4. h[1].res = Recorded(s.res, 0, 0) /\ h[1].rem = s.rem
            BY <3>1, <3>2
        <3>5. h[1].rem = Small(m, 0)
            BY <3>4, <1>9 DEF s, a
        <3>. QED BY <3>3, <3>4, <3>5, <2>1, <2>2
    <2>3. CASE H # 0
        <3>1. h[1] = [res |-> Recorded(s.res, H, 0), rem |-> Plus(s.rem, Times(b, Less(b, <<H>>, 0, wide)))]
            <4>. HIDE DEF H, wide, b
            <4>. QED BY <2>3, <1>10 DEF Divided
        <3>2. Plus(a, Times(b, Less(b, <<H>>, 0, wide))) = Small(v, 0)
            <4>. HIDE DEF H, wide
            <4>. QED BY <2>3, <1>1, <1>5, <1>8, RestSmall
        <3>. HIDE DEF H, v, wide, a, b
        <3>. QED BY <3>1, <3>2, <2>1, <1>9
    <2>. QED BY <2>2, <2>3
<1>12. trim(Small(H, 0)) = Small(H, 0) /\ trim(Small(-H, 0)) = Small(-H, 0)
    <2>. HIDE DEF H
    <2>1. \A u \in Smalls : trim(Small(u, 0)) = Small(u, 0)
        BY <1>1, SmallIs, OneTrim DEF IsSmall
    <2>. QED BY <2>1, <1>8
<1>13. negate(Small(H, 0)) = Small(-H, 0) /\ negate(Small(v, 0)) = Small(-v, 0)
    <2>. HIDE DEF H, v
    <2>. QED BY <1>1, <1>8, SmallNegate
<1>14. div(a, b, 0, round) = [quotient |-> Small(Minus1(n, H), 0), remainder |-> Small(Minus1(n, v), 0)]
    <2>1. 0 + 1 = 1
        OBVIOUS
    <2>2. div(a, b, 0, round) = Returned(h[1], a, b)
        BY <2>1, <1>7
    <2>. HIDE DEF a, b, H, v
    <2>3. CASE n < 0
        <3>1. b.neg # a.neg
            BY <2>3, <1>3, <1>4
        <3>2. Minus1(n, H) = -H /\ Minus1(n, v) = -v
            BY <2>3 DEF Minus1
        <3>3. a.neg # b.neg
            BY <3>1
        <3>. QED BY <2>2, <3>2, <3>3, <1>11, <1>12, <1>13 DEF Returned
    <2>4. CASE ~(n < 0)
        <3>1. b.neg = FALSE
            BY <2>4, <1>4
        <3>2. Minus1(n, H) = H /\ Minus1(n, v) = v
            BY <2>4 DEF Minus1
        <3>3. a.neg = b.neg
            BY <3>1, <1>3
        <3>. QED BY <2>2, <3>2, <3>3, <1>11, <1>12 DEF Returned
    <2>. QED BY <2>3, <2>4
<1>15. Minus1(n, H) \in Smalls /\ Minus1(n, v) \in Smalls
    <2>. HIDE DEF H, v
    <2>. QED BY <1>8 DEF Minus1
<1>. QED BY <1>5, <1>14, <1>15

(* Nothing is left of 0. *)
LEMMA DivZero ==
    ASSUME NEW b, NEW round
    PROVE  div(Small(0, 0), b, 0, round) = [quotient |-> Small(0, 0), remainder |-> Small(0, 0)]
<1>1. cmp(Small(0, 0), Number(0), "Eq")
    BY ZeroIs, IsZeroSmall DEF IsZero
<1>. QED BY <1>1, ZeroIs DEF div

-------------------------------------------------------------------------------
(* Rational: the remainders and the coefficients *)

(* the dividends of a fraction n / m, by its coefficients                   *)
Combines(num, den, a, b, c, d, n, m) ==
    num = a * n + b * m /\ den = c * m + d * n /\ a * c - b * d = 1

(* ... and the fraction by its dividends and coefficients                   *)
Recovered(num, den, a, b, c, d, n, m) == m = den * a - d * num /\ n = c * num - den * b

(* The fraction, from what is left of it. *)
LEMMA Recovers ==
    ASSUME NEW num \in Int, NEW den \in Int, NEW a \in Int, NEW b \in Int, NEW c \in Int, NEW d \in Int,
           NEW n \in Int, NEW m \in Int, Combines(num, den, a, b, c, d, n, m)
    PROVE  Recovered(num, den, a, b, c, d, n, m)
<1>1. /\ (c * m + d * n) * a - d * (a * n + b * m) = (a * c - b * d) * m
      /\ c * (a * n + b * m) - (c * m + d * n) * b = (a * c - b * d) * n
    OBVIOUS
<1>. DEFINE k == a * c - b * d
<1>2. num = a * n + b * m /\ den = c * m + d * n /\ k = 1
    BY DEF Combines
<1>3. den * a - d * num = k * m /\ c * num - den * b = k * n
    <2>. HIDE DEF k
    <2>. QED BY <1>1, <1>2 DEF k
<1>. HIDE DEF k
<1>4. k * m = m /\ k * n = n
    BY <1>2
<1>. QED BY <1>3, <1>4 DEF Recovered

(* a quotient without its last unit, if that rounded it                     *)
Unrounded1(H, r) == IF r < 0 THEN H - 1 ELSE H

(* p is k times f and t, and H and r are k and t or were rounded up         *)
LeavingBy(p, f, H, round, r, k, t) ==
    /\ k = Unrounded1(H, r) /\ k \in Int /\ t \in Int /\ 0 <= t /\ t < f /\ p = f * k + t
    /\ r >= 0 => k = H /\ t = r
    /\ r < 0 => k = H - 1 /\ t = f + r /\ t > 0 /\ f * (Base - 2) <= 2 * t * Base /\ round

(* What a turn leaves, in terms of the quotient that was not rounded. *)
LEMMA LeavingIs ==
    ASSUME NEW p \in Int, NEW f \in Nat, f > 0, NEW H, NEW round \in BOOLEAN, NEW r, Leaving(p, f, H, round, r)
    PROVE  \E k, t : LeavingBy(p, f, H, round, r, k, t)
<1>1. H \in Int /\ r \in Int /\ r = p - f * H /\ H \in Digit
    BY BaseIs DEF Leaving
<1>2. CASE r >= 0
    <2>1. p = f * H + r
        <3>. DEFINE u == f * H
        <3>1. u \in Int /\ r = p - u
            BY <1>1
        <3>. HIDE DEF u
        <3>2. p = u + r
            BY <3>1, <1>1
        <3>. QED BY <3>2 DEF u
    <2>2. Unrounded1(H, r) = H
        BY <1>1, <1>2 DEF Unrounded1
    <2>3. r < f
        <3>1. ~(r < 0)
            BY <1>1, <1>2
        <3>. QED BY <3>1 DEF Leaving
    <2>4. LeavingBy(p, f, H, round, r, H, r)
        BY <2>1, <2>2, <2>3, <1>1, <1>2 DEF LeavingBy
    <2>. QED BY <2>4
<1>3. CASE r < 0
    <2>. DEFINE k == H - 1
                t == f + r
    <2>1. p = f * k + t
        <3>. DEFINE u == f * H
        <3>1. u \in Int /\ r = p - u /\ f * k = u - f
            BY <1>1
        <3>. HIDE DEF u, k
        <3>2. p = (u - f) + t
            BY <3>1, <1>1
        <3>. QED BY <3>1, <3>2
    <2>2. Unrounded1(H, r) = k
        BY <1>3 DEF Unrounded1
    <2>3. -r < f /\ f * (Base - 2) <= 2 * t * Base /\ round
        <3>1. ~(0 <= r)
            BY <1>1, <1>3
        <3>. QED BY <3>1 DEF Leaving
    <2>4. k \in Int /\ t \in Int /\ 0 <= t /\ t < f /\ t > 0
        BY <2>3, <1>1, <1>3
    <2>. HIDE DEF k, t
    <2>5. /\ r >= 0 => k = H /\ t = r
          /\ r < 0 => k = H - 1 /\ t = f + r
        BY <1>1, <1>3 DEF k, t
    <2>6. LeavingBy(p, f, H, round, r, k, t)
        BY <2>1, <2>2, <2>3, <2>4, <2>5 DEF LeavingBy
    <2>. QED BY <2>6
<1>. QED BY <1>1, <1>2, <1>3

(* a coefficient w, after a turn that added k or one more times u to it     *)
Shrunk(f, k, t, w, u, m) ==
    /\ w + k * u <= m
    /\ t > 0 => w + (k + 1) * u <= m
    /\ m = f * (w + k * u) + u * t
    /\ w + (k + 1) * u = (w + k * u) + u

(* The coefficients stay below the fraction's numbers: one that a turn      *)
(* adds to, and that is not negative without what rounding adds.            *)
LEMMA Shrinks ==
    ASSUME NEW f \in Nat, f > 0, NEW k \in Int, NEW t \in Int, 0 <= t, NEW p, p = f * k + t,
           NEW w \in Int, NEW u \in Nat, w + k * u >= 0, NEW m, m = f * w + u * p
    PROVE  Shrunk(f, k, t, w, u, m)
<1>. DEFINE e == w + k * u
<1>1. f * w + u * (f * k + t) = f * (w + k * u) + u * t
    OBVIOUS
<1>2. w + (k + 1) * u = e + u
    OBVIOUS
<1>3. e \in Int /\ e >= 0
    OBVIOUS
<1>4. f * w + u * p = f * e + u * t
    BY <1>1
<1>. HIDE DEF e
<1>5. f * e >= e /\ f * e \in Int
    BY <1>3
<1>6. u * t >= 0 /\ u * t \in Int
    OBVIOUS
<1>7. t > 0 => u * t >= u
    OBVIOUS
<1>8. e <= m /\ (t > 0 => e + u <= m)
    <2>. DEFINE fe == f * e
                ut == u * t
    <2>1. fe \in Int /\ ut \in Int /\ fe >= e /\ ut >= 0 /\ (t > 0 => ut >= u) /\ m = fe + ut
        BY <1>4, <1>5, <1>6, <1>7
    <2>. HIDE DEF fe, ut
    <2>. QED BY <2>1, <1>3
<1>. QED BY <1>2, <1>4, <1>8 DEF e, Shrunk

(* A factor that is not negative keeps the order. *)
LEMMA TimesOrder ==
    ASSUME NEW t \in Nat, NEW u \in Int, NEW v \in Int, u <= v
    PROVE  t * u <= t * v /\ t * u \in Int /\ t * v \in Int
OBVIOUS

(* What the last turn leaves is at least two fifths of the divisor if the   *)
(* quotient was rounded: for bases that are no power of two it may be less. *)
LEMMA TwoFifths ==
    ASSUME NEW f \in Nat, f < MAX, NEW t \in Nat, t > 0, f * (Base - 2) <= 2 * t * Base
    PROVE  2 * f <= 5 * t
<1>1. Base = 4 \/ Base = 8 \/ Base >= 16
    <2>1. Power(2, 0) = 1
        BY PowerZero
    <2>2. Power(2, 0 + 1) = 2 * Power(2, 0)
        BY PowerNext
    <2>3. Power(2, 1 + 1) = 2 * Power(2, 1)
        BY PowerNext
    <2>4. Power(2, 2 + 1) = 2 * Power(2, 2)
        BY PowerNext
    <2>5. Power(2, 3 + 1) = 2 * Power(2, 3)
        BY PowerNext
    <2>6. Power(2, 2) = 4 /\ Power(2, 3) = 8 /\ Power(2, 4) = 16
        <3>1. 0 + 1 = 1 /\ 1 + 1 = 2 /\ 2 + 1 = 3 /\ 3 + 1 = 4
            OBVIOUS
        <3>2. Power(2, 1) = 2
            BY <2>1, <2>2, <3>1
        <3>3. Power(2, 2) = 4
            BY <2>3, <3>1, <3>2
        <3>4. Power(2, 3) = 8
            BY <2>4, <3>1, <3>3
        <3>. QED BY <2>5, <3>1, <3>3, <3>4
    <2>7. Bits = 2 \/ Bits = 3 \/ Bits - 4 \in Nat
        BY DigitalAssumption
    <2>8. CASE Bits - 4 \in Nat
        <3>1. Power(2, 4 + (Bits - 4)) = Power(2, 4) * Power(2, Bits - 4)
            BY <2>8, PowerSum
        <3>2. 4 + (Bits - 4) = Bits
            BY DigitalAssumption
        <3>3. Power(2, Bits - 4) \in Nat \ {0}
            BY <2>8, PowerPositive
        <3>. DEFINE u == Power(2, Bits - 4)
        <3>4. u \in Nat /\ u > 0 /\ Base = 16 * u
            BY <3>1, <3>2, <3>3, <2>6, BitsIs
        <3>. HIDE DEF u
        <3>. QED BY <3>4
    <2>. QED BY <2>6, <2>7, <2>8, BitsIs
<1>2. CASE Base = 4
    <2>1. f < 3 /\ f * 2 <= 2 * t * 4
        BY <1>2, BaseIs
    <2>. QED BY <2>1
<1>3. CASE Base = 8
    <2>1. f < 7 /\ f * 6 <= 2 * t * 8
        BY <1>3, BaseIs
    <2>. QED BY <2>1
<1>4. CASE Base >= 16
    <2>. DEFINE w == Base - 16
    <2>1. w \in Nat /\ Base = w + 16
        BY <1>4, BaseIs
    <2>. HIDE DEF w
    <2>2. f * (w + 14) <= 2 * t * (w + 16)
        <3>1. Base - 2 = w + 14
            BY <2>1
        <3>. QED BY <3>1, <2>1
    <2>3. ASSUME 5 * t < 2 * f PROVE FALSE
        <3>1. 5 * (2 * t * (w + 16)) <= 4 * f * (w + 16)
            <4>. DEFINE v == w + 16
            <4>1. v \in Nat
                BY <2>1
            <4>. HIDE DEF v
            <4>2. 5 * (2 * t * v) = (5 * t) * (2 * v) /\ 4 * f * v = (2 * f) * (2 * v)
                BY <4>1
            <4>3. (5 * t) * (2 * v) <= (2 * f) * (2 * v)
                BY <4>1, <2>3
            <4>. QED BY <4>2, <4>3 DEF v
        <3>2. 5 * (f * (w + 14)) = 5 * (f * w) + 70 * f /\ 4 * f * (w + 16) = 4 * (f * w) + 64 * f
            BY <2>1
        <3>3. f * w \in Nat /\ f * (w + 14) \in Int /\ 2 * t * (w + 16) \in Int /\ 4 * f * (w + 16) \in Int
            BY <2>1
        <3>4. 5 * (f * (w + 14)) <= 4 * f * (w + 16)
            BY <3>1, <3>3, <2>2
        <3>5. 5 * (f * w) + 70 * f <= 4 * (f * w) + 64 * f
            BY <3>2, <3>4
        <3>. DEFINE g == f * w
        <3>6. g \in Nat /\ 5 * g + 70 * f <= 4 * g + 64 * f
            BY <3>3, <3>5
        <3>. HIDE DEF g
        <3>7. f = 0
            BY <3>6
        <3>. QED BY <3>7, <2>3
    <2>. QED BY <2>3
<1>. QED BY <1>1, <1>2, <1>3, <1>4

(* A denominator that a turn leaves is near enough: what is left times the  *)
(* denominator is no more than the fraction's.                              *)
LEMMA Closes ==
    ASSUME NEW f \in Nat, f > 0, NEW p \in Int, NEW H, NEW r, NEW round \in BOOLEAN,
           Leaving(p, f, H, round, r), NEW w \in Int, NEW u \in Nat,
           w + Unrounded1(H, r) * u >= 0,
           r < 0 => f < MAX /\ u <= 2 * (w + Unrounded1(H, r) * u),
           NEW e, e = w + H * u, NEW m, m = f * w + u * p
    PROVE  e \in Nat /\ m \in Int /\ e <= m /\ Absolute(r) * e <= m
<1>0. PICK k, t : LeavingBy(p, f, H, round, r, k, t)
    BY LeavingIs
<1>1. /\ k = Unrounded1(H, r) /\ k \in Int /\ t \in Int /\ 0 <= t /\ t < f /\ p = f * k + t
      /\ r >= 0 => k = H /\ t = r
      /\ r < 0 => k = H - 1 /\ t = f + r /\ t > 0 /\ f * (Base - 2) <= 2 * t * Base /\ round
    BY <1>0 DEF LeavingBy
<1>2. r \in Int
    BY DEF Leaving
<1>. DEFINE g == w + k * u
<1>3. /\ g <= m /\ (t > 0 => w + (k + 1) * u <= m)
      /\ m = f * g + u * t /\ w + (k + 1) * u = g + u
    <2>1. w + k * u >= 0
        BY <1>1
    <2>2. Shrunk(f, k, t, w, u, m)
        BY <2>1, <1>1, Shrinks
    <2>. QED BY <2>2 DEF Shrunk
<1>4. g \in Int /\ g >= 0 /\ m \in Int
    BY <1>1
<1>5. CASE r >= 0
    <2>1. e = g /\ t = r
        BY <1>1, <1>5
    <2>2. Absolute(r) = r
        <3>1. ~(r < 0)
            BY <1>2, <1>5
        <3>. QED BY <3>1 DEF Absolute
    <2>. HIDE DEF g
    <2>3. r * g <= f * g
        BY <2>1, <1>1, <1>4
    <2>4. u * t >= 0 /\ u * t \in Int /\ f * g \in Int /\ r * g \in Int
        BY <1>1, <1>2, <1>4
    <2>5. r * g <= m
        BY <2>3, <2>4, <1>3, <1>4
    <2>. QED BY <2>1, <2>2, <2>5, <1>3, <1>4
<1>6. CASE r < 0
    <2>1. k = H - 1 /\ t = f + r /\ t > 0
        BY <1>1, <1>6
    <2>2. e = g + u
        <3>1. k + 1 = H
            BY <2>1, <1>1, BaseIs DEF Leaving
        <3>. QED BY <3>1, <1>3
    <2>3. e <= m
        BY <2>1, <2>2, <1>3
    <2>4. Absolute(r) = f - t
        BY <2>1, <1>2, <1>6 DEF Absolute
    <2>5. u <= 2 * g
        BY <1>1, <1>6
    <2>. HIDE DEF g
    <2>6. 2 * f <= 5 * t
        <3>1. f < MAX /\ f * (Base - 2) <= 2 * t * Base /\ t \in Nat
            BY <2>1, <1>1, <1>6
        <3>. QED BY <3>1, <2>1, TwoFifths
    <2>7. (f - t) * (g + u) = f * g - (t * g + 2 * (u * t) - f * u) + u * t
        BY <1>1, <1>4
    <2>8. t * g + 2 * (u * t) - f * u >= 0
        <3>1. t * u <= t * (2 * g)
            <4>1. t \in Nat /\ u \in Int /\ 2 * g \in Int
                BY <1>1, <1>4
            <4>. QED BY <4>1, <2>5, TimesOrder
        <3>2. t * (2 * g) = 2 * (t * g) /\ t * u = u * t
            BY <1>1, <1>4
        <3>3. u * (2 * f) <= u * (5 * t)
            <4>1. 2 * f \in Int /\ 5 * t \in Int
                BY <1>1
            <4>. QED BY <4>1, <2>6, TimesOrder
        <3>4. u * (2 * f) = 2 * (f * u) /\ u * (5 * t) = 5 * (u * t)
            BY <1>1
        <3>5. t * g \in Int /\ u * t \in Int /\ f * u \in Int
            BY <1>1, <1>4
        <3>. DEFINE tg == t * g
                    ut == u * t
                    fu == f * u
        <3>6. tg \in Int /\ ut \in Int /\ fu \in Int /\ ut <= 2 * tg /\ 2 * fu <= 5 * ut
            BY <3>1, <3>2, <3>3, <3>4, <3>5
        <3>. HIDE DEF tg, ut, fu
        <3>7. tg + 2 * ut - fu >= 0
            BY <3>6
        <3>. QED BY <3>7 DEF tg, ut, fu
    <2>9. (f - t) * e <= m
        <3>. DEFINE fg == f * g
                    ut == u * t
                    v == t * g + 2 * (u * t) - f * u
                    y == (f - t) * e
        <3>1. fg \in Int /\ ut \in Int /\ v \in Int
            BY <1>1, <1>4
        <3>2. y = fg - v + ut /\ v >= 0 /\ m = fg + ut
            BY <2>2, <2>7, <2>8, <1>3
        <3>. HIDE DEF fg, ut, v, y
        <3>3. y <= m
            BY <3>1, <3>2
        <3>. QED BY <3>3 DEF y
    <2>10. e \in Nat
        BY <2>2, <1>4
    <2>. QED BY <2>3, <2>4, <2>9, <2>10, <1>4
<1>. QED BY <1>2, <1>5, <1>6

(* what Closes asks for, and what it gives *)
Closing(f, p, H, r, round, w, u, e, m) ==
    /\ f \in Nat /\ f > 0 /\ p \in Int /\ round \in BOOLEAN /\ Leaving(p, f, H, round, r)
    /\ w \in Int /\ u \in Nat /\ w + Unrounded1(H, r) * u >= 0
    /\ r < 0 => f < MAX /\ u <= 2 * (w + Unrounded1(H, r) * u)
    /\ e = w + H * u /\ m = f * w + u * p
Closed(r, e, m) == e \in Nat /\ e <= m /\ Absolute(r) * e <= m

(* Closes, of the numbers of one turn together. *)
LEMMA ClosesSo ==
    ASSUME NEW f, NEW p, NEW H, NEW r, NEW round, NEW w, NEW u, NEW e, NEW m,
           Closing(f, p, H, r, round, w, u, e, m)
    PROVE  Closed(r, e, m)
BY Closes DEF Closing, Closed

(* the two halves of the loop, before they divide: the coefficients of the  *)
(* numerator and of the denominator have opposite signs, and the one that   *)
(* is divided is greater; a numerator that was rounded in the last turn is  *)
(* negative                                                                 *)
Coefficients(a, b, c, d) ==
    a \in 1..MAX /\ b \in (-MAX)..0 /\ c \in 1..MAX /\ d \in (-MAX)..0
(* before a turn of the first half, and of the second                        *)
NumHalf(num, den, a, b, c, d) ==
    num \in 0..MAX /\ den \in 1..MAX /\ Coefficients(a, b, c, d) /\ (d = 0 \/ den < num)
DenHalf(num, den, a, b, c, d, final) ==
    /\ num \in Int /\ den \in 1..MAX /\ Coefficients(a, b, c, d)
    /\ \/ 0 < num /\ num < den
       \/ final /\ num < 0 /\ -num < den /\ c <= -b /\ 2 * (-d) < a
(* a fraction u / v in lowest terms, near n / m                             *)
Nearby(u, v, n, m) ==
    /\ u \in Nat /\ v \in Nat /\ v > 0
    /\ \E i, j \in Int : u * i + v * j = 1
    /\ Absolute(u * m - v * n) * v <= m

(* a coefficient y, after a turn with the quotient q                         *)
Lessened(y, q, z) == y - q * z

(* A turn of the first half. *)
LEMMA NumStep ==
    ASSUME NEW num, NEW den, NEW a, NEW b, NEW c, NEW d, NumHalf(num, den, a, b, c, d),
           NEW n \in Digit, NEW m \in 1..MAX, Combines(num, den, a, b, c, d, n, m),
           NEW final \in BOOLEAN, NEW H, NEW r, Leaving(num, den, H, final, r),
           NEW a1, a1 = Lessened(a, H, d), NEW b1, b1 = Lessened(b, H, c)
    PROVE  /\ r \in Smalls /\ Coefficients(a1, b1, c, d) /\ Takeable(a, H, d) /\ Takeable(b, H, c)
           /\ Combines(r, den, a1, b1, c, d, n, m)
           /\ r = 0 => Nearby(-b1, a1, n, m) /\ (-b1) * m = a1 * n
           /\ r # 0 => DenHalf(r, den, a1, b1, c, d, final)
<1>1. /\ MAX \in Nat /\ num \in Int /\ 0 <= num /\ num <= MAX /\ den \in Nat /\ den > 0 /\ den <= MAX
      /\ a \in Int /\ 1 <= a /\ a <= MAX /\ b \in Int /\ b <= 0 /\ -MAX <= b
      /\ c \in Int /\ 1 <= c /\ c <= MAX /\ d \in Int /\ d <= 0 /\ -MAX <= d
      /\ (d = 0 \/ den < num)
    BY BaseIs DEF NumHalf, Coefficients
<1>2. n \in Int /\ 0 <= n /\ n <= MAX /\ m \in Int /\ 1 <= m /\ m <= MAX
    BY BaseIs
<1>3. H \in Int /\ 0 <= H /\ H <= MAX /\ r \in Int /\ r < den /\ -r < den /\ r = num - den * H
    <2>1. H \in Digit /\ r \in Int /\ r = num - den * H /\ ((0 <= r /\ r < den) \/ (r < 0 /\ -r < den))
        BY DEF Leaving
    <2>. QED BY <2>1, <1>1, BaseIs
<1>0. PICK k, t : LeavingBy(num, den, H, final, r, k, t)
    BY <1>1, LeavingIs
<1>4. /\ k = Unrounded1(H, r) /\ k \in Int /\ t \in Int /\ 0 <= t /\ t < den /\ num = den * k + t
      /\ r >= 0 => k = H /\ t = r
      /\ r < 0 => k = H - 1 /\ t = den + r /\ t > 0 /\ final
    BY <1>0 DEF LeavingBy
<1>5. k >= 0 /\ (den < num => k >= 1)
    <2>1. ASSUME k <= -1 PROVE FALSE
        <3>1. den * k <= den * (-1)
            BY <2>1, <1>1, <1>4
        <3>2. den * k \in Int /\ den * (-1) = -den
            BY <1>1, <1>4
        <3>. DEFINE v == den * k
        <3>3. v \in Int /\ v <= -den /\ num = v + t
            BY <3>1, <3>2, <1>4
        <3>. HIDE DEF v
        <3>. QED BY <3>3, <1>1, <1>4
    <2>2. ASSUME k = 0, den < num PROVE FALSE
        <3>1. den * k = 0
            BY <2>2, <1>1
        <3>. QED BY <3>1, <2>2, <1>1, <1>4
    <2>. QED BY <2>1, <2>2, <1>4
<1>6. m = den * a - d * num /\ n = c * num - den * b
    <2>1. Recovered(num, den, a, b, c, d, n, m)
        <3>1. den \in Int /\ m \in Int
            BY <1>1, <1>2
        <3>. QED BY <3>1, <1>1, <1>2, Recovers
    <2>. QED BY <2>1 DEF Recovered
<1>7. a1 >= 1 /\ a1 <= m /\ a1 \in Int
    <2>. DEFINE u == -d
    <2>1. u \in Nat /\ a1 = a + H * u
        <3>1. a - H * d = a + H * (-d)
            BY <1>1, <1>3
        <3>. QED BY <3>1, <1>1 DEF Lessened
    <2>2. a + k * u >= 1
        <3>1. k * u >= 0 /\ k * u \in Int
            BY <2>1, <1>4, <1>5
        <3>. HIDE DEF u
        <3>. QED BY <3>1, <1>1
    <2>3. m = den * a + u * num
        <3>1. den * a - d * num = den * a + (-d) * num
            BY <1>1
        <3>. QED BY <3>1, <1>6
    <2>. HIDE DEF u
    <2>4. /\ a + k * u <= m /\ (t > 0 => a + (k + 1) * u <= m) /\ a + (k + 1) * u = (a + k * u) + u
        <3>1. a + k * u >= 0
            BY <2>1, <2>2, <1>1, <1>4
        <3>2. Shrunk(den, k, t, a, u, m)
            BY <2>1, <2>3, <3>1, <1>1, <1>4, Shrinks
        <3>. QED BY <3>2 DEF Shrunk
    <2>5. CASE r >= 0
        <3>1. a1 = a + k * u
            BY <2>1, <2>5, <1>4
        <3>2. a + k * u \in Int
            BY <2>1, <1>1, <1>4
        <3>. QED BY <3>1, <3>2, <2>2, <2>4
    <2>6. CASE r < 0
        <3>1. k + 1 = H /\ t > 0
            BY <2>6, <1>3, <1>4
        <3>2. a1 = (a + k * u) + u /\ a1 <= m
            BY <3>1, <2>1, <2>4
        <3>3. a1 \in Int
            BY <2>1, <1>1, <1>3
        <3>4. a + k * u \in Int
            BY <2>1, <1>1, <1>4
        <3>. QED BY <3>2, <3>3, <3>4, <2>1, <2>2
    <2>. QED BY <2>5, <2>6, <1>3
<1>8. -b1 >= 0 /\ -b1 <= n /\ b1 \in Int /\ b1 <= -(H * c) /\ H * c \in Int /\ 0 <= H * c /\ H * c <= MAX
    <2>. DEFINE w == -b
    <2>1. w \in Nat /\ -b1 = w + H * c /\ c \in Nat /\ b1 \in Int /\ H * c \in Int
        <3>. DEFINE v == H * c
        <3>1. v \in Int
            BY <1>1, <1>3
        <3>. HIDE DEF v
        <3>2. b1 = b - v
            BY DEF v, Lessened
        <3>3. -b1 = -b + v /\ b1 \in Int
            BY <3>1, <3>2, <1>1
        <3>. QED BY <3>1, <3>3, <1>1 DEF v
    <2>2. n = den * w + c * num
        <3>1. c * num - den * b = den * (-b) + c * num
            BY <1>1
        <3>. QED BY <3>1, <1>6
    <2>. HIDE DEF w
    <2>3. w + k * c >= 0 /\ w + k * c \in Int
        <3>1. k * c >= 0 /\ k * c \in Int
            BY <1>1, <1>4, <1>5
        <3>. QED BY <3>1, <2>1
    <2>4. /\ w + k * c <= n /\ (t > 0 => w + (k + 1) * c <= n)
        <3>1. Shrunk(den, k, t, w, c, n)
            <4>1. w \in Int
                BY <2>1
            <4>. QED BY <4>1, <2>1, <2>2, <2>3, <1>1, <1>4, Shrinks
        <3>. QED BY <3>1 DEF Shrunk
    <2>5. w + H * c <= n
        <3>1. CASE r >= 0
            BY <3>1, <2>4, <1>4
        <3>2. CASE r < 0
            <4>1. k + 1 = H /\ t > 0
                BY <3>2, <1>3, <1>4
            <4>. QED BY <4>1, <2>4
        <3>. QED BY <3>1, <3>2, <1>3
    <2>6. H * c >= 0
        BY <1>1, <1>3
    <2>. DEFINE v == H * c
    <2>7. v \in Int /\ v >= 0 /\ -b1 = w + v /\ w + v <= n
        BY <2>1, <2>5, <2>6
    <2>. HIDE DEF v
    <2>8. -b1 >= 0 /\ -b1 <= n /\ b1 <= -v /\ v <= MAX
        BY <2>1, <2>7, <1>2, BaseIs
    <2>. QED BY <2>1, <2>7, <2>8 DEF v
<1>9. Coefficients(a1, b1, c, d)
    BY <1>1, <1>2, <1>7, <1>8 DEF Coefficients
<1>10. H * c = 0 => H = 0
    <2>1. ASSUME H >= 1 PROVE H * c >= 1
        BY <2>1, <1>1, <1>3
    <2>. QED BY <2>1, <1>3
<1>11. H >= k /\ (r < 0 => H >= 1 /\ H = k + 1)
    BY <1>3, <1>4, <1>5
<1>12. Takeable(a, H, d)
    <2>1. CASE d = 0
        <3>1. H * d = 0
            BY <2>1, <1>3
        <3>. QED BY <3>1, <2>1, <1>3 DEF Takeable
    <2>2. CASE d # 0
        <3>1. H >= 1 /\ d <= -1
            BY <2>2, <1>1, <1>3, <1>5, <1>11, <1>4
        <3>2. H * d < 0
            BY <3>1, <1>1, <1>3
        <3>3. a - H * d # 0
            BY <1>7 DEF Lessened
        <3>. QED BY <3>2, <3>3 DEF Takeable
    <2>. QED BY <2>1, <2>2
<1>13. Takeable(b, H, c)
    <2>1. CASE H * c = 0
        BY <2>1, <1>1, <1>3 DEF Takeable
    <2>2. CASE H * c # 0
        <3>1. H * c \in Smalls
            <4>. DEFINE v == H * c
            <4>. HIDE DEF v
            <4>1. v \in Int /\ 0 <= v /\ v <= MAX
                BY <1>8 DEF v
            <4>2. v \in Smalls
                BY <4>1, <1>1 DEF Smalls
            <4>. QED BY <4>2 DEF v
        <3>. QED BY <3>1, <2>2 DEF Takeable
    <2>. QED BY <2>1, <2>2
<1>14. Combines(r, den, a1, b1, c, d, n, m)
    <2>1. num = a * n + b * m /\ den = c * m + d * n /\ a * c - b * d = 1
        BY DEF Combines
    <2>2. (a - H * d) * n + (b - H * c) * m = (a * n + b * m) - (c * m + d * n) * H
        BY <1>1, <1>2, <1>3
    <2>3. (a - H * d) * c - (b - H * c) * d = a * c - b * d
        BY <1>1, <1>3
    <2>4. a1 * n + b1 * m = num - den * H
        BY <2>1, <2>2 DEF Lessened
    <2>5. a1 * c - b1 * d = 1
        BY <2>1, <2>3 DEF Lessened
    <2>. QED BY <2>1, <2>4, <2>5, <1>3 DEF Combines
<1>15. r \in Smalls
    BY <1>1, <1>3 DEF Smalls
<1>16. ASSUME r = 0 PROVE Nearby(-b1, a1, n, m) /\ (-b1) * m = a1 * n
    <2>1. a1 * n + b1 * m = 0 /\ a1 * c - b1 * d = 1
        BY <1>14, <1>16 DEF Combines
    <2>2. (-b1) * m = a1 * n
        <3>1. (-b1) * m = -(b1 * m) /\ b1 * m \in Int /\ a1 * n \in Int
            BY <1>2, <1>7, <1>8
        <3>. QED BY <3>1, <2>1
    <2>3. (-b1) * d + a1 * c = 1
        <3>1. (-b1) * d + a1 * c = a1 * c - b1 * d
            BY <1>1, <1>7, <1>8
        <3>. QED BY <3>1, <2>1
    <2>4. \E i, j \in Int : (-b1) * i + a1 * j = 1
        BY <2>3, <1>1
    <2>5. Absolute((-b1) * m - a1 * n) * a1 <= m
        <3>1. a1 * n \in Int
            BY <1>2, <1>7
        <3>2. (-b1) * m - a1 * n = 0
            BY <3>1, <2>2
        <3>3. Absolute(0) = 0
            BY DEF Absolute
        <3>4. 0 * a1 = 0
            BY <1>7
        <3>. QED BY <3>2, <3>3, <3>4, <1>2
    <2>6. -b1 \in Nat /\ a1 \in Nat /\ a1 > 0
        BY <1>7, <1>8
    <2>. QED BY <2>2, <2>4, <2>5, <2>6 DEF Nearby
<1>17. ASSUME r # 0 PROVE DenHalf(r, den, a1, b1, c, d, final)
    <2>1. CASE r > 0
        BY <2>1, <1>1, <1>3, <1>9 DEF DenHalf
    <2>2. CASE r < 0
        <3>1. final
            BY <2>2, <1>4
        <3>2. c <= -b1
            <4>1. H * c >= c
                BY <2>2, <1>1, <1>3, <1>11
            <4>. QED BY <4>1, <1>1, <1>8
        <3>3. 2 * (-d) < a1
            <4>1. CASE d = 0
                BY <4>1, <1>7
            <4>2. CASE d # 0
                <5>1. H >= 2
                    BY <4>2, <2>2, <1>1, <1>3, <1>4, <1>5, <1>11
                <5>2. H * (-d) >= 2 * (-d)
                    BY <5>1, <1>1, <1>3
                <5>3. a1 = a + H * (-d)
                    BY <1>1, <1>3 DEF Lessened
                <5>4. H * (-d) \in Int
                    BY <1>1, <1>3
                <5>. QED BY <5>2, <5>3, <5>4, <1>1
            <4>. QED BY <4>1, <4>2
        <3>. QED BY <2>2, <3>1, <3>2, <3>3, <1>1, <1>3, <1>9 DEF DenHalf
    <2>. QED BY <2>1, <2>2, <1>3, <1>17
<1>. QED BY <1>9, <1>12, <1>13, <1>14, <1>15, <1>16, <1>17

(* A quotient of what is greater is not 0. *)
LEMMA QuotientOne ==
    ASSUME NEW p \in Int, NEW f \in Nat, f > 0, f < p, NEW H, NEW round, NEW r, NEW k, NEW t,
           LeavingBy(p, f, H, round, r, k, t), H \in Int, r \in Int
    PROVE  k >= 1 /\ H >= k /\ H >= 1
<1>1. k \in Int /\ t \in Int /\ t < f /\ p = f * k + t /\ (r >= 0 => k = H) /\ (r < 0 => k = H - 1)
    BY DEF LeavingBy
<1>2. k >= 1
    <2>1. ASSUME k <= 0 PROVE FALSE
        <3>1. f * k <= f * 0 /\ f * k \in Int
            BY <1>1, <2>1, TimesOrder
        <3>2. f * 0 = 0
            OBVIOUS
        <3>. DEFINE v == f * k
        <3>3. v \in Int /\ v <= 0 /\ p = v + t
            BY <3>1, <3>2, <1>1
        <3>. HIDE DEF v
        <3>. QED BY <3>3, <1>1
    <2>. QED BY <2>1, <1>1
<1>3. k = H \/ k = H - 1
    BY <1>1
<1>. QED BY <1>1, <1>2, <1>3

(* A turn of the second half, of a numerator that is not negative. *)
LEMMA DenStep ==
    ASSUME NEW num, NEW den, NEW a, NEW b, NEW c, NEW d, NEW final \in BOOLEAN,
           DenHalf(num, den, a, b, c, d, final), 0 < num,
           NEW n \in Digit, NEW m \in 1..MAX, Combines(num, den, a, b, c, d, n, m),
           NEW H, NEW r, Leaving(den, num, H, final, r),
           NEW c1, c1 = Lessened(c, H, b), NEW d1, d1 = Lessened(d, H, a)
    PROVE  /\ r \in Smalls /\ Coefficients(a, b, c1, d1) /\ Takeable(c, H, b) /\ Takeable(d, H, a)
           /\ d1 < 0 /\ Combines(num, r, a, b, c1, d1, n, m) /\ Nearby(c1, -d1, n, m)
           /\ r = 0 => c1 * m = (-d1) * n
           /\ r # 0 /\ ~final => NumHalf(num, r, a, b, c1, d1)
<1>1. /\ MAX \in Nat /\ num \in Int /\ 0 < num /\ num < den /\ den \in Nat /\ den > 0 /\ den <= MAX
      /\ a \in Int /\ 1 <= a /\ a <= MAX /\ b \in Int /\ b <= 0 /\ -MAX <= b
      /\ c \in Int /\ 1 <= c /\ c <= MAX /\ d \in Int /\ d <= 0 /\ -MAX <= d
      /\ num \in Nat /\ den \in Int
    BY BaseIs DEF DenHalf, Coefficients
<1>2. n \in Int /\ 0 <= n /\ n <= MAX /\ m \in Int /\ 1 <= m /\ m <= MAX
    BY BaseIs
<1>3. H \in Int /\ 0 <= H /\ H <= MAX /\ r \in Int /\ r < num /\ -r < num /\ r = den - num * H
      /\ (r < 0 => final)
    <2>1. /\ H \in Digit /\ r \in Int /\ r = den - num * H
          /\ ((0 <= r /\ r < num) \/ (final /\ r < 0 /\ -r < num))
        BY DEF Leaving
    <2>. QED BY <2>1, <1>1, BaseIs
<1>4. PICK k, t : LeavingBy(den, num, H, final, r, k, t)
    BY <1>1, LeavingIs
<1>5. k \in Int /\ k >= 1 /\ H >= k /\ H >= 1 /\ k = Unrounded1(H, r)
    <2>1. k \in Int /\ k = Unrounded1(H, r)
        BY <1>4 DEF LeavingBy
    <2>2. k >= 1 /\ H >= k /\ H >= 1
        BY <1>1, <1>3, <1>4, QuotientOne
    <2>. QED BY <2>1, <2>2
<1>6. m = den * a - d * num /\ n = c * num - den * b
    <2>1. Recovered(num, den, a, b, c, d, n, m)
        BY <1>1, <1>2, Recovers
    <2>. QED BY <2>1 DEF Recovered
<1>7. /\ -d1 \in Nat /\ d1 \in Int /\ -d1 <= m /\ Absolute(r) * (-d1) <= m /\ d1 < 0
      /\ H * a \in Int /\ 0 < H * a /\ H * a <= MAX
    <2>. DEFINE w == -d
                e == w + H * a
    <2>1. w \in Int /\ w >= 0 /\ a \in Nat /\ H * a \in Int /\ k * a \in Int
        BY <1>1, <1>3, <1>5
    <2>2. d1 = -e /\ -d1 = e /\ d1 \in Int /\ e \in Int
        <3>. DEFINE v == H * a
        <3>1. d1 = d - v /\ v \in Int
            BY <2>1 DEF Lessened
        <3>. HIDE DEF v
        <3>2. d1 = -(-d + v) /\ -d1 = -d + v /\ d1 \in Int /\ -d + v \in Int
            BY <3>1, <1>1
        <3>. QED BY <3>2 DEF v
    <2>3. k * a >= a /\ H * a >= a
        BY <1>1, <1>3, <1>5
    <2>4. m = num * w + a * den
        <3>1. den * a - d * num = num * (-d) + a * den
            BY <1>1
        <3>. QED BY <3>1, <1>6
    <2>5. w + k * a >= 0 /\ a <= 2 * (w + k * a)
        <3>. HIDE DEF w
        <3>. QED BY <2>1, <2>3
    <2>6. num < MAX
        BY <1>1
    <2>. HIDE DEF w
    <2>7. e \in Nat /\ e <= m /\ Absolute(r) * e <= m
        <3>1. w + Unrounded1(H, r) * a >= 0 /\ a <= 2 * (w + Unrounded1(H, r) * a)
            BY <2>5, <1>5
        <3>. QED BY <3>1, <2>1, <2>4, <2>6, <1>1, Closes
    <2>. DEFINE v == H * a
    <2>8. v \in Int /\ v > 0 /\ e = w + v
        BY <2>1, <2>3, <1>1
    <2>. HIDE DEF v, e
    <2>9. e > 0 /\ v <= MAX
        BY <2>1, <2>7, <2>8, <1>1, <1>2
    <2>10. d1 < 0
        BY <2>2, <2>9
    <2>. QED BY <2>2, <2>7, <2>8, <2>9, <2>10 DEF v
<1>8. c1 \in Nat /\ c1 \in Int /\ 1 <= c1 /\ c1 <= n
    <2>. DEFINE u == -b
                e == c + H * u
    <2>1. u \in Nat /\ u \in Int /\ c \in Int /\ H * u \in Int /\ k * u \in Int
        BY <1>1, <1>3, <1>5
    <2>2. c1 = e
        <3>1. c - H * b = c + H * (-b)
            BY <1>1, <1>3
        <3>. QED BY <3>1 DEF Lessened
    <2>3. n = num * c + u * den
        <3>1. c * num - den * b = num * c + (-b) * den
            BY <1>1
        <3>. QED BY <3>1, <1>6
    <2>. HIDE DEF u
    <2>4. k * u >= u /\ H * u >= 0
        BY <2>1, <1>3, <1>5
    <2>5. c + k * u >= 0 /\ u <= 2 * (c + k * u)
        BY <2>1, <2>4, <1>1
    <2>6. e \in Nat /\ e <= n
        <3>1. c + Unrounded1(H, r) * u >= 0 /\ u <= 2 * (c + Unrounded1(H, r) * u)
            BY <2>5, <1>5
        <3>2. num < MAX
            BY <1>1
        <3>. QED BY <3>1, <3>2, <2>1, <2>3, <1>1, Closes
    <2>7. e >= 1
        BY <2>1, <2>4, <1>1
    <2>. QED BY <2>2, <2>6, <2>7
<1>9. Coefficients(a, b, c1, d1)
    BY <1>1, <1>2, <1>7, <1>8 DEF Coefficients
<1>10. Takeable(c, H, b)
    <2>1. CASE b = 0
        <3>1. H * b = 0
            BY <2>1, <1>3
        <3>. QED BY <3>1, <2>1, <1>3 DEF Takeable
    <2>2. CASE b # 0
        <3>1. b <= -1
            BY <2>2, <1>1
        <3>2. H * b < 0
            BY <3>1, <1>1, <1>3, <1>5
        <3>3. c - H * b # 0
            BY <1>8 DEF Lessened
        <3>. QED BY <3>2, <3>3 DEF Takeable
    <2>. QED BY <2>1, <2>2
<1>11. Takeable(d, H, a)
    <2>. DEFINE v == H * a
    <2>1. v \in Int /\ 0 < v /\ v <= MAX
        BY <1>7
    <2>. HIDE DEF v
    <2>2. v \in Smalls /\ v # 0
        BY <2>1, <1>1 DEF Smalls
    <2>. QED BY <2>2 DEF Takeable, v
<1>12. Combines(num, r, a, b, c1, d1, n, m)
    <2>1. num = a * n + b * m /\ den = c * m + d * n /\ a * c - b * d = 1
        BY DEF Combines
    <2>2. (c - H * b) * m + (d - H * a) * n = (c * m + d * n) - (a * n + b * m) * H
        BY <1>1, <1>2, <1>3
    <2>3. a * (c - H * b) - b * (d - H * a) = a * c - b * d
        BY <1>1, <1>3
    <2>4. c1 * m + d1 * n = den - num * H
        BY <2>1, <2>2 DEF Lessened
    <2>5. a * c1 - b * d1 = 1
        BY <2>1, <2>3 DEF Lessened
    <2>. QED BY <2>1, <2>4, <2>5, <1>3 DEF Combines
<1>13. r \in Smalls
    BY <1>1, <1>3 DEF Smalls
<1>14. r = c1 * m - (-d1) * n /\ a * c1 - b * d1 = 1
    <2>1. r = c1 * m + d1 * n /\ a * c1 - b * d1 = 1
        BY <1>12 DEF Combines
    <2>2. c1 * m + d1 * n = c1 * m - (-d1) * n
        BY <1>2, <1>7, <1>8
    <2>. QED BY <2>1, <2>2
<1>15. Nearby(c1, -d1, n, m)
    <2>1. c1 * a + (-d1) * b = 1
        <3>1. a * c1 - b * d1 = c1 * a + (-d1) * b
            BY <1>1, <1>7, <1>8
        <3>. QED BY <3>1, <1>14
    <2>2. \E i, j \in Int : c1 * i + (-d1) * j = 1
        BY <2>1, <1>1
    <2>3. Absolute(c1 * m - (-d1) * n) * (-d1) <= m
        BY <1>7, <1>14
    <2>4. -d1 \in Nat /\ -d1 > 0
        BY <1>7
    <2>. QED BY <2>2, <2>3, <2>4, <1>8 DEF Nearby
<1>16. ASSUME r = 0 PROVE c1 * m = (-d1) * n
    <2>. DEFINE v == c1 * m
                w == (-d1) * n
    <2>1. v \in Int /\ w \in Int /\ v - w = 0
        BY <1>2, <1>7, <1>8, <1>14, <1>16
    <2>. HIDE DEF v, w
    <2>2. v = w
        BY <2>1
    <2>. QED BY <2>2 DEF v, w
<1>17. ASSUME r # 0, ~final PROVE NumHalf(num, r, a, b, c1, d1)
    <2>1. 0 < r /\ r < num
        BY <1>3, <1>17
    <2>. QED BY <2>1, <1>1, <1>3, <1>9 DEF NumHalf
<1>. QED BY <1>7, <1>9, <1>10, <1>11, <1>12, <1>13, <1>15, <1>16, <1>17

(* A turn of the second half, of a numerator that rounding made negative:   *)
(* the signs of the remainder and of the coefficients change.               *)
LEMMA DenStepNegative ==
    ASSUME NEW num, NEW den, NEW a, NEW b, NEW c, NEW d, NEW final \in BOOLEAN,
           DenHalf(num, den, a, b, c, d, final), num < 0, NEW f, f = -num,
           NEW n \in Digit, NEW m \in 1..MAX, Combines(num, den, a, b, c, d, n, m),
           NEW H, NEW r, Leaving(den, f, H, final, r),
           NEW c1, c1 = Lessened(c, -H, b), NEW d1, d1 = Lessened(d, -H, a)
    PROVE  /\ final /\ r \in Smalls /\ -r \in Smalls /\ c1 \in Smalls /\ d1 \in Smalls
           /\ Takeable(c, -H, b) /\ Takeable(d, -H, a)
           /\ d1 > 0 /\ Nearby(-c1, d1, n, m)
           /\ r = 0 => (-c1) * m = d1 * n
<1>1. /\ MAX \in Nat /\ num \in Int /\ f \in Nat /\ f > 0 /\ f < den /\ f < MAX
      /\ den \in Nat /\ den > 0 /\ den <= MAX /\ den \in Int
      /\ a \in Int /\ 1 <= a /\ a <= MAX /\ b \in Int /\ b <= 0 /\ -MAX <= b
      /\ c \in Int /\ 1 <= c /\ c <= MAX /\ d \in Int /\ d <= 0 /\ -MAX <= d
      /\ final /\ c <= -b /\ 2 * (-d) < a /\ num = -f
    BY BaseIs DEF DenHalf, Coefficients
<1>2. n \in Int /\ 0 <= n /\ n <= MAX /\ m \in Int /\ 1 <= m /\ m <= MAX
    BY BaseIs
<1>3. H \in Int /\ 0 <= H /\ H <= MAX /\ r \in Int /\ r < f /\ -r < f /\ r = den - f * H
    <2>1. /\ H \in Digit /\ r \in Int /\ r = den - f * H
          /\ ((0 <= r /\ r < f) \/ (r < 0 /\ -r < f))
        BY DEF Leaving
    <2>. QED BY <2>1, <1>1, BaseIs
<1>4. PICK k, t : LeavingBy(den, f, H, final, r, k, t)
    BY <1>1, LeavingIs
<1>5. k \in Int /\ k >= 1 /\ H >= k /\ H >= 1 /\ k = Unrounded1(H, r)
    <2>1. k \in Int /\ k = Unrounded1(H, r)
        BY <1>4 DEF LeavingBy
    <2>2. k >= 1 /\ H >= k /\ H >= 1
        BY <1>1, <1>3, <1>4, QuotientOne
    <2>. QED BY <2>1, <2>2
<1>6. m = den * a - d * num /\ n = c * num - den * b
    <2>1. Recovered(num, den, a, b, c, d, n, m)
        BY <1>1, <1>2, Recovers
    <2>. QED BY <2>1 DEF Recovered
<1>7. d1 \in Nat /\ d1 \in Int /\ d1 <= m /\ Absolute(r) * d1 <= m /\ d1 > 0 /\ H * a > 0 /\ H * a \in Int
    <2>. DEFINE e == d + H * a
    <2>1. a \in Nat /\ H * a \in Int /\ k * a \in Int
        BY <1>1, <1>3, <1>5
    <2>2. d1 = e
        <3>1. d - (-H) * a = d + H * a
            BY <1>1, <1>3
        <3>. QED BY <3>1 DEF Lessened
    <2>3. k * a >= a /\ H * a >= a
        BY <1>1, <1>3, <1>5
    <2>4. m = f * d + a * den
        <3>1. den * a - d * (-f) = f * d + a * den
            BY <1>1
        <3>. QED BY <3>1, <1>1, <1>6
    <2>5. d + k * a >= 0 /\ a <= 2 * (d + k * a)
        BY <2>1, <2>3, <1>1
    <2>6. e \in Nat /\ e <= m /\ Absolute(r) * e <= m
        <3>. DEFINE w == d
        <3>1. /\ w \in Int /\ w + k * a >= 0 /\ a <= 2 * (w + k * a) /\ m = f * w + a * den
              /\ e = w + H * a
            BY <2>4, <2>5, <1>1
        <3>. HIDE DEF w, e
        <3>2. w + Unrounded1(H, r) * a >= 0 /\ a <= 2 * (w + Unrounded1(H, r) * a)
            BY <3>1, <1>5
        <3>3. Closing(f, den, H, r, final, w, a, e, m)
            BY <3>1, <3>2, <2>1, <1>1 DEF Closing
        <3>4. Closed(r, e, m)
            BY <3>3, ClosesSo
        <3>. QED BY <3>4 DEF Closed
    <2>7. e > 0
        BY <2>1, <2>3, <1>1
    <2>8. H * a > 0
        BY <2>1, <2>3, <1>1
    <2>. QED BY <2>1, <2>2, <2>6, <2>7, <2>8
<1>8. -c1 \in Nat /\ c1 \in Int /\ -c1 <= n
    <2>. DEFINE u == -b
                w == -c
                e == w + H * u
    <2>1. u \in Nat /\ w \in Int /\ H * u \in Int /\ k * u \in Int /\ u \in Int /\ u >= -w
        BY <1>1, <1>3, <1>5
    <2>2. -c1 = e /\ c1 \in Int /\ e \in Int
        <3>. DEFINE v == H * b
        <3>1. v \in Int
            BY <1>1, <1>3
        <3>2. (-H) * b = -v /\ H * u = -v
            BY <1>1, <1>3
        <3>3. c1 = c - (-v) /\ e = w + (-v)
            BY <3>2 DEF Lessened
        <3>. HIDE DEF v, u
        <3>. QED BY <3>1, <3>3, <1>1
    <2>3. n = f * w + u * den
        <3>1. c * (-f) - den * b = f * (-c) + (-b) * den
            BY <1>1
        <3>. QED BY <3>1, <1>1, <1>6
    <2>. HIDE DEF u, w
    <2>4. k * u >= u
        BY <2>1, <1>5
    <2>5. w + k * u >= 0
        BY <2>1, <2>4
    <2>6. /\ k \in Int /\ t \in Int /\ 0 <= t /\ den = f * k + t
          /\ (r >= 0 => k = H) /\ (r < 0 => k = H - 1 /\ t > 0)
        BY <1>4 DEF LeavingBy
    <2>7. w + k * u <= n /\ (t > 0 => w + (k + 1) * u <= n) /\ w + (k + 1) * u = (w + k * u) + u
        <3>1. Shrunk(f, k, t, w, u, n)
            BY <2>1, <2>3, <2>5, <2>6, <1>1, Shrinks
        <3>. QED BY <3>1 DEF Shrunk
    <2>8. e >= 0 /\ e <= n
        <3>1. CASE r >= 0
            BY <3>1, <2>5, <2>6, <2>7
        <3>2. CASE r < 0
            <4>1. k + 1 = H /\ t > 0
                BY <3>2, <2>6, <1>3
            <4>2. e = (w + k * u) + u /\ e <= n
                BY <4>1, <2>7
            <4>. DEFINE g == w + k * u
            <4>3. g \in Int /\ g >= 0 /\ e = g + u
                BY <4>2, <2>1, <2>5
            <4>. HIDE DEF g, e
            <4>. QED BY <4>2, <4>3, <2>1
        <3>. QED BY <3>1, <3>2, <1>3
    <2>. HIDE DEF e
    <2>. QED BY <2>2, <2>8
<1>9. r \in Smalls /\ -r \in Smalls /\ c1 \in Smalls /\ d1 \in Smalls
    <2>1. -r \in Int
        BY <1>3
    <2>. QED BY <2>1, <1>1, <1>2, <1>3, <1>7, <1>8 DEF Smalls
<1>10. Takeable(c, -H, b)
    <2>. DEFINE v == (-H) * b
    <2>1. v \in Int /\ v > 0
        <3>1. -b >= 1 /\ -b \in Int
            BY <1>1
        <3>2. H * (-b) > 0 /\ H * (-b) \in Int
            BY <3>1, <1>3, <1>5
        <3>3. (-H) * b = H * (-b)
            BY <1>1, <1>3
        <3>. QED BY <3>2, <3>3
    <2>2. c1 = c - v
        BY DEF Lessened
    <2>. HIDE DEF v
    <2>3. CASE c1 = 0
        <3>1. v = c
            BY <2>1, <2>2, <2>3, <1>1
        <3>2. v \in Smalls
            BY <3>1, <1>1 DEF Smalls
        <3>. QED BY <3>2, <2>1 DEF Takeable, v
    <2>4. CASE c1 # 0
        <3>1. c >= 0 /\ c - v # 0 /\ v # 0
            BY <2>1, <2>2, <2>4, <1>1
        <3>. QED BY <3>1 DEF Takeable, v
    <2>. QED BY <2>3, <2>4
<1>11. Takeable(d, -H, a)
    <2>. DEFINE v == (-H) * a
    <2>1. v < 0
        <3>1. (-H) * a = -(H * a)
            BY <1>1, <1>3
        <3>. QED BY <3>1, <1>7
    <2>2. d1 = d - v
        BY DEF Lessened
    <2>. HIDE DEF v
    <2>3. d - v # 0
        BY <2>2, <1>7
    <2>. QED BY <2>1, <2>3 DEF Takeable, v
<1>12. c1 * m + d1 * n = r /\ a * c1 - b * d1 = 1
    <2>1. num = a * n + b * m /\ den = c * m + d * n /\ a * c - b * d = 1
        BY DEF Combines
    <2>2. (c - (-H) * b) * m + (d - (-H) * a) * n = (c * m + d * n) + (a * n + b * m) * H
        BY <1>1, <1>2, <1>3
    <2>3. a * (c - (-H) * b) - b * (d - (-H) * a) = a * c - b * d
        BY <1>1, <1>3
    <2>4. c1 * m + d1 * n = den + num * H
        BY <2>1, <2>2 DEF Lessened
    <2>5. a * c1 - b * d1 = 1
        BY <2>1, <2>3 DEF Lessened
    <2>6. den + num * H = den - f * H
        <3>1. (-f) * H = -(f * H) /\ f * H \in Int
            BY <1>1, <1>3
        <3>. QED BY <3>1, <1>1
    <2>. QED BY <2>4, <2>5, <2>6, <1>3
<1>13. (-c1) * m - d1 * n = -r
    <2>1. (-c1) * m - d1 * n = -(c1 * m + d1 * n)
        BY <1>2, <1>7, <1>8
    <2>. QED BY <2>1, <1>12
<1>14. Nearby(-c1, d1, n, m)
    <2>1. (-c1) * (-a) + d1 * (-b) = 1
        <3>1. a * c1 - b * d1 = (-c1) * (-a) + d1 * (-b)
            BY <1>1, <1>7, <1>8
        <3>. QED BY <3>1, <1>12
    <2>2. \E i, j \in Int : (-c1) * i + d1 * j = 1
        <3>1. -a \in Int /\ -b \in Int
            BY <1>1
        <3>. QED BY <2>1, <3>1
    <2>3. Absolute(-r) = Absolute(r)
        BY <1>3 DEF Absolute
    <2>4. Absolute((-c1) * m - d1 * n) * d1 <= m
        BY <2>3, <1>7, <1>13
    <2>. QED BY <2>2, <2>4, <1>7, <1>8 DEF Nearby
<1>15. ASSUME r = 0 PROVE (-c1) * m = d1 * n
    <2>. DEFINE v == (-c1) * m
                w == d1 * n
    <2>1. v \in Int /\ w \in Int /\ v - w = -0
        BY <1>2, <1>7, <1>8, <1>13, <1>15
    <2>. HIDE DEF v, w
    <2>2. v = w
        BY <2>1
    <2>. QED BY <2>2 DEF v, w
<1>. QED BY <1>1, <1>7, <1>9, <1>10, <1>11, <1>14, <1>15

-------------------------------------------------------------------------------
(* Rational: what a turn does to the numbers *)

(* what the fraction n / m is replaced by: near it, and the fraction itself *)
(* if there were turns left                                                 *)
Simplified(u, v, n, m, left) == Nearby(u, v, n, m) /\ (left > 0 => u * m = v * n)

(* the dividends and the coefficients, all of one digit and a sign          *)
Held(rat, cf, num, den, a, b, c, d) ==
    /\ rat = [num |-> Small(num, 0), den |-> Small(den, 0)]
    /\ cf = [a |-> Small(a, 0), b |-> Small(b, 0), c |-> Small(c, 0), d |-> Small(d, 0)]

(* after the loop: the last two coefficients, whichever is negative         *)
AtLast(cf, n, m, left) ==
    \E c, d \in Smalls :
        /\ cf.c = Small(c, 0) /\ cf.d = Small(d, 0) /\ d # 0
        /\ IF d < 0 THEN Simplified(c, -d, n, m, left) ELSE Simplified(-c, d, n, m, left)

(* after round()                                                            *)
AtDone(rat, n, m, left) ==
    \E u, v \in Smalls :
        rat = [num |-> Small(u, 0), den |-> Small(v, 0)] /\ Simplified(u, v, n, m, left)

(* before a turn of the first half, and of the second                       *)
AtNum(rat, cf, n, m) ==
    \E num, den, a, b, c, d :
        /\ Held(rat, cf, num, den, a, b, c, d) /\ Combines(num, den, a, b, c, d, n, m)
        /\ NumHalf(num, den, a, b, c, d)

AtDen(rat, cf, n, m, final) ==
    \E num, den, a, b, c, d :
        /\ Held(rat, cf, num, den, a, b, c, d) /\ Combines(num, den, a, b, c, d, n, m)
        /\ DenHalf(num, den, a, b, c, d, final)

(* The inductive invariant of round(): from turn to turn. *)
TurnsKept ==
    /\ fraction.num \in Digit /\ fraction.den \in 1..MAX
    /\ pc \in {"none", "made"} => coef = Units
    /\ pc = "made" => ratio = [num |-> Small(fraction.num, 0), den |-> Small(fraction.den, 0)]
    /\ pc = "num" => prec \in Nat \ {0} /\ AtNum(ratio, coef, fraction.num, fraction.den)
    /\ pc = "den" => prec \in Nat \ {0} /\ AtDen(ratio, coef, fraction.num, fraction.den, prec = 1)
    /\ pc = "last" => AtLast(coef, fraction.num, fraction.den, prec)
    /\ pc = "done" => AtDone(ratio, fraction.num, fraction.den, prec)

(* Both halves of the loop divide what is of the same rank. *)
LEMMA TurnSmall ==
    ASSUME NEW p, NEW q
    PROVE  Turn(Small(p, 0), Small(q, 0)) = div(Small(p, 0), Small(q, 0), 0, prec = 1)
<1>1. Small(p, 0).exp = 0 /\ Small(q, 0).exp = 0
    BY DEF Small
<1>2. ~(0 < 0) /\ 0 - 0 = 0
    OBVIOUS
<1>. QED BY <1>1, <1>2 DEF Turn

(* The coefficients are small numbers. *)
LEMMA CoefficientsSmall ==
    ASSUME NEW a, NEW b, NEW c, NEW d, Coefficients(a, b, c, d)
    PROVE  /\ a \in Smalls /\ b \in Smalls /\ c \in Smalls /\ d \in Smalls
           /\ a \in Int /\ b \in Int /\ c \in Int /\ d \in Int /\ a > 0 /\ c > 0 /\ b <= 0 /\ d <= 0
<1>. QED BY BaseIs DEF Coefficients, Smalls

(* A turn of the first half divides the numerator, which may be 0. *)
LEMMA NumDivides ==
    ASSUME NEW num \in 0..MAX, NEW den \in 1..MAX, NEW final \in BOOLEAN
    PROVE  \E H \in Smalls : \E r \in Int :
              /\ Leaving(num, den, H, final, r)
              /\ div(Small(num, 0), Small(den, 0), 0, final)
                 = [quotient |-> Small(H, 0), remainder |-> Small(r, 0)]
<1>1. MAX \in Nat /\ num \in Int /\ den \in Int /\ den > 0 /\ 0 \in Digit /\ 0 \in Smalls /\ 0 \in Int
    BY BaseIs, ZeroIs
<1>2. CASE num = 0
    <2>1. Leaving(0, den, 0, final, 0)
        <3>1. 0 = 0 - den * 0
            BY <1>1
        <3>. QED BY <3>1, <1>1 DEF Leaving
    <2>. QED BY <2>1, <1>1, <1>2, DivZero
<1>3. CASE num # 0
    <2>1. num \in 1..MAX /\ den \in Smalls /\ den # 0 /\ Magnitude1(den) = den
          /\ \A v : Minus1(den, v) = v
        BY <1>1, <1>3 DEF Smalls, Magnitude1, Minus1
    <2>2. PICK H : /\ Leaving(num, den, H, final, num - den * H)
                   /\ Minus1(den, H) \in Smalls /\ Minus1(den, num - den * H) \in Smalls
                   /\ div(Small(num, 0), Small(den, 0), 0, final)
                      = [quotient |-> Small(Minus1(den, H), 0),
                         remainder |-> Small(Minus1(den, num - den * H), 0)]
        BY <2>1, DivSmall
    <2>. DEFINE r == num - den * H
    <2>3. Leaving(num, den, H, final, r) /\ r \in Int /\ H \in Smalls
          /\ div(Small(num, 0), Small(den, 0), 0, final)
             = [quotient |-> Small(H, 0), remainder |-> Small(r, 0)]
        BY <2>1, <2>2 DEF Leaving
    <2>. HIDE DEF r
    <2>. QED BY <2>3
<1>. QED BY <1>2, <1>3

(* What is left when the loop ends, with a denominator that is positive. *)
LEMMA ResultAt ==
    ASSUME NEW u \in Smalls, NEW v \in Smalls, v # 0, NEW n, NEW m, NEW left, NEW rat,
           v < 0 => Simplified(u, -v, n, m, left),
           ~(v < 0) => Simplified(-u, v, n, m, left),
           rat = [num |-> IF Small(v, 0).neg THEN Small(u, 0) ELSE negate(Small(u, 0)),
                  den |-> IF Small(v, 0).neg THEN negate(Small(v, 0)) ELSE Small(v, 0)]
    PROVE  AtDone(rat, n, m, left)
<1>1. Small(v, 0).neg = (v < 0)
    BY DEF Small
<1>2. -v \in Smalls /\ negate(Small(v, 0)) = Small(-v, 0) /\ -u \in Smalls /\ negate(Small(u, 0)) = Small(-u, 0)
    BY SmallNegate
<1>3. CASE v < 0
    <2>1. rat = [num |-> Small(u, 0), den |-> Small(-v, 0)]
        BY <1>1, <1>2, <1>3
    <2>. QED BY <2>1, <1>2, <1>3 DEF AtDone
<1>4. CASE ~(v < 0)
    <2>1. rat = [num |-> Small(-u, 0), den |-> Small(v, 0)]
        BY <1>1, <1>2, <1>4
    <2>. QED BY <2>1, <1>2, <1>4 DEF AtDone
<1>. QED BY <1>3, <1>4

(* TakenIs, by what the coefficient comes to. *)
LEMMA TakenLess ==
    ASSUME NEW y \in Smalls, NEW q \in Smalls, NEW z \in Smalls, NEW v \in Smalls,
           v = Lessened(y, q, z), Takeable(y, q, z), NEW turn, turn.quotient = Small(q, 0)
    PROVE  Taken(Small(y, 0), turn, Small(z, 0)) = Small(v, 0)
<1>1. y - q * z = v
    BY DEF Lessened
<1>2. y - q * z \in Smalls
    BY <1>1
<1>3. Taken(Small(y, 0), turn, Small(z, 0)) = Small(y - q * z, 0)
    BY <1>2, TakenIs
<1>. QED BY <1>1, <1>3

(* A turn of the first half keeps the invariant. *)
LEMMA NumTurnKeeps ==
    ASSUME TurnsKept, NumTurn
    PROVE  TurnsKept'
<1>. DEFINE n == fraction.num
            m == fraction.den
            final == prec = 1
            turn == Turn(ratio.num, ratio.den)
<1>1. pc = "num" /\ prec \in Nat \ {0} /\ AtNum(ratio, coef, n, m) /\ n \in Digit /\ m \in 1..MAX
      /\ NumTaken(turn)
    BY DEF TurnsKept, NumTurn
<1>2. PICK num, den, a, b, c, d :
          /\ Held(ratio, coef, num, den, a, b, c, d) /\ Combines(num, den, a, b, c, d, n, m)
          /\ NumHalf(num, den, a, b, c, d)
    BY <1>1 DEF AtNum
<1>3. /\ num \in 0..MAX /\ den \in 1..MAX /\ a \in Smalls /\ b \in Smalls /\ c \in Smalls /\ d \in Smalls
      /\ final \in BOOLEAN
    BY <1>2, CoefficientsSmall DEF NumHalf
<1>4. turn = div(Small(num, 0), Small(den, 0), 0, final)
    <2>1. ratio.num = Small(num, 0) /\ ratio.den = Small(den, 0)
        BY <1>2 DEF Held
    <2>. QED BY <2>1, TurnSmall
<1>. HIDE DEF final, turn, n, m
<1>5. PICK H \in Smalls, r \in Int : Leaving(num, den, H, final, r)
                /\ turn = [quotient |-> Small(H, 0), remainder |-> Small(r, 0)]
    BY <1>3, <1>4, NumDivides
<1>. DEFINE a1 == Lessened(a, H, d)
            b1 == Lessened(b, H, c)
<1>6. /\ r \in Smalls /\ Coefficients(a1, b1, c, d) /\ Takeable(a, H, d) /\ Takeable(b, H, c)
      /\ Combines(r, den, a1, b1, c, d, n, m)
      /\ r = 0 => Nearby(-b1, a1, n, m) /\ (-b1) * m = a1 * n
      /\ r # 0 => DenHalf(r, den, a1, b1, c, d, final)
    BY <1>1, <1>2, <1>3, <1>5, NumStep
<1>7. /\ a1 \in Smalls /\ b1 \in Smalls /\ a1 \in Int /\ a1 > 0 /\ a1 = Lessened(a, H, d) /\ b1 = Lessened(b, H, c)
    BY <1>6, CoefficientsSmall
<1>. HIDE DEF a1, b1
<1>8. Taken(Small(a, 0), turn, Small(d, 0)) = Small(a1, 0)
      /\ Taken(Small(b, 0), turn, Small(c, 0)) = Small(b1, 0)
    <2>1. turn.quotient = Small(H, 0)
        BY <1>5
    <2>. QED BY <2>1, <1>3, <1>6, <1>7, TakenLess
<1>. DEFINE coefs == [a |-> Small(a1, 0), b |-> Small(b1, 0), c |-> Small(c, 0), d |-> Small(d, 0)]
<1>9. NumCoef(turn) = coefs
    <2>1. coef = [a |-> Small(a, 0), b |-> Small(b, 0), c |-> Small(c, 0), d |-> Small(d, 0)]
        BY <1>2 DEF Held
    <2>2. NumCoef(turn) = [coef EXCEPT !.b = Small(b1, 0), !.a = Small(a1, 0)]
        BY <2>1, <1>8 DEF NumCoef
    <2>. QED BY <2>1, <2>2
<1>10. coef' = coefs /\ prec' = prec /\ fraction' = fraction
       /\ IF IsZero(turn.remainder) THEN Result(coefs.b, coefs.a)
          ELSE ratio' = [ratio EXCEPT !.num = turn.remainder] /\ pc' = "den"
    BY <1>1, <1>9 DEF NumTaken, NumTurned
<1>11. IsZero(turn.remainder) <=> r = 0
    <2>1. turn.remainder = Small(r, 0)
        BY <1>5
    <2>. QED BY <2>1, <1>6, IsZeroSmall
<1>12. CASE r = 0
    <2>1. /\ pc' = "done"
          /\ ratio' = [num |-> IF Small(a1, 0).neg THEN Small(b1, 0) ELSE negate(Small(b1, 0)),
                       den |-> IF Small(a1, 0).neg THEN negate(Small(a1, 0)) ELSE Small(a1, 0)]
        BY <1>10, <1>11, <1>12 DEF Result
    <2>2. ~(a1 < 0) /\ a1 # 0
        BY <1>7
    <2>3. Simplified(-b1, a1, n, m, prec)
        BY <1>6, <1>12 DEF Simplified
    <2>4. AtDone(ratio', n, m, prec)
        BY <2>1, <2>2, <2>3, <1>7, ResultAt
    <2>. QED BY <2>1, <2>4, <1>1, <1>10 DEF TurnsKept, n, m
<1>13. CASE r # 0
    <2>1. ratio' = [num |-> Small(r, 0), den |-> Small(den, 0)] /\ pc' = "den"
        BY <1>2, <1>5, <1>10, <1>11, <1>13 DEF Held
    <2>2. Held(ratio', coef', r, den, a1, b1, c, d)
        BY <2>1, <1>10 DEF Held
    <2>3. AtDen(ratio', coef', n, m, final)
        BY <2>2, <1>6, <1>13 DEF AtDen
    <2>. QED BY <2>1, <2>3, <1>1, <1>10 DEF TurnsKept, n, m, final
<1>. QED BY <1>12, <1>13

(* A turn of the second half divides by the numerator, which may be        *)
(* negative.                                                                *)
LEMMA DenDivides ==
    ASSUME NEW num \in Smalls, num # 0, NEW den \in 1..MAX, NEW final \in BOOLEAN
    PROVE  \E H, r :
              /\ Leaving(den, Magnitude1(num), H, final, r)
              /\ Minus1(num, H) \in Smalls /\ Minus1(num, r) \in Smalls
              /\ div(Small(den, 0), Small(num, 0), 0, final)
                 = [quotient |-> Small(Minus1(num, H), 0), remainder |-> Small(Minus1(num, r), 0)]
<1>. QED BY DivSmall

(* A turn of the second half keeps the invariant. *)
LEMMA DenTurnKeeps ==
    ASSUME TurnsKept, DenTurn
    PROVE  TurnsKept'
<1>. DEFINE n == fraction.num
            m == fraction.den
            final == prec = 1
            turn == Turn(ratio.den, ratio.num)
<1>1. /\ pc = "den" /\ prec \in Nat \ {0} /\ AtDen(ratio, coef, n, m, final) /\ n \in Digit /\ m \in 1..MAX
      /\ DenTurned(turn) /\ final \in BOOLEAN
    BY DEF TurnsKept, DenTurn
<1>2. PICK num, den, a, b, c, d :
          /\ Held(ratio, coef, num, den, a, b, c, d) /\ Combines(num, den, a, b, c, d, n, m)
          /\ DenHalf(num, den, a, b, c, d, final)
    BY <1>1 DEF AtDen
<1>3. /\ num \in Smalls /\ num \in Int /\ num # 0 /\ den \in 1..MAX
      /\ a \in Smalls /\ b \in Smalls /\ c \in Smalls /\ d \in Smalls
    <2>1. den \in Int /\ den <= MAX /\ MAX \in Nat /\ Coefficients(a, b, c, d) /\ num \in Int /\ den \in 1..MAX
          /\ ((0 < num /\ num < den) \/ (num < 0 /\ -num < den))
        BY <1>2, BaseIs DEF DenHalf
    <2>. QED BY <2>1, CoefficientsSmall DEF Smalls
<1>4. turn = div(Small(den, 0), Small(num, 0), 0, final)
    <2>1. ratio.num = Small(num, 0) /\ ratio.den = Small(den, 0)
        BY <1>2 DEF Held
    <2>. QED BY <2>1, TurnSmall
<1>. HIDE DEF final, turn, n, m
<1>5. PICK H, r : /\ Leaving(den, Magnitude1(num), H, final, r)
                  /\ Minus1(num, H) \in Smalls /\ Minus1(num, r) \in Smalls
                  /\ turn = [quotient |-> Small(Minus1(num, H), 0), remainder |-> Small(Minus1(num, r), 0)]
    BY <1>1, <1>3, <1>4, DenDivides
<1>. DEFINE q == Minus1(num, H)
            s == Minus1(num, r)
            c1 == Lessened(c, q, b)
            d1 == Lessened(d, q, a)
<1>6. /\ c1 \in Smalls /\ d1 \in Smalls /\ Takeable(c, q, b) /\ Takeable(d, q, a) /\ d1 # 0 /\ d1 \in Int
      /\ d1 < 0 => Nearby(c1, -d1, n, m)
      /\ ~(d1 < 0) => Nearby(-c1, d1, n, m)
      /\ s = 0 => /\ d1 < 0 => c1 * m = (-d1) * n
                  /\ ~(d1 < 0) => (-c1) * m = d1 * n
      /\ s # 0 /\ ~final => Combines(num, s, a, b, c1, d1, n, m) /\ NumHalf(num, s, a, b, c1, d1)
    <2>1. CASE 0 < num
        <3>1. Magnitude1(num) = num /\ q = H /\ s = r
            BY <2>1, <1>3 DEF Magnitude1, Minus1
        <3>2. /\ r \in Smalls /\ Coefficients(a, b, c1, d1) /\ Takeable(c, q, b) /\ Takeable(d, q, a)
              /\ d1 < 0 /\ Combines(num, r, a, b, c1, d1, n, m) /\ Nearby(c1, -d1, n, m)
              /\ r = 0 => c1 * m = (-d1) * n
              /\ r # 0 /\ ~final => NumHalf(num, r, a, b, c1, d1)
            <4>. HIDE DEF q
            <4>1. Leaving(den, num, H, final, r) /\ c1 = Lessened(c, H, b) /\ d1 = Lessened(d, H, a)
                BY <1>5, <3>1
            <4>. HIDE DEF c1, d1
            <4>2. /\ r \in Smalls /\ Coefficients(a, b, c1, d1) /\ Takeable(c, H, b) /\ Takeable(d, H, a)
                  /\ d1 < 0 /\ Combines(num, r, a, b, c1, d1, n, m) /\ Nearby(c1, -d1, n, m)
                  /\ r = 0 => c1 * m = (-d1) * n
                  /\ r # 0 /\ ~final => NumHalf(num, r, a, b, c1, d1)
                BY <4>1, <1>1, <1>2, <2>1, DenStep
            <4>. QED BY <4>2, <3>1
        <3>. HIDE DEF q, s, c1, d1
        <3>3. c1 \in Smalls /\ d1 \in Smalls /\ d1 \in Int
            BY <3>2, CoefficientsSmall
        <3>. QED BY <3>1, <3>2, <3>3
    <2>2. CASE num < 0
        <3>. DEFINE f == -num
        <3>1. Magnitude1(num) = f /\ q = -H /\ s = -r
            BY <2>2, <1>3 DEF Magnitude1, Minus1
        <3>2. Leaving(den, f, H, final, r) /\ c1 = Lessened(c, -H, b) /\ d1 = Lessened(d, -H, a)
            BY <1>5, <3>1
        <3>. HIDE DEF c1, d1
        <3>3. /\ final /\ r \in Smalls /\ -r \in Smalls /\ c1 \in Smalls /\ d1 \in Smalls
              /\ Takeable(c, -H, b) /\ Takeable(d, -H, a)
              /\ d1 > 0 /\ Nearby(-c1, d1, n, m)
              /\ r = 0 => (-c1) * m = d1 * n
            <4>. f = -num
                OBVIOUS
            <4>. HIDE DEF f
            <4>. QED BY <3>2, <1>1, <1>2, <2>2, DenStepNegative
        <3>4. r \in Int /\ d1 \in Int
            BY <3>3, BaseIs DEF Smalls
        <3>5. s = 0 => r = 0
            BY <3>1, <3>4
        <3>. HIDE DEF q, s, f
        <3>6. ~(d1 < 0) /\ d1 # 0
            BY <3>3, <3>4
        <3>. QED BY <3>1, <3>3, <3>4, <3>5, <3>6
    <2>3. 0 < num \/ num < 0
        BY <1>3
    <2>. QED BY <2>1, <2>2, <2>3
<1>7. Taken(Small(c, 0), turn, Small(b, 0)) = Small(c1, 0)
      /\ Taken(Small(d, 0), turn, Small(a, 0)) = Small(d1, 0)
    <2>1. turn.quotient = Small(q, 0) /\ q \in Smalls
        BY <1>5
    <2>2. c1 = Lessened(c, q, b) /\ d1 = Lessened(d, q, a)
        OBVIOUS
    <2>. HIDE DEF q, c1, d1
    <2>. QED BY <2>1, <2>2, <1>3, <1>6, TakenLess
<1>8. s \in Smalls /\ turn.remainder = Small(s, 0)
    BY <1>5
<1>. HIDE DEF q, s, c1, d1
<1>. DEFINE coefs == [a |-> Small(a, 0), b |-> Small(b, 0), c |-> Small(c1, 0), d |-> Small(d1, 0)]
<1>9. DenCoef(turn) = coefs
    <2>1. coef = [a |-> Small(a, 0), b |-> Small(b, 0), c |-> Small(c, 0), d |-> Small(d, 0)]
        BY <1>2 DEF Held
    <2>2. DenCoef(turn) = [coef EXCEPT !.c = Small(c1, 0), !.d = Small(d1, 0)]
        BY <2>1, <1>7 DEF DenCoef
    <2>. QED BY <2>1, <2>2
<1>10. IsZero(turn.remainder) <=> s = 0
    BY <1>8, IsZeroSmall
<1>11. /\ coef' = coefs /\ fraction' = fraction
       /\ ratio' = [num |-> Small(num, 0), den |-> Small(s, 0)]
       /\ prec' = IF s = 0 THEN prec ELSE prec - 1
       /\ pc' = IF s = 0 \/ final THEN "last" ELSE "num"
    <2>1. ratio' = [ratio EXCEPT !.den = Small(s, 0)]
        BY <1>1, <1>8 DEF DenTurned
    <2>2. ratio = [num |-> Small(num, 0), den |-> Small(den, 0)]
        BY <1>2 DEF Held
    <2>3. /\ coef' = coefs /\ fraction' = fraction
          /\ prec' = IF s = 0 THEN prec ELSE prec - 1
          /\ pc' = IF s = 0 \/ final THEN "last" ELSE "num"
        BY <1>1, <1>9, <1>10 DEF DenTurned, final
    <2>. QED BY <2>1, <2>2, <2>3
<1>12. CASE s = 0 \/ final
    <2>1. pc' = "last" /\ (prec' > 0 => s = 0)
        BY <1>1, <1>11, <1>12 DEF final
    <2>2. /\ d1 < 0 => Simplified(c1, -d1, n, m, prec')
          /\ ~(d1 < 0) => Simplified(-c1, d1, n, m, prec')
        BY <2>1, <1>6 DEF Simplified
    <2>3. coef'.c = Small(c1, 0) /\ coef'.d = Small(d1, 0)
        BY <1>11
    <2>4. AtLast(coef', n, m, prec')
        BY <2>2, <2>3, <1>6 DEF AtLast
    <2>. QED BY <2>1, <2>4, <1>1, <1>11 DEF TurnsKept, n, m
<1>13. CASE s # 0 /\ ~final
    <2>1. pc' = "num" /\ prec' \in Nat \ {0}
        BY <1>1, <1>11, <1>13 DEF final
    <2>2. Held(ratio', coef', num, s, a, b, c1, d1)
        BY <1>11 DEF Held
    <2>3. AtNum(ratio', coef', n, m)
        BY <2>2, <1>6, <1>13 DEF AtNum
    <2>. QED BY <2>1, <2>3, <1>1, <1>11 DEF TurnsKept, n, m
<1>. QED BY <1>12, <1>13

(* The fraction of the client, and what round() begins with. *)
LEMMA Begun ==
    ASSUME NEW n \in Digit, NEW m \in 1..MAX
    PROVE  /\ AtNum([num |-> Small(n, 0), den |-> Small(m, 0)], Units, n, m)
           /\ Number(n) = Small(n, 0) /\ Number(m) = Small(m, 0)
<1>1. /\ n \in Int /\ 0 <= n /\ n <= MAX /\ m \in Int /\ 1 <= m /\ m <= MAX /\ MAX \in Nat
      /\ 0 \in Digit /\ 1 \in Digit /\ m \in Digit /\ 0 \in Int /\ 1 \in Int
    BY BaseIs
<1>2. Number(n) = Small(n, 0) /\ Number(m) = Small(m, 0) /\ Number(0) = Small(0, 0) /\ Number(1) = Small(1, 0)
    BY <1>1, NumberSmall
<1>3. Held([num |-> Small(n, 0), den |-> Small(m, 0)], Units, n, m, 1, 0, 1, 0)
    BY <1>2 DEF Held, Units
<1>4. Combines(n, m, 1, 0, 1, 0, n, m)
    BY <1>1 DEF Combines
<1>5. NumHalf(n, m, 1, 0, 1, 0)
    <2>1. Coefficients(1, 0, 1, 0)
        BY <1>1 DEF Coefficients
    <2>2. n \in 0..MAX
        BY BaseIs
    <2>. QED BY <2>1, <2>2 DEF NumHalf
<1>. QED BY <1>2, <1>3, <1>4, <1>5 DEF AtNum

(* The invariant holds at first, *)
LEMMA TurnsInit == RationalInit => TurnsKept
<1>1. 0 \in Digit /\ 1 \in 1..MAX
    BY BaseIs
<1>. QED BY <1>1 DEF RationalInit, TurnsKept, NoFraction

(* and every step keeps it. *)
LEMMA TurnsNext == TurnsKept /\ [RationalNext]_ratio_vars => TurnsKept'
<1>. SUFFICES ASSUME TurnsKept, [RationalNext]_ratio_vars PROVE TurnsKept'
    OBVIOUS
<1>1. ASSUME NEW n \in Parts, NEW d \in Parts, Make(n, d) PROVE TurnsKept'
    <2>1. n \in Digit /\ d \in 1..MAX
        BY <1>1, RationalAssumption, BaseIs DEF Make
    <2>2. Number(n) = Small(n, 0) /\ Number(d) = Small(d, 0)
        BY <2>1, Begun
    <2>. QED BY <1>1, <2>1, <2>2 DEF Make, TurnsKept
<1>2. ASSUME NEW p \in Turns, Round(p) PROVE TurnsKept'
    <2>1. /\ p \in Nat \ {0} /\ fraction.num \in Digit /\ fraction.den \in 1..MAX /\ coef = Units
          /\ ratio = [num |-> Small(fraction.num, 0), den |-> Small(fraction.den, 0)]
        BY <1>2, RationalAssumption DEF Round, TurnsKept
    <2>2. AtNum(ratio, coef, fraction.num, fraction.den)
        BY <2>1, Begun
    <2>. QED BY <1>2, <2>1, <2>2 DEF Round, TurnsKept
<1>3. CASE NumTurn
    BY <1>3, NumTurnKeeps
<1>4. CASE DenTurn
    BY <1>4, DenTurnKeeps
<1>5. CASE LastTurn
    <2>. DEFINE n == fraction.num
                m == fraction.den
    <2>1. AtLast(coef, n, m, prec) /\ n \in Digit /\ m \in 1..MAX
        BY <1>5 DEF LastTurn, TurnsKept
    <2>2. PICK c \in Smalls, d \in Smalls :
              /\ coef.c = Small(c, 0) /\ coef.d = Small(d, 0) /\ d # 0
              /\ IF d < 0 THEN Simplified(c, -d, n, m, prec) ELSE Simplified(-c, d, n, m, prec)
        BY <2>1 DEF AtLast
    <2>3. /\ pc' = "done" /\ fraction' = fraction /\ prec' = prec
          /\ ratio' = [num |-> IF Small(d, 0).neg THEN Small(c, 0) ELSE negate(Small(c, 0)),
                       den |-> IF Small(d, 0).neg THEN negate(Small(d, 0)) ELSE Small(d, 0)]
        BY <1>5, <2>2 DEF LastTurn, Result
    <2>4. (d < 0 => Simplified(c, -d, n, m, prec)) /\ (~(d < 0) => Simplified(-c, d, n, m, prec))
        BY <2>2
    <2>. HIDE DEF n, m
    <2>5. AtDone(ratio', n, m, prec)
        BY <2>2, <2>3, <2>4, ResultAt
    <2>. QED BY <2>1, <2>3, <2>5 DEF TurnsKept, n, m
<1>6. CASE Drop
    <2>1. 0 \in Digit /\ 1 \in 1..MAX
        BY BaseIs
    <2>. QED BY <1>6, <2>1 DEF Drop, TurnsKept, NoFraction
<1>7. CASE UNCHANGED ratio_vars
    BY <1>7 DEF ratio_vars, TurnsKept
<1>. QED BY <1>1, <1>2, <1>3, <1>4, <1>5, <1>6, <1>7 DEF RationalNext

(* A number that leaves nothing is a multiple. *)
LEMMA NoRest ==
    ASSUME NEW u \in Nat, NEW k \in Nat, k > 1, u % k = 0
    PROVE  \E g \in Int : u = k * g
<1>. DEFINE g == u \div k
<1>1. u = k * g /\ g \in Int
    OBVIOUS
<1>. QED BY <1>1

(* Numbers of which a sum of multiples is 1 have no divisor in common.      *)
LEMMA Coprime ==
    ASSUME NEW u \in Nat, NEW v \in Nat, NEW i \in Int, NEW j \in Int, u * i + v * j = 1,
           NEW k \in Nat, k > 1
    PROVE  u % k # 0 \/ v % k # 0
<1>. SUFFICES ASSUME u % k = 0, v % k = 0 PROVE FALSE
    OBVIOUS
<1>1. PICK g \in Int : u = k * g
    BY NoRest
<1>2. PICK h \in Int : v = k * h
    BY NoRest
<1>. DEFINE w == g * i + h * j
<1>3. w \in Int
    OBVIOUS
<1>4. (k * g) * i + (k * h) * j = k * w
    OBVIOUS
<1>5. k * w = 1
    <2>1. (k * g) * i + (k * h) * j = 1
        BY <1>1, <1>2
    <2>. QED BY <2>1, <1>4
<1>. HIDE DEF w
<1>6. CASE w <= 0
    <2>1. k * w <= 0
        BY <1>3, <1>6
    <2>. QED BY <2>1, <1>5
<1>7. CASE w >= 1
    <2>1. k * w >= k
        BY <1>3, <1>7
    <2>. QED BY <2>1, <1>5
<1>. QED BY <1>3, <1>6, <1>7

(* what RoundReduces says of the numbers u and v that round() leaves        *)
LowestNear(u, v, n, m, left) ==
    LET off == Absolute(u * m - v * n)
    IN /\ u >= 0 /\ v > 0
       /\ \A k \in 2..MAX : u % k # 0 \/ v % k # 0
       /\ off * v <= m
       /\ left > 0 => off = 0

(* What is near the fraction is what round() is to leave. *)
LEMMA SimplifiedReduces ==
    ASSUME NEW n \in Digit, NEW m \in 1..MAX, NEW left, NEW u \in Smalls, NEW v \in Smalls,
           Simplified(u, v, n, m, left)
    PROVE  LowestNear(u, v, n, m, left)
<1>. DEFINE off == Absolute(u * m - v * n)
<1>1. u \in Nat /\ v \in Nat /\ v > 0 /\ MAX \in Nat /\ n \in Int /\ m \in Int
    BY BaseIs DEF Simplified, Nearby
<1>2. PICK i \in Int, j \in Int : u * i + v * j = 1
    BY DEF Simplified, Nearby
<1>3. ASSUME NEW k \in 2..MAX PROVE u % k # 0 \/ v % k # 0
    <2>1. k \in Nat /\ k > 1
        BY <1>1
    <2>. QED BY <2>1, <1>1, <1>2, Coprime
<1>4. off * v <= m
    BY DEF Simplified, Nearby
<1>5. ASSUME left > 0 PROVE off = 0
    <2>. DEFINE um == u * m
                vn == v * n
    <2>1. um = vn /\ um \in Int /\ vn \in Int
        BY <1>1, <1>5 DEF Simplified
    <2>2. off = Absolute(um - vn)
        OBVIOUS
    <2>. HIDE DEF um, vn
    <2>. QED BY <2>1, <2>2 DEF Absolute
<1>. QED BY <1>1, <1>3, <1>4, <1>5 DEF LowestNear

(* What the invariant says of the end is that the fraction is simplified. *)
LEMMA TurnsReduce == TurnsKept => RoundReduces
<1>. SUFFICES ASSUME TurnsKept, pc = "done" PROVE RoundReduces
    BY DEF RoundReduces
<1>1. /\ fraction.num \in Digit /\ fraction.den \in 1..MAX
      /\ AtDone(ratio, fraction.num, fraction.den, prec)
    BY DEF TurnsKept
<1>2. PICK u \in Smalls, v \in Smalls :
          /\ ratio = [num |-> Small(u, 0), den |-> Small(v, 0)]
          /\ Simplified(u, v, fraction.num, fraction.den, prec)
    BY <1>1 DEF AtDone
<1>3. Value(ratio.num, 0) = u /\ Value(ratio.den, 0) = v
    <2>1. 0 \in Int /\ 0 + 0 = 0 /\ u \in Int /\ v \in Int
        BY BaseIs DEF Smalls
    <2>2. Value(Small(u, 0), 0) = u * Rank(0 + 0) /\ Value(Small(v, 0), 0) = v * Rank(0 + 0)
        BY <2>1, SmallValue
    <2>3. Value(Small(u, 0), 0) = u /\ Value(Small(v, 0), 0) = v
        BY <2>1, <2>2, Ranks0
    <2>. QED BY <2>3, <1>2
<1>4. LowestNear(u, v, fraction.num, fraction.den, prec)
    BY <1>1, <1>2, SimplifiedReduces
<1>. QED BY <1>3, <1>4 DEF RoundReduces, LowestNear

(* Rational::round leaves a fraction in lowest terms with a denominator     *)
(* that is not negative, near the client's by what its denominator allows,  *)
(* and the client's own unless its turns ran out: for every base, every     *)
(* fraction of two numbers of a digit and any number of turns.              *)
THEOREM FractionsReduced == RationalSpec => []RoundReduces
<1>. QED BY TurnsInit, TurnsNext, TurnsReduce, PTL DEF RationalSpec
==============================================================================
