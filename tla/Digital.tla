------------------------------- MODULE Digital -------------------------------
(***************************************************************************)
(* Digital of src/src/numeric.cpp: numbers of any size, kept as the        *)
(* digits of a two's complement to the base 2^Bits (16 in the code), the   *)
(* highest first, its rank the exponent.  The digits are those of a        *)
(* SmallVector, into which only its ends are inserted, so a sequence.      *)
(*                                                                         *)
(* A client has an accumulator x and changes it by the operators.  Carry   *)
(* loops are stated by how far they reach.                                 *)
(***************************************************************************)
EXTENDS Integers, Sequences, FiniteSetsExt

CONSTANTS Bits,         \* of a digit
          Operands,     \* the numbers the client has besides x
          Shifts,       \* by how many bits it shifts
          Precision,    \* up to which digit / divides (10 in the code)
          Scale,        \* bound: the digits behind the point
          MaxRank       \* bound: the rank of the highest digit

(* digits of one bit are too short to round a quotient in *)
ASSUME DigitalAssumption ==
    Bits \in Nat \ {0, 1} /\ Precision \in Nat /\ Scale \in Nat /\ MaxRank \in Nat

VARIABLE x

Power(b, n) == LET power[i \in 0..n] == IF i = 0 THEN 1 ELSE b * power[i - 1] IN power[n]
Base == Power(2, Bits)
MAX == Base - 1
Digit == 0..MAX
Last(s) == s[Len(s)]
Repeat(n, d) == [i \in 1..n |-> d]

-------------------------------------------------------------------------------
(* Making room, and taking it back *)

(* room from rank e down to rank end: a negative number is extended by its  *)
(* sign unless it ends in a 0                                               *)
pad(a, e, end) ==
    LET front == Max({0, e - a.exp})
        sign == IF a.neg /\ Last(a.digits) > 0 THEN MAX ELSE 0
        back == Max({0, a.exp - end + 1 - Len(a.digits)})
    IN [a EXCEPT !.exp = @ + front,
                 !.digits = Repeat(front, sign) \o @ \o Repeat(back, 0)]

(* how many digits in front repeat the sign; one is kept *)
Leading(a) == Max({n \in 0..(Len(a.digits) - 1) :
                      \A i \in 1..n : a.digits[i] = IF a.neg THEN MAX ELSE 0})
(* where the digits end when the zeros behind them are left out *)
Ending(digits, from) == Max({from} \cup {i \in from..Len(digits) : digits[i] # 0})

trim(a) ==
    [a EXCEPT !.exp = @ - Leading(a),
              !.digits = SubSeq(@, Leading(a) + 1, Ending(@, Leading(a) + 1))]

-------------------------------------------------------------------------------
(* One digit *)

(* A carry into the digits above place i goes on over those that are full.  *)
Reaches(digits, full, j, i) == \A m \in (j + 1)..(i - 1) : digits[m] = full
PlusOne(digits, i, full, one) ==
    [j \in DOMAIN digits |-> IF j < i /\ Reaches(digits, full, j, i)
                             THEN (digits[j] + one) % Base ELSE digits[j]]
Out(digits, i, full) == Reaches(digits, full, 0, i)

(* mutant of AddAt: the carry goes no further than the next digit *)
AddAt_Once(a, k, e) ==
    LET w == pad(a, e, e)
        i == w.exp - e + 1
        carry == w.digits[i] + k > MAX
        added == [w.digits EXCEPT ![i] = (@ + k) % Base]
    IN IF ~carry THEN [w EXCEPT !.digits = added]
       ELSE IF i > 1 THEN [w EXCEPT !.digits = [added EXCEPT ![i - 1] = (@ + 1) % Base]]
       ELSE [w EXCEPT !.exp = @ + 1, !.digits = <<1>> \o added]

(* add without its trim *)
AddAt(a, k, e) ==
    LET w == pad(a, e, e)
        i == w.exp - e + 1
        carry == w.digits[i] + k > MAX
        added == [w.digits EXCEPT ![i] = (@ + k) % Base]
        up == PlusOne(added, i, MAX, 1)
    IN IF ~carry THEN [w EXCEPT !.digits = added]
       ELSE IF ~Out(added, i, MAX) THEN [w EXCEPT !.digits = up]
       ELSE IF w.neg THEN [w EXCEPT !.digits = up, !.neg = FALSE]
       ELSE [w EXCEPT !.exp = @ + 1, !.digits = <<1>> \o up]

SubAt(a, k, e) ==
    LET w == pad(a, e, e)
        i == w.exp - e + 1
        borrow == w.digits[i] < k
        taken == [w.digits EXCEPT ![i] = (@ - k) % Base]
        down == PlusOne(taken, i, 0, -1)
    IN IF ~borrow THEN [w EXCEPT !.digits = taken]
       ELSE IF ~Out(taken, i, 0) THEN [w EXCEPT !.digits = down]
       ELSE IF w.neg THEN [w EXCEPT !.exp = @ + 1, !.digits = <<MAX - 1>> \o down]
       ELSE [w EXCEPT !.digits = down, !.neg = TRUE]

add(a, k, e) == trim(AddAt(a, k, e))
sub(a, k, e) == trim(SubAt(a, k, e))

-------------------------------------------------------------------------------
(* Two numbers *)

(* mutant of negate: the digits above are not complemented *)
negate_Lowest(a) ==
    LET low == Max({0} \cup {i \in DOMAIN a.digits : a.digits[i] # 0})
    IN [a EXCEPT !.neg = IF low = 0 THEN @ ELSE ~@,
                 !.digits = [i \in DOMAIN @ |-> IF i = low THEN Base - @[i] ELSE @[i]]]

(* the lowest digit that is not 0 is negated, those above are complemented; *)
(* of zeros alone not even the sign changes                                 *)
negate(a) ==
    LET low == Max({0} \cup {i \in DOMAIN a.digits : a.digits[i] # 0})
    IN [a EXCEPT !.neg = IF low = 0 THEN @ ELSE ~@,
                 !.digits = [i \in DOMAIN @ |-> CASE i < low -> MAX - @[i]
                                                  [] i = low -> Base - @[i]
                                                  [] i > low -> @[i]]]

(* mutant of Carried: a sum that came round to the digit itself is none *)
Carried_Less(sum, o, carry) == sum < o

(* whether adding o, and what was carried, to a digit left sum and a carry  *)
Carried(sum, o, carry) == IF carry THEN sum <= o ELSE sum < o

(* the sums of the digits of w with those of b below its first `top', and   *)
(* the carry out of each                                                    *)
Sums(w, b, top) ==
    LET last == top + Len(b.digits)
        at[i \in (top + 1)..(last + 1)] ==
            IF i > last THEN [digit |-> 0, carry |-> FALSE]
            ELSE LET o == b.digits[i - top]
                     carry == at[i + 1].carry
                     sum == (w.digits[i] + o + (IF carry THEN 1 ELSE 0)) % Base
                 IN [digit |-> sum, carry |-> Carried(sum, o, carry)]
    IN at

(* The sign after a sum without a carry, or with one *)
Carry(w, b, carry, all_zero) ==
    CASE carry /\ w.neg # b.neg -> [w EXCEPT !.neg = FALSE]
      [] carry /\ ~w.neg /\ ~b.neg -> [w EXCEPT !.exp = @ + 1, !.digits = <<1>> \o @]
      [] carry /\ w.neg /\ b.neg /\ all_zero -> [w EXCEPT !.exp = @ + 1, !.digits = <<MAX>>]
      [] ~carry /\ b.neg /\ ~w.neg -> [w EXCEPT !.neg = TRUE]
      [] ~carry /\ b.neg /\ w.neg -> [w EXCEPT !.exp = @ + 1, !.digits = <<MAX - 1>> \o @]
      [] OTHER -> w

(* the digits of w above the first `top' were those of w and are those of   *)
(* low: when b is negative every one is decremented, whether there was a    *)
(* carry or not                                                             *)
Upper(w, b, top, low, carry) ==
    LET digits == IF b.neg THEN [i \in DOMAIN low |-> IF i <= top THEN (low[i] - 1) % Base ELSE low[i]]
                  ELSE IF carry THEN PlusOne(low, top + 1, MAX, 1) ELSE low
        all_zero == /\ \A i \in (top + 1)..(top + Len(b.digits)) : digits[i] = 0
                    /\ b.neg => \A i \in 1..top : digits[i] = 0
    IN Carry([w EXCEPT !.digits = digits], b,
             IF b.neg THEN carry \/ \E i \in 1..top : w.digits[i] # 0
             ELSE carry /\ Out(low, top + 1, MAX),
             all_zero)

Lower(w, b, top, at) ==
    Upper(w, b, top,
          [i \in DOMAIN w.digits |->
              IF i \in (top + 1)..(top + Len(b.digits)) THEN at[i].digit ELSE w.digits[i]],
          at[top + 1].carry)

(* operator+= *)
Padded(w, b) == Lower(w, b, w.exp - b.exp, Sums(w, b, w.exp - b.exp))
Plus(a, b) == trim(Padded(pad(a, b.exp, b.exp - Len(b.digits) + 1), b))

Minus(a, b) == Plus(a, negate(b))

(* operator<<=: to the right, by no whole number of digits, the exponent    *)
(* is moved by one plus what the division truncates, and the other way      *)
shift(a, s) ==
    LET k == s % Bits
        q == IF s >= 0 \/ k = 0 THEN s \div Bits ELSE (-s) \div Bits - 1
        shifted == [i \in DOMAIN a.digits |->
                       ((a.digits[i] * Power(2, k)) % Base)
                       + (IF i < Len(a.digits) THEN a.digits[i + 1] \div Power(2, Bits - k) ELSE 0)]
        rest == a.digits[1] \div Power(2, Bits - k)
    IN IF k = 0 THEN [a EXCEPT !.exp = @ + q]
       ELSE trim(IF rest = 0 THEN [a EXCEPT !.exp = @ + q, !.digits = shifted]
                 ELSE [a EXCEPT !.exp = @ + q + 1, !.digits = <<rest>> \o shifted])

(* the products of all pairs of digits, each in two halves *)
Products(a, b) ==
    LET pairs == [n \in 1..(Len(a.digits) * Len(b.digits)) |->
                     [i |-> (n - 1) \div Len(b.digits), j |-> (n - 1) % Len(b.digits)]]
        times[n \in 0..Len(pairs)] ==
            IF n = 0 THEN [neg |-> FALSE, exp |-> a.exp + b.exp, digits |-> <<>>]
            ELSE LET p == pairs[n]
                     mul == a.digits[p.i + 1] * b.digits[p.j + 1]
                     e == a.exp - p.i + b.exp - p.j
                 IN AddAt(AddAt(times[n - 1], mul \div Base, e + 1), mul % Base, e)
    IN trim(times[Len(pairs)])

(* what the signs subtract from the product p of the digits *)
OfFirst(a, b, p) == IF a.neg THEN Minus(p, shift(b, Bits * (a.exp + 1))) ELSE p
OfSecond(a, b, p) == IF b.neg THEN Minus(p, shift(a, Bits * (b.exp + 1))) ELSE p
Signed(a, b, p) == OfSecond(a, b, OfFirst(a, b, p))

Unit(a, b, p) == IF a.neg /\ b.neg THEN sub(p, 1, a.exp + b.exp + 2) ELSE p

Times(a, b) == Unit(a, b, Signed(a, b, Products(a, b)))

-------------------------------------------------------------------------------
(* Comparison: t is one of "Greater", "Geq" and "Eq".  The sign, the rank,  *)
(* the number of digits and the digits decide, in this order.               *)

Number(n) == trim([neg |-> FALSE, exp |-> 3, digits |-> [i \in 1..4 |-> (n \div Power(Base, 4 - i)) % Base]])

(* mutant of Decides: a higher rank is looked at only among equal lengths *)
Decides_Length(a, b) ==
    IF Len(a.digits) # Len(b.digits) THEN Len(a.digits) - Len(b.digits)
    ELSE IF a.exp > b.exp THEN 1
    ELSE LET differ == {i \in DOMAIN a.digits : a.digits[i] # b.digits[i]}
         IN IF differ = {} THEN 0 ELSE a.digits[Min(differ)] - b.digits[Min(differ)]

(* what the first difference says, as a sign; that a's rank is lower than   *)
(* b's is not noticed: the test for it repeats the one before (line 418)    *)
Decides(a, b) ==
    IF a.exp > b.exp THEN 1
    ELSE IF Len(a.digits) # Len(b.digits) THEN Len(a.digits) - Len(b.digits)
    ELSE LET differ == {i \in DOMAIN a.digits : a.digits[i] # b.digits[i]}
         IN IF differ = {} THEN 0 ELSE a.digits[Min(differ)] - b.digits[Min(differ)]

cmp(a, b, t) ==
    IF a.neg # b.neg THEN t # "Eq" /\ b.neg
    ELSE IF Decides(a, b) = 0 THEN t # "Greater"
    ELSE t # "Eq" /\ (Decides(a, b) > 0) # a.neg

-------------------------------------------------------------------------------
(* Division: by the highest digit of the divisor, two digits of the         *)
(* quotient at a time                                                       *)

Magnitude(b) ==
    LET d == b.digits[1]
    IN IF ~b.neg THEN d
       ELSE IF \A i \in 2..Len(b.digits) : b.digits[i] = 0 THEN (-d) % Base ELSE MAX - d

(* a digit at rank e; room for it is made even if it is 0 *)
Recorded(res, hi, e) ==
    IF hi # 0 THEN add(res, hi, e)
    ELSE [res EXCEPT !.digits = @ \o Repeat(Max({0, res.exp - Len(@) - e}), 0)]

(* what is added to the remainder per divisor: minus the digits q at rank e *)
(* for a positive divisor                                                   *)
Less(b, q, e, wide) ==
    IF b.neg THEN [neg |-> FALSE, exp |-> e, digits |-> q]
    ELSE [neg |-> wide # 0, exp |-> e,
          digits |-> [i \in DOMAIN q |-> IF i = Len(q) THEN (-q[i]) % Base ELSE MAX - q[i]]]

(* the last time only the high digit counts, which the low one rounds *)
High(wide, final, round) ==
    IF final /\ round /\ wide % Base >= MAX \div 2 THEN (wide \div Base + 1) % Base
    ELSE wide \div Base
Low(wide, final) == IF final THEN 0 ELSE wide % Base

Divided(s, b, e, wide, hi, lo) ==
    IF hi = 0 /\ lo = 0 THEN [s EXCEPT !.res = Recorded(@, 0, e)]
    ELSE IF lo = 0 THEN [res |-> Recorded(s.res, hi, e),
                         rem |-> Plus(s.rem, Times(b, Less(b, <<hi>>, e, wide)))]
    ELSE [res |-> [Recorded(s.res, hi, e) EXCEPT !.digits = Append(@, lo)],
          rem |-> Plus(s.rem, Times(b, Less(b, <<hi, lo>>, e, wide)))]

(* one time round the loop, for the digits from rank e on; not after the    *)
(* remainder is 0                                                           *)
Estimated(s, b, e, wide, final, round) ==
    Divided(s, b, e, wide, High(wide, final, round), Low(wide, final))
Division(s, b, e, first, final, round) ==
    IF ~first /\ cmp(s.rem, Number(0), "Eq") THEN s
    ELSE Estimated(s, b, e, (s.rem.digits[1] * Base) \div Magnitude(b), final, round)

div(a, b, prec, round) ==
    LET after[n \in 0..(prec + 1)] ==
            IF n = 0 THEN [res |-> [neg |-> FALSE, exp |-> a.exp - b.exp, digits |-> <<0>>],
                           rem |-> IF a.neg THEN negate(a) ELSE a]
            ELSE Division(after[n - 1], b, a.exp - b.exp - n + 1, n = 1, n = prec + 1, round)
        signed(s) == IF a.neg = b.neg THEN [quotient |-> trim(s.res), remainder |-> s.rem]
                     ELSE [quotient |-> trim(negate(s.res)), remainder |-> negate(s.rem)]
    IN IF cmp(a, Number(0), "Eq") THEN [quotient |-> Number(0), remainder |-> Number(0)]
       ELSE signed(after[prec + 1])

(* by zero it throws, and by minus a power of the base the program dies     *)
Divides(b) == ~cmp(b, Number(0), "Eq") /\ Magnitude(b) # 0

-------------------------------------------------------------------------------
(* The client *)

Zero == [neg |-> FALSE, exp |-> 0, digits |-> <<0>>]
Fits(a) == a.exp <= MaxRank /\ Len(a.digits) - 1 - a.exp <= Scale

(* as trim leaves a number: no zeros behind, and not the sign in front      *)
Trimmed(a) ==
    /\ a \in [neg : BOOLEAN, exp : Int, digits : Seq(Digit)]
    /\ Len(a.digits) > 0
    /\ Len(a.digits) > 1 => Last(a.digits) # 0 /\ a.digits[1] # IF a.neg THEN MAX ELSE 0

ASSUME OperandsAssumption == Shifts \subseteq Int /\ \A b \in Operands : Trimmed(b) /\ Fits(b)

Init == x = Zero

Become(a) == Fits(a) /\ x' = a

AddDigit(k, e) == Become(add(x, k, e))
SubDigit(k, e) == Become(sub(x, k, e))
AddNumber(b)   == Become(Plus(x, b))
SubNumber(b)   == Become(Minus(x, b))
MulNumber(b)   == Become(Times(x, b))
DivNumber(b)   == Divides(b) /\ Become(div(x, b, Precision, TRUE).quotient)
Negate         == Become(negate(x))
Shift(s)       == Become(shift(x, s))

Ranks == (-Scale)..MaxRank

Next ==
    \/ \E k \in Digit, e \in Ranks : AddDigit(k, e) \/ SubDigit(k, e)
    \/ \E b \in Operands : AddNumber(b) \/ SubNumber(b) \/ MulNumber(b) \/ DivNumber(b)
    \/ Negate
    \/ \E s \in Shifts : Shift(s)

Spec == Init /\ [][Next]_x

-------------------------------------------------------------------------------
(* Properties *)

(* What a number stands for, in units of the rank -s.                      *)
Read(digits, n) ==
    LET read[i \in 0..n] == IF i = 0 THEN 0 ELSE read[i - 1] * Base + digits[i] IN read[n]
Value(a, s) ==
    (Read(a.digits, Len(a.digits)) - (IF a.neg THEN Power(Base, Len(a.digits)) ELSE 0))
    * Power(Base, a.exp - Len(a.digits) + 1 + s)

Absolute(n) == IF n < 0 THEN -n ELSE n

(* Minus a power of the base is kept as a sign and zeros, and so are the    *)
(* numbers that nothing but their sign tells from zero.                     *)
SignAlone(a) == a.neg /\ Last(a.digits) = 0

(* the type, and that no operation leaves zeros behind or the sign in front *)
(* (trim; operator== compares digit by digit and relies on it)              *)
TypeOK == Trimmed(x)

(* a digit is added and subtracted exactly at every rank, with carries and  *)
(* borrows over any number of digits and through the sign                   *)
DigitsExact ==
    \A k \in Digit, e \in Ranks : ~(SignAlone(x) /\ x.exp < e) =>
        /\ Value(add(x, k, e), Scale) = Value(x, Scale) + k * Power(Base, e + Scale)
        /\ Value(sub(x, k, e), Scale) = Value(x, Scale) - k * Power(Base, e + Scale)

(* Where a sum a + b goes wrong.  Minus a power of the base is extended as  *)
(* if it were positive (line 23).                                           *)
WronglyExtended(a, b) == SignAlone(a) /\ a.exp < b.exp

(* When a negative number is added, each digit above its own is decremented *)
(* (lines 120-125): right only if nothing is carried into them and those    *)
(* below the highest are 0.                                                 *)
DigitAt(a, e) == LET i == a.exp - e + 1 IN IF i \in DOMAIN a.digits THEN a.digits[i] ELSE 0
Meeting(a, b) == [i \in DOMAIN b.digits |-> DigitAt(a, b.exp - i + 1)]
CarriesOver(a, b) ==
    LET n == Len(b.digits) IN Read(Meeting(a, b), n) + Read(b.digits, n) >= Power(Base, n)
WronglyDecremented(a, b) ==
    /\ b.neg /\ a.exp > b.exp
    /\ CarriesOver(a, b) \/ \E e \in (b.exp + 1)..(a.exp - 1) : DigitAt(a, e) # 0

(* When all digits of a sum of two negative numbers are 0 from the lowest   *)
(* of b on, those of a behind them are lost (lines 139-141): the sum is     *)
(* less than a unit above minus the power of the base beyond both numbers.  *)
CutOff(a, b) ==
    LET sum == Value(a, Scale) + Value(b, Scale)
        power == Power(Base, Max({a.exp, b.exp}) + 1 + Scale)
        unit == Power(Base, b.exp - Len(b.digits) + 1 + Scale)
    IN a.neg /\ b.neg /\ -power < sum /\ sum < unit - power

(* numbers are added exactly but in these three cases, and in these never   *)
SumsExact ==
    \A b \in Operands :
        Value(Plus(x, b), Scale) = Value(x, Scale) + Value(b, Scale)
        <=> ~(WronglyExtended(x, b) \/ WronglyDecremented(x, b) \/ CutOff(x, b))

NegatesExact == ~SignAlone(x) => Value(negate(x), Scale) = -Value(x, Scale)

ShiftsExact ==
    \A s \in Shifts : ~x.neg =>
        /\ s >= 0 => Value(shift(x, s), Scale) = Value(x, Scale) * Power(2, s)
        /\ -Bits < s /\ s < 0
           => Value(shift(x, s), Scale + 1) * Power(2, -s) = Value(x, Scale + 1)

ProductsExact ==
    \A b \in Operands : ~SignAlone(x) /\ ~SignAlone(b)
        => Value(Times(x, b), 2 * Scale) = Value(x, Scale) * Value(b, Scale)

(* to every precision the quotient times the divisor and the remainder are  *)
(* the dividend, and the remainder is less than the divisor times a unit of *)
(* the last digit; that of a negative divisor has the other sign            *)
(* (numeric.cpp:322)                                                        *)
Quotes(b, prec, d) ==
    LET of == Value(b, -b.exp)
        rem == Value(d.remainder, prec - x.exp) * (IF b.neg THEN -1 ELSE 1)
    IN /\ Value(d.quotient, prec - x.exp + b.exp) * of + rem = Value(x, prec - x.exp)
       /\ rem < Absolute(of) /\ -rem < Absolute(of)
QuotientExact ==
    \A b \in Operands, prec \in 0..Precision, round \in BOOLEAN :
        Len(x.digits) = 1 /\ x.digits # <<0>> /\ Len(b.digits) = 1 /\ Divides(b)
        => Quotes(b, prec, div(x, b, prec, round))

(* Every operator leaves the number trimmed, in all states that the         *)
(* accumulator can get into, and it is the exact one                        *)
(*  - of a digit added or subtracted at any rank, unless minus a power of   *)
(*    the base, kept as a sign and a 0, has to be extended (numeric.cpp:23),*)
(*  - of a sum but in three cases, in which it never is: that extension;    *)
(*    a negative number added below digits that are not just borrowed from  *)
(*    (120-125: 65537 - 1 = 0); two negative numbers whose sum has only     *)
(*    zeros where the added one has digits and above, and others behind     *)
(*    (139-141); every other sum of two negative numbers is,                *)
(*  - of a negation, but that a sign and a 0 stay what they are (156-167),  *)
(*  - of a shift of a number that is not negative, to the left, or to the   *)
(*    right by less than a digit (199),                                     *)
(*  - of a product, whatever the signs, if neither number is a sign and a 0 *)
(*    (260-267),                                                            *)
(*  - of a quotient and its remainder if both numbers have one digit, and   *)
(*    neither is 0 or a sign and a 0.  Longer divisors are estimated by     *)
(*    their first digit alone, and nothing is said of them: 1 divided by    *)
(*    1.5 gives more than 1.5 (280-292).                                    *)
ArithmeticExact ==
    /\ TypeOK /\ DigitsExact /\ SumsExact /\ NegatesExact /\ ShiftsExact
    /\ ProductsExact /\ QuotientExact

-------------------------------------------------------------------------------
(* Where two numbers of one sign are compared wrongly *)

At(digits, i) == IF i \in DOMAIN digits THEN digits[i] ELSE 0
(* of the same rank, the digits of a are the greater ones, with zeros       *)
(* behind the shorter row                                                   *)
Ahead(a, b) ==
    \E i \in DOMAIN a.digits : /\ a.digits[i] > At(b.digits, i)
                               /\ \A j \in 1..(i - 1) : a.digits[j] = At(b.digits, j)
Short(a, b) == Len(a.digits) < Len(b.digits)
SameLength(a, b) == Len(a.digits) = Len(b.digits)
(* the two ways in which minus a power of the base can be kept              *)
SamePower(a, b) == a.digits = <<MAX>> /\ b.digits = <<0>> /\ b.exp = a.exp - 1

(* line 417: a zero of higher rank, or minus the same power, is not less    *)
(* and not equal                                                            *)
HigherMisleads(a, b) ==
    a.exp > b.exp /\ IF a.neg THEN SamePower(a, b) ELSE a.digits = <<0>>
(* line 418: a lower rank is no reason for being less, so a is only if its  *)
(* digits are fewer, or those of b ahead                                    *)
FoundLess(a, b) == Short(a, b) \/ (SameLength(a, b) /\ Ahead(b, a))
LowerMisleads(a, b) ==
    /\ a.exp < b.exp
    /\ IF a.neg THEN ~FoundLess(a, b) \/ SamePower(b, a) ELSE ~FoundLess(a, b) /\ b.digits # <<0>>
(* lines 420-421: more digits behind the point are taken for a greater      *)
(* number if it is positive, and for a less one if it is negative           *)
LengthMisleads(a, b) ==
    /\ a.exp = b.exp /\ ~SameLength(a, b)
    /\ IF Short(a, b) # a.neg THEN Ahead(a, b) ELSE Ahead(b, a)
(* lines 426-427: the digits of negative numbers, which are complements,    *)
(* are compared as if they were not                                         *)
DigitsMislead(a, b) ==
    a.exp = b.exp /\ SameLength(a, b) /\ a.neg /\ a.digits # b.digits

Misordered(a, b) ==
    /\ a.neg = b.neg
    /\ \/ HigherMisleads(a, b)
       \/ LowerMisleads(a, b)
       \/ LengthMisleads(a, b)
       \/ DigitsMislead(a, b)

InOrder(a, b) ==
    /\ cmp(a, b, "Greater") = (Value(a, Scale) > Value(b, Scale))
    /\ cmp(a, b, "Geq") = (Value(a, Scale) >= Value(b, Scale))
    /\ cmp(a, b, "Eq") = (Value(a, Scale) = Value(b, Scale))

(* Every comparison of the accumulator with a number tells the order of the *)
(* values, but in the cases that Misordered names, in which one of the      *)
(* three verdicts is wrong: 65536 - 65536, a 0 of higher rank, is greater   *)
(* than 0 (417); 1 == 65536 (418); 2 > 1.5 is false (420-421); and of two   *)
(* different negative numbers of one rank and length the order is reversed  *)
(* (426-427).                                                               *)
OrderExact == \A b \in Operands : InOrder(x, b) <=> ~Misordered(x, b)
===============================================================================
