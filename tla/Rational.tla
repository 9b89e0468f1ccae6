------------------------------- MODULE Rational -------------------------------
(***************************************************************************)
(* Rational of src/src/numeric.cpp: a fraction of two Digitals, which      *)
(* round() replaces by a simpler one.  It divides the numerator by the     *)
(* denominator and the denominator by the numerator in turns, as Euclid    *)
(* does, and keeps the numbers that the quotients add up to; the last      *)
(* quotient is rounded.  A step is a turn.                                 *)
(***************************************************************************)
EXTENDS Digital

CONSTANTS Parts,        \* the numerators and denominators, as integers
          Turns         \* how often round() may go round its loop

ASSUME RationalAssumption == Parts \subseteq Digit /\ Turns \subseteq Nat \ {0}

VARIABLES
    ratio,      \* num and den
    coef,       \* a, b, c and d
    prec,       \* how many times round the loop are left
    pc,         \* "none", "made", the half of the loop that is next, "done"
    fraction    \* what the client made the ratio from

ratio_vars == <<ratio, coef, prec, pc, fraction>>

IsZero(n) == cmp(n, Number(0), "Eq")
Units == [a |-> Number(1), b |-> Number(0), c |-> Number(1), d |-> Number(0)]

NoFraction == [num |-> 0, den |-> 1]
RationalInit ==
    /\ fraction = NoFraction
    /\ ratio = [num |-> Number(0), den |-> Number(1)]
    /\ coef = Units /\ prec = 0 /\ pc = "none"

Make(n, d) ==
    /\ pc = "none" /\ d # 0
    /\ fraction' = [num |-> n, den |-> d]
    /\ ratio' = [num |-> Number(n), den |-> Number(d)]
    /\ pc' = "made"
    /\ UNCHANGED <<coef, prec>>

Round(p) ==
    /\ pc = "made" /\ pc' = "num" /\ prec' = p
    /\ UNCHANGED <<ratio, coef, fraction>>

(* the fraction n / -d, its denominator not negative *)
Result(n, d) ==
    /\ pc' = "done"
    /\ ratio' = [num |-> IF d.neg THEN n ELSE negate(n), den |-> IF d.neg THEN negate(d) ELSE d]

(* both halves of the loop divide m by n, unless its rank is lower ...      *)
Turn(m, n) ==
    IF m.exp < n.exp THEN [quotient |-> Number(0), remainder |-> m]
    ELSE div(m, n, m.exp - n.exp, prec = 1)
(* ... and take the quotient times z from y *)
Taken(y, turn, z) == Minus(y, Times(turn.quotient, z))

(* mutant of NumCoef: a and b are exchanged *)
NumCoef_Swapped(turn) ==
    [coef EXCEPT !.b = Taken(@, turn, coef.d), !.a = Taken(@, turn, coef.c)]
NumCoef(turn) ==
    [coef EXCEPT !.b = Taken(@, turn, coef.c), !.a = Taken(@, turn, coef.d)]
DenCoef(turn) ==
    [coef EXCEPT !.c = Taken(@, turn, coef.b), !.d = Taken(@, turn, coef.a)]

NumTurned(turn, coefs) ==
    /\ coef' = coefs
    /\ IF IsZero(turn.remainder) THEN Result(coefs.b, coefs.a)
       ELSE ratio' = [ratio EXCEPT !.num = turn.remainder] /\ pc' = "den"
    /\ UNCHANGED <<prec, fraction>>
NumTaken(turn) == NumTurned(turn, NumCoef(turn))
NumTurn == pc = "num" /\ NumTaken(Turn(ratio.num, ratio.den))

DenTurned(turn) ==
    /\ coef' = DenCoef(turn)
    /\ ratio' = [ratio EXCEPT !.den = turn.remainder]
    /\ prec' = IF IsZero(turn.remainder) THEN prec ELSE prec - 1
    /\ pc' = IF IsZero(turn.remainder) \/ prec = 1 THEN "last" ELSE "num"
    /\ UNCHANGED fraction
DenTurn == pc = "den" /\ DenTurned(Turn(ratio.den, ratio.num))

(* after the loop *)
LastTurn == pc = "last" /\ Result(coef.c, coef.d) /\ UNCHANGED <<coef, prec, fraction>>

(* the client takes another fraction *)
Drop ==
    /\ pc = "done" /\ pc' = "none"
    /\ fraction' = NoFraction
    /\ ratio' = [num |-> Number(0), den |-> Number(1)]
    /\ coef' = Units /\ prec' = 0

RationalNext ==
    \/ \E n, d \in Parts : Make(n, d)
    \/ \E p \in Turns : Round(p)
    \/ NumTurn \/ DenTurn \/ LastTurn \/ Drop

RationalSpec == RationalInit /\ [][RationalNext]_ratio_vars

(* What round() leaves is in lowest terms with a denominator that is not    *)
(* negative, differs from the fraction by no more than one divided by the   *)
(* square of its denominator, and is the fraction itself unless the turns   *)
(* ran out: through remainders and coefficients of either sign, whose sums  *)
(* are not exact for all numbers.                                           *)
RoundReduces ==
    pc = "done" =>
    LET n == Value(ratio.num, 0)
        d == Value(ratio.den, 0)
        off == Absolute(n * fraction.den - d * fraction.num)
    IN /\ n >= 0 /\ d > 0
       /\ \A k \in 2..MAX : n % k # 0 \/ d % k # 0
       /\ off * d <= fraction.den
       /\ prec > 0 => off = 0
===============================================================================
