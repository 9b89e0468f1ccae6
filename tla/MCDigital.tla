------------------------------ MODULE MCDigital ------------------------------
(***************************************************************************)
(* Values of Digital's and Rational's constants for TLC: digits of three   *)
(* bits; as operands all trimmed numbers of one digit, and those of two    *)
(* that are 1 or 6, with a highest rank of -1, 0 or 1; and as fractions    *)
(* those of two digits.                                                    *)
(*                                                                         *)
(* A run checks two clients side by side, one that has an accumulator and  *)
(* one that has a fraction; nothing of one is read by the other, and one   *)
(* of them moves only while the other is where it began.                   *)
(***************************************************************************)
EXTENDS Rational

MCOperands ==
    {a \in [neg : BOOLEAN, exp : -1..1, digits : {<<d>> : d \in Digit} \cup {1, 6} \X {1, 6}] :
        a = trim(a) /\ Fits(a)}
MCShifts == {-4, -2, 1, 3, 4}
MCParts == Digit

MCInit == Init /\ RationalInit
NumberStep == RationalInit /\ Next /\ UNCHANGED ratio_vars
RationalStep == Init /\ RationalNext /\ UNCHANGED x
MCSpec == MCInit /\ [][NumberStep \/ RationalStep]_<<x, ratio_vars>>
===============================================================================
