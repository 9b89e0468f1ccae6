------------------------------- MODULE ArraySet -------------------------------
(***************************************************************************)
(* ArraySet of src/arrayset.hpp, an array whose indices are the sets of so *)
(* many numbers below a bound: operator[] finds the place of a set by      *)
(* binomial coefficients, and an iterator goes from place to place and     *)
(* names the set of each.                                                  *)
(*                                                                         *)
(* A size_t is modelled by its remainder: what is smaller than 0 is larger *)
(* than any element.  The coefficients are small enough not to overflow.   *)
(***************************************************************************)
EXTENDS Integers, Sequences, FiniteSets
LOCAL INSTANCE SequencesExt
LOCAL INSTANCE FiniteSetsExt

CONSTANTS
    MaxElements,    \* bound: the elements of a set,
    MaxLength       \* and the numbers they are from

VARIABLES
    elements, length,   \* the two parameters of an ArraySet
    t, elem_vec         \* an iterator: its place, and the set it names

set_vars == <<elements, length, t, elem_vec>>

Huge == 1000
SizeT(n) == IF n < 0 THEN n + Huge ELSE n

-------------------------------------------------------------------------------
(* all factors are multiplied before any is divided by *)
binomial(n, k) ==
    IF n < k THEN 0
    ELSE FoldFunction(LAMBDA i, res : res \div i,
                      FoldFunction(LAMBDA i, res : res * i, 1, [i \in 1..k |-> n - k + i]),
                      [i \in 1..(k - 1) |-> i + 1])

(* operator[] *)
Place(set) ==
    LET down == SetToSortSeq(set, LAMBDA a, b : a > b)
    IN FoldFunction(+, 0, [i \in DOMAIN down |-> binomial(down[i], Len(down) - i + 1)])

Vec == binomial(length, elements)

-------------------------------------------------------------------------------
Start == [i \in 1..elements |-> elements - i]

SetInit ==
    /\ elements \in 1..MaxElements /\ length \in 1..MaxLength
    /\ t = 0 /\ elem_vec = Start

(* operator++: the last element that is not right below the one before it  *)
(* grows, and those behind it start over                                   *)
Step ==
    /\ t < Vec
    /\ LET grows == {i \in 1..elements :
                         i = 1 \/ elem_vec[i] < SizeT(elem_vec[IF i = 1 THEN 1 ELSE i - 1] - 1)}
           i == Max(grows)
       IN elem_vec' = [j \in 1..elements |->
                           IF j < i THEN elem_vec[j] ELSE IF j = i THEN elem_vec[j] + 1 ELSE j - i - 1]
    /\ t' = t + 1
    /\ UNCHANGED <<elements, length>>

(* at the end the client goes round again: begin() *)
Again == t = Vec /\ t' = 0 /\ elem_vec' = Start /\ UNCHANGED <<elements, length>>

SetNext == Step \/ Again

-------------------------------------------------------------------------------
(* Every set has a place of its own in the array, none is left over, and    *)
(* the iterator names the set of the place it is at, to the end; of sets of *)
(* three and more it does not: those that start over should stand in        *)
(* descending order.                                                       *)
SetsIndexed ==
    /\ LET sets == {s \in SUBSET (0..(length - 1)) : Cardinality(s) = elements}
       IN {Place(s) : s \in sets} = 0..(Cardinality(sets) - 1) /\ Vec = Cardinality(sets)
    /\ elements <= 2 /\ t < Vec =>
          /\ Cardinality(ToSet(elem_vec)) = elements /\ ToSet(elem_vec) \subseteq 0..(length - 1)
          /\ Place(ToSet(elem_vec)) = t
===============================================================================
