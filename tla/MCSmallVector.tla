----------------------------- MODULE MCSmallVector -----------------------------
(***************************************************************************)
(* Symmetry for TLC: blocks, vectors and values have no order.             *)
(*                                                                         *)
(* The run checks the array of the project, the sets that index one and    *)
(* the texts a byte array is written as, side by side: none of the three   *)
(* uses another, so one of them moves only while the others are where they *)
(* began.                                                                  *)
(***************************************************************************)
EXTENDS SmallVector, ArraySet, Base64, TLC

MCSymmetry == Permutations(Blocks) \cup Permutations(Names) \cup Permutations(Values)

all_vars == <<vars, set_vars, text>>

(* where the sets begin, with one pair of parameters for the others' steps *)
SetIdle == SetInit /\ elements = 1 /\ length = 1

MCInit == Init /\ SetInit /\ Base64Init
VectorStep == SetIdle /\ Base64Init /\ Next /\ UNCHANGED <<set_vars, text>>
SetStep == Init /\ Base64Init /\ SetNext /\ UNCHANGED <<vars, text>>
TextStep == Init /\ SetIdle /\ Base64Next /\ UNCHANGED <<vars, set_vars>>
(* Sets and places, and texts and base64, are translated forth and back    *)
(* (arrayset.hpp:29 and 40, util.cpp:93 and 102).                          *)
TranslatedBack == SetsIndexed /\ Base64Exact

MCSpec == MCInit /\ [][VectorStep \/ SetStep \/ TextStep]_all_vars
===============================================================================
