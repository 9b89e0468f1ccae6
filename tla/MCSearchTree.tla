----------------------------- MODULE MCSearchTree -----------------------------
(***************************************************************************)
(* Values of SearchTree's constants for TLC: the nodes are numbers, and    *)
(* their keys are non-decreasing in them, so that a node is told from      *)
(* another by its place in the order only.                                 *)
(*                                                                         *)
(* The run checks the tree, its one client, the sweep over a path, and the *)
(* outlines that make such a path, side by side: the sweep keeps its edges *)
(* in a sequence, which the tree implements (ImplementsSorted), and takes  *)
(* any path, so a step of one changes nothing of the others.  One of them  *)
(* moves only while the others are where they began.                       *)
(***************************************************************************)
EXTENDS SearchTree, MCTriangulation, MCOutline

(* the nodes 2, 3 and 4 have one key, 6 and 7 another *)
MCKey == [n \in Nodes |-> IF n \in {3, 4} THEN 2 ELSE IF n = 7 THEN 6 ELSE n]

(* where the outlines begin, with one style for the steps of the others *)
OutlineIdle == OutlineInit /\ style = CHOOSE s \in Styles : TRUE

MCInit == Init /\ TriangulationInit /\ OutlineInit
TreeStep == TriangulationInit /\ OutlineIdle /\ Next /\ UNCHANGED <<sweep_vars, outline_vars>>
SweepStep == Init /\ OutlineIdle /\ TriangulationNext /\ UNCHANGED <<vars, outline_vars>>
OutlineStep == Init /\ TriangulationInit /\ OutlineNext /\ UNCHANGED <<vars, sweep_vars>>
MCSpec == MCInit /\ [][TreeStep \/ SweepStep \/ OutlineStep]_<<vars, sweep_vars, outline_vars>>
===============================================================================
