------------------------------ MODULE MCOutline ------------------------------
(***************************************************************************)
(* Values of Outline's constants for TLC: every join with every cap, a     *)
(* miter limit that no corner keeps, and shapes that are filled.           *)
(***************************************************************************)
EXTENDS Outline

Style(join, cap, limit, fill, stroked) ==
    [join |-> join, cap |-> cap, width |-> 1, miter_limit |-> limit, fill |-> fill, stroke |-> stroked]
MCStyles ==
    {Style(j, c, 4, FALSE, TRUE) : j \in {"Bevel", "Miter", "Round"}, c \in {"Flat", "Square", "Round"}}
    \cup {Style("Miter", "Flat", 1, TRUE, TRUE), Style("Miter", "Flat", 4, TRUE, FALSE)}
===============================================================================
