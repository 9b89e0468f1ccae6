------------------------------- MODULE MCSvgPath -------------------------------
(***************************************************************************)
(* Values of SvgPath's constants for TLC: a path begins with a move, or    *)
(* with something else; then come two commands of any kind, once or twice  *)
(* their numbers, or one too few; and then what a path may end with.       *)
(***************************************************************************)
EXTENDS SvgPath

Repeats(cmd, times) == {[cmd |-> cmd, n |-> k * getArgsPerElement(cmd)] : k \in times}
Each(cmds, times) == UNION {Repeats(c, times) : c \in cmds}
All == ToSet(Commands) \cup ToSet(Lower)
MCOptions == <<
    Repeats("M", {1}) \cup Repeats("m", {2}) \cup Repeats("l", {1}) \cup Repeats("C", {1}),
    Each(All, {1, 2}) \cup {[cmd |-> "L", n |-> 1], [cmd |-> "Z", n |-> 1], [cmd |-> "e", n |-> 1]},
    Each(All, {1}),
    Each({"m", "S", "t", "h", "L", "z"}, {1})>>
MCCoordinates == <<3, 6, -9, 0, 12, 3, 6, 9, -3, 15, 0>>
MCPlacement == [xform |-> <<1, 2, -1, 1, 3, 0>>, position |-> <<6, -3>>]

Rect(w, h, rx, ry) == [el |-> "rect", x |-> 3, y |-> -6, w |-> w, h |-> h, rx |-> rx, ry |-> ry]
Poly(points, closed, blank) == [el |-> "poly", points |-> points, closed |-> closed, blank |-> blank]
MCElements ==
    {[el |-> "path"]}
    \cup {Rect(w, h, rx, ry) : w \in {0, 36, -36}, h \in {54}, rx \in {-1, 0, 9, 27}, ry \in {-1, 0, 18}}
    \cup {[el |-> "circle", c |-> <<3, 6>>, r |-> r] : r \in {0, 9, 18}}
    \cup {[el |-> "ellipse", c |-> <<3, 6>>, rx |-> rx, ry |-> ry] : rx \in {0, 9}, ry \in {0, 18}}
    \cup {[el |-> "line", p |-> <<3, 6>>, q |-> <<0, 9>>]}
    \cup {Poly(SubSeq(<<0, 3, 6, 9, -3, 0>>, 1, n), closed, blank) : n \in {2, 4, 6}, closed \in BOOLEAN, blank \in BOOLEAN}
===============================================================================
