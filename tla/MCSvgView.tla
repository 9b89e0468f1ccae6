------------------------------- MODULE MCSvgView -------------------------------
(***************************************************************************)
(* Values of SvgView's constants for TLC: an image twice as wide as its    *)
(* view or half as wide, sizes in other units, in none and negative ones;  *)
(* a view that is whole, short or empty.                                   *)
(***************************************************************************)
EXTENDS SvgView

Length(n, units) == [value |-> Whole(n), units |-> units]
MCSvgAttributes ==
    [width |-> {Length(40, ""), Length(2, "em"), Length(100, "%")},
     height |-> {Length(3, "pt"), Length(-3, "in")},
     font_size |-> {Length(1, "pc")},
     viewBox |-> {<<-5, 10, 8, 5>>, <<3, 4, 5>>, <<2, 2, 0, 10>>},
     preserveAspectRatio |-> {{"none"}, {"xMid", "yMax", "meet"}, {"xMax", "yMid", "slice"}}]
MCBoxes ==
    {[lo |-> <<0, 0>>, hi |-> <<10, 5>>, units |-> "object", center |-> <<Length(50, "%"), Length(1, "")>>, r |-> Length(2, "")],
     [lo |-> <<-4, 2>>, hi |-> <<-4, 8>>, units |-> "user", center |-> <<Length(50, "%"), Length(25, "%")>>, r |-> Length(3, "")],
     [lo |-> <<1, 1>>, hi |-> <<2, 3>>, units |-> "user", center |-> <<Length(7, "px"), Length(0, "")>>, r |-> Length(0, "")]}
===============================================================================
