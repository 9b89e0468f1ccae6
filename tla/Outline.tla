-------------------------------- MODULE Outline --------------------------------
(***************************************************************************)
(* Path::stroke of src/graphics/graphics.cpp, which makes the outline of a *)
(* line of some width, and the constructor of SVGObject, which merges the  *)
(* fills and the strokes of a shape's paths into one.                      *)
(*                                                                         *)
(* The sides of a path are parallel to the axes, on which stroke's         *)
(* divisions and square roots are exact.  A quotient by zero makes a point *)
(* that is no number.  Of the points on an arc only the one at a quarter   *)
(* turn and the last are kept, of a fan the last, and of a curve those     *)
(* that cubic computes when it is coarse: where it starts, and its end.    *)
(* nanosvg, which reads the shape, is external; it leads a closed path     *)
(* back to its first point.                                                *)
(***************************************************************************)
EXTENDS Path, FiniteSets
LOCAL INSTANCE SequencesExt
LOCAL INSTANCE FiniteSetsExt

CONSTANTS
    Styles,         \* the joins, caps, widths and miter limits of shapes
    MaxCorners,     \* bound: the corners of all the paths of a shape
    MaxPaths,       \* bound: its paths
    SideLength      \* bound: every side is as long

ASSUME OutlineAssumption ==
    /\ Styles \subseteq [join : {"Bevel", "Miter", "Round"}, cap : {"Flat", "Round", "Square"},
                         width : Nat \ {0}, miter_limit : Nat, fill : BOOLEAN, stroke : BOOLEAN]
    /\ MaxCorners \in Nat /\ MaxPaths \in Nat /\ SideLength \in Nat \ {0}

VARIABLES
    style,          \* of the shape
    corners,        \* of the path that nanosvg is reading
    bigpath,        \* what of the shape is filled
    merged,         \* history: for each path merged into it, its rings
    outlined        \* history: the corners that were stroked last, and the outline

outline_vars == <<style, corners, bigpath, merged, outlined>>

-------------------------------------------------------------------------------
(* Vectors *)

NaN == <<>>
Origin == <<0, 0>>
Signum(n) == IF n > 0 THEN 1 ELSE IF n < 0 THEN -1 ELSE 0

(* normalize(1) of the vector between two points of a side *)
Direction(from, to) ==
    IF from = to THEN NaN ELSE <<Signum(to[1] - from[1]), Signum(to[2] - from[2])>>

perpendicular(v, cw) ==
    IF v = NaN THEN NaN ELSE IF cw THEN <<-v[2], v[1]>> ELSE <<v[2], -v[1]>>

(* p + v*n *)
Shifted(p, v, n) ==
    IF NaN \in {p, v} THEN NaN ELSE <<p[1] + n * v[1], p[2] + n * v[2]>>

-------------------------------------------------------------------------------
(* Path::stroke *)

(* arc: half a turn counter-clockwise around p, from p - v*n *)
arc(p, v, n) == <<Shifted(p, perpendicular(v, TRUE), -n), Shifted(p, v, n)>>

(* the n-th point before or behind the i-th of the part from first to last *)
Behind(i, n, first, last) ==
    IF n = 1 THEN IF i = first THEN last ELSE i - 1
    ELSE IF n + first >= i THEN last + i - n ELSE i - n
Ahead(i, n, first, last) ==
    IF n = 1 THEN IF i = last THEN first ELSE i + 1
    ELSE first + ((i + n - first) % (last + 1 - first))

(* the first of those places where there is another point, if there is one *)
Other(points, i, places) ==
    LET others == {n \in DOMAIN places :
                      places[n] \notin DOMAIN points \/ points[places[n]] # points[i]}
    IN points[places[Min(others \cup {Len(places)})]]
Searched(first, last) == 1..Max({1, last - first})

(* diff and diff2: the directions in which the line comes and goes *)
Coming(points, i, first, last) ==
    Direction(Other(points, i, [n \in Searched(first, last) |-> Behind(i, n, first, last)]), points[i])
Going(points, i, first, last) ==
    Direction(points[i], Other(points, i, [n \in Searched(first, last) |-> Ahead(i, n, first, last)]))

(* the corner at p on one side of the line.  At a right angle 1/slope is    *)
(* the root of two, where the line turns back it is infinite, and where it  *)
(* goes straight on there is no number.                                     *)
CornerAt(s, p, diff, diff2, cw) ==
    LET turn == determinant(diff, diff2)
        outside == IF cw THEN turn <= 0 ELSE turn >= 0
        from == Shifted(p, perpendicular(IF cw THEN diff ELSE diff2, cw), s.width)
        to == Shifted(p, perpendicular(IF cw THEN diff2 ELSE diff, cw), s.width)
        avg == <<diff2[1] - diff[1], diff2[2] - diff[2]>>
    IN IF outside /\ s.join = "Round"
       THEN <<from, IF turn = 0 THEN NaN ELSE to, to>>
       ELSE IF outside /\ (s.join = "Bevel" \/ turn = 0 \/ 2 > s.miter_limit * s.miter_limit)
       THEN <<from, to>>
       ELSE <<Shifted(p, avg, IF outside THEN -s.width ELSE s.width)>>

Corner(s, p, diff, diff2, cw) ==
    IF NaN \in {diff, diff2} \/ diff = diff2 THEN <<NaN>>
    ELSE CornerAt(s, p, diff, diff2, cw)

(* an end of the line, which leads away from its points (1) or into them   *)
(* (-1).  A round cap is made on one side for both.                        *)
CapAt(s, p, diff, away, cw) ==
    LET off == perpendicular(diff, cw)
    IN IF s.cap # "Round" THEN <<Shifted(IF s.cap = "Flat" THEN p ELSE Shifted(p, diff, away * s.width),
                                         off, s.width)>>
       ELSE IF ~cw THEN <<>>
       ELSE <<Shifted(p, off, away * s.width)>> \o arc(p, off, -away * s.width)

PointsAt(s, a, closed, i, first, last, cw) ==
    LET p == a.points
    IN CASE closed \/ i \in (first + 1)..(last - 1) ->
                Corner(s, p[i], Coming(p, i, first, last), Going(p, i, first, last), cw)
         [] ~closed /\ i = first -> CapAt(s, p[i], Direction(p[i], p[i + 1]), -1, cw)
         [] OTHER -> CapAt(s, p[i], Direction(p[i - 1], p[i]), 1, cw)

(* one side of a part: forward on its left, or back on its right *)
stroke_side(s, a, closed, k, cw) ==
    LET first == a.parts[k]
        last == Limit(a, k) - 1
        all == [n \in 1..(last + 1 - first) |->
                    PointsAt(s, a, closed, IF cw THEN first + n - 1 ELSE last + 1 - n, first, last, cw)]
    IN IF first = last THEN <<>> ELSE FlattenSeq(all)

(* the two sides of a closed part are rings of their own *)
Stroked(expanded, left, right, closed) ==
    [points |-> expanded.points \o left \o right,
     parts |-> expanded.parts \o <<Len(expanded.points) + 1>>
               \o (IF closed THEN <<Len(expanded.points \o left) + 1>> ELSE <<>>)]

stroke(s, a, closed) ==
    LET from[k \in 0..Len(a.parts)] ==
            IF k = 0 THEN [points |-> <<>>, parts |-> <<>>]
            ELSE Stroked(from[k - 1], stroke_side(s, a, closed, k, TRUE),
                         stroke_side(s, a, closed, k, FALSE), closed)
    IN from[Len(a.parts)]

-------------------------------------------------------------------------------
(* SVGObject *)

(* cubic: the point where the path is, again, and the end *)
cubic(points, to) == points \o <<Last(points), to>>

(* nanosvg's points of a path: from corner to corner *)
PathOf(ends) == [points |-> FoldLeft(cubic, <<Head(ends)>>, Tail(ends)), parts |-> <<1>>]
Ends(closed) == IF closed THEN Append(corners, Head(corners)) ELSE corners

Nothing == [corners |-> <<>>, closed |-> FALSE, doubled |-> FALSE, outline |-> Empty]

OutlineInit ==
    /\ style \in Styles
    /\ corners = <<Origin>>
    /\ bigpath = Empty
    /\ merged = <<>>
    /\ outlined = Nothing

Used == FoldSeq(LAMBDA m, n : m.used + n, 0, merged)

(* the line goes on to the side, or turns back *)
LineTo(d) ==
    /\ Used + Len(corners) < MaxCorners /\ Len(merged) < MaxPaths
    /\ Len(corners) > 1 => Direction(corners[Len(corners) - 1], Last(corners)) # d
    /\ corners' = Append(corners, Shifted(Last(corners), d, SideLength))
    /\ outlined' = Nothing
    /\ UNCHANGED <<style, bigpath, merged>>

(* a closed path ends beside its start and does not go straight on there *)
MayEnd(closed) ==
    /\ Len(corners) > 1
    /\ closed => LET back == Direction(Last(corners), Head(corners))
                 IN /\ Cardinality({n \in {1, 2} : Last(corners)[n] = 0}) = 1
                    /\ back # Direction(corners[Len(corners) - 1], Last(corners))
                    /\ back # Direction(corners[1], corners[2])

Merging(s, a, closed) ==
    (IF s.fill THEN <<a>> ELSE <<>>) \o (IF s.stroke THEN <<stroke(s, a, closed)>> ELSE <<>>)

(* the constructor's loop: one path of the shape is merged, and its stroke *)
AddPath(closed) ==
    /\ MayEnd(closed) /\ Len(merged) < MaxPaths
    /\ LET a == PathOf(Ends(closed))
           all == Merging(style, a, closed)
       IN /\ bigpath' = FoldLeft(merge, bigpath, all)
          /\ merged' = Append(merged, [used |-> Len(corners), paths |-> all])
          /\ outlined' = [corners |-> corners, closed |-> closed, doubled |-> TRUE,
                          outline |-> IF style.stroke THEN Last(all) ELSE Empty]
    /\ corners' = <<Origin>>
    /\ UNCHANGED style

(* a client strokes a path of its own, whose points are its corners *)
StrokePath(closed) ==
    /\ MayEnd(closed) /\ style.stroke /\ merged = <<>>
    /\ outlined' = [corners |-> corners, closed |-> closed, doubled |-> FALSE,
                    outline |-> stroke(style, [points |-> corners, parts |-> <<1>>], closed)]
    /\ UNCHANGED <<style, corners, bigpath, merged>>

(* the paths are read, and the constructor has them triangulated *)
Finish == merged # <<>> /\ corners = <<Origin>> /\ UNCHANGED outline_vars

OutlineNext ==
    \/ \E d \in {<<1, 0>>, <<-1, 0>>, <<0, 1>>, <<0, -1>>} : LineTo(d)
    \/ \E closed \in BOOLEAN : AddPath(closed) \/ StrokePath(closed)
    \/ Finish

-------------------------------------------------------------------------------
(* Properties *)

(* Twice the area inside a ring, positive if it runs counter-clockwise. *)
Inside(ring) ==
    MapThenSumSet(LAMBDA k : determinant(ring[k], ring[IF k = Len(ring) THEN 1 ELSE k + 1]), DOMAIN ring)

(* The directions of the sides of what was outlined. *)
Sides(o) ==
    LET c == IF o.closed THEN Append(o.corners, Head(o.corners)) ELSE o.corners
    IN [k \in 1..(Len(c) - 1) |-> <<c[k], c[k + 1]>>]
Way(side) == Direction(side[1], side[2])
Turns(o) ==
    LET s == Sides(o)
    IN [k \in 1..(IF o.closed THEN Len(s) ELSE Len(s) - 1) |->
           determinant(Way(s[k]), Way(s[IF k = Len(s) THEN 1 ELSE k + 1]))]
Measure(o) ==
    MapThenSumSet(LAMBDA k : LET s == Sides(o)[k]
                             IN Max({s[2][1] - s[1][1], s[1][1] - s[2][1], s[2][2] - s[1][2], s[1][2] - s[2][2]}),
                  DOMAIN Sides(o))

(* The area between the outlines of a line: its length times twice its     *)
(* width, less the tips that bevelled and round corners do not have, and   *)
(* with square caps in front of its ends.  Round ones turn into the line   *)
(* (graphics.cpp:868 turns counter-clockwise, and 964 and 977 start on the  *)
(* right side).                                                            *)
Expected(o) ==
    LET w == style.width
        sharp == style.join = "Miter" /\ style.miter_limit * style.miter_limit >= 2
        cut == IF sharp THEN 0 ELSE Cardinality({k \in DOMAIN Turns(o) : Turns(o)[k] # 0})
        cap == CASE o.closed \/ style.cap = "Flat" -> 0
                 [] ~o.closed /\ style.cap = "Square" -> 4 * w * w
                 [] OTHER -> -2 * w * w
    IN 4 * w * Measure(o) - cut * w * w + 2 * cap

(* The outline of a line without a number that is none encloses the area   *)
(* of the line: on either side of it, at every corner, whichever way it    *)
(* turns, with every point twice or once, from whichever end it is walked. *)
(* Where a number is missing, the line turns back at a round corner, or    *)
(* its ends are given twice.                                               *)
StrokeExact ==
    LET o == outlined
        rings == Contours(o.outline)
        broken == \/ ~o.closed /\ o.doubled
                  \/ style.join = "Round" /\ \E k \in DOMAIN Turns(o) : Turns(o)[k] = 0
    IN o.corners # <<>> /\ style.stroke =>
          /\ Len(rings) = IF o.closed THEN 2 ELSE 1
          /\ (NaN \in ToSet(o.outline.points)) = broken
          /\ ~broken => MapThenSumSet(LAMBDA k : -Inside(rings[k]), DOMAIN rings) = Expected(o)

(* However many paths a shape has, filled, stroked or both, its rings are  *)
(* theirs, point by point, and in their order; unless the first is a ring  *)
(* that is stroked and not filled, whose two outlines become one.          *)
RingsKept ==
    LET paths == FlattenSeq([k \in DOMAIN merged |-> merged[k].paths])
        rings == FlattenSeq([k \in DOMAIN paths |-> Contours(paths[k])])
    IN paths # <<>> =>
          Contours(bigpath) = IF Len(Contours(paths[1])) = 1 THEN rings
                              ELSE <<rings[1] \o rings[2]>> \o SubSeq(rings, 3, Len(rings))

(* What is drawn of a shape, a line by a line and all of them in one path:  *)
(* stroke() encloses the line, and SVGObject's constructor keeps the rings  *)
(* it merges.                                                              *)
StrokesDrawn == StrokeExact /\ RingsKept
===============================================================================
