-------------------------------- MODULE SvgPath --------------------------------
(***************************************************************************)
(* What graphics/nanosvg.c makes of path data and of the basic shapes:     *)
(* curves, four points each and the last the first of the next, in the     *)
(* order opposite to that of the data, moved by the transform and then by  *)
(* the position of their element.                                          *)
(*                                                                         *)
(* An author writes path data command by command, or a shape.  Coordinates *)
(* are such that thirds of their differences are whole numbers.            *)
(***************************************************************************)
EXTENDS Integers, Sequences, FiniteSetsExt, SequencesExt

CONSTANTS
    Options,        \* what the i-th command may be, [cmd, n]: n numbers follow it
    Coordinates,    \* the numbers, which the author takes in turn
    Elements,       \* a path, [el |-> "path"], and the basic shapes
    Placement       \* [xform, position] of the elements

VARIABLES element, data
path_vars == <<element, data>>

Add(p, q) == <<p[1] + q[1], p[2] + q[2]>>
Scaled(k, p) == <<k * p[1], k * p[2]>>

(* the control points of an arc are not computed *)
Somewhere == <<>>
Third(p, q) == IF Somewhere \in {p, q} THEN Somewhere
               ELSE <<p[1] + (q[1] - p[1]) \div 3, p[2] + (q[2] - p[2]) \div 3>>
At(p, placed) ==
    LET t == placed.xform
    IN IF p = Somewhere THEN Somewhere
       ELSE Add(<<p[1] * t[1] + p[2] * t[3] + t[5], p[1] * t[2] + p[2] * t[4] + t[6]>>, placed.position)

-------------------------------------------------------------------------------
(* The parser's points and paths *)

Fresh == [cmd |-> "", args |-> <<>>, cp |-> <<0, 0>>, cp2 |-> <<0, 0>>, pts |-> <<>>, plist |-> <<>>]

resetPath(s) == [s EXCEPT !.pts = <<>>]
moveTo(s, p) == [s EXCEPT !.pts = IF @ = <<>> THEN <<p>> ELSE ReplaceAt(@, Len(@), p)]
lineTo(s, p) == IF s.pts = <<>> THEN s
                ELSE [s EXCEPT !.pts = @ \o <<Third(Last(@), p), Third(p, Last(@)), p>>]
cubicBezTo(s, c1, c2, p) == [s EXCEPT !.pts = @ \o <<c1, c2, p>>]

addPath(s, closed, placed) ==
    LET pts == (IF closed THEN lineTo(s, s.pts[1]) ELSE s).pts
    IN IF Len(s.pts) < 4 THEN s
       ELSE [s EXCEPT !.pts = pts,
                      !.plist = <<[pts |-> [i \in DOMAIN pts |-> At(pts[i], placed)], closed |-> closed]>> \o @]

-------------------------------------------------------------------------------
(* Path data *)

Commands == <<"M", "L", "H", "V", "C", "S", "Q", "T", "A", "Z">>
Lower == <<"m", "l", "h", "v", "c", "s", "q", "t", "a", "z">>
Relative(cmd) == cmd \in ToSet(Lower)
Absolute(cmd) == IF Relative(cmd) THEN Commands[CHOOSE i \in 1..10 : Lower[i] = cmd] ELSE cmd

getArgsPerElement(cmd) ==
    LET c == Absolute(cmd)
    IN CASE c \in {"V", "H"} -> 1 [] c \in {"M", "L", "T"} -> 2 [] c \in {"Q", "S"} -> 4
         [] c = "C" -> 6 [] c = "A" -> 7 [] OTHER -> 0

(* the pair of numbers at i, from the current point if the command is      *)
(* relative                                                                *)
Pair(s, a, i) == Add(<<a[i], a[i + 1]>>, IF Relative(s.cmd) THEN s.cp ELSE <<0, 0>>)
Mirrored(s) == Add(Scaled(2, s.cp), Scaled(-1, s.cp2))
Now(s, p, p2) == [s EXCEPT !.cp = p, !.cp2 = p2]

pathMoveTo(s, a) ==
    LET p == Pair(s, a, 1)
    IN [Now(moveTo(s, p), p, p) EXCEPT !.cmd = IF @ = "m" THEN "l" ELSE "L"]
LineTo(s, p) == Now(lineTo(s, p), p, p)
pathLineTo(s, a) == LineTo(s, Pair(s, a, 1))
pathHLineTo(s, a) == LineTo(s, <<Pair(s, <<a[1], 0>>, 1)[1], s.cp[2]>>)
pathVLineTo(s, a) == LineTo(s, <<s.cp[1], Pair(s, <<0, a[1]>>, 1)[2]>>)
CubicTo(s, c1, c2, p) == Now(cubicBezTo(s, c1, c2, p), p, c2)
pathCubicBezTo(s, a) == CubicTo(s, Pair(s, a, 1), Pair(s, a, 3), Pair(s, a, 5))

(* mutant of pathCubicBezShortTo: the control point before is not mirrored *)
pathCubicBezShortTo_Same(s, a) == CubicTo(s, s.cp2, Pair(s, a, 1), Pair(s, a, 3))

pathCubicBezShortTo(s, a) == CubicTo(s, Mirrored(s), Pair(s, a, 1), Pair(s, a, 3))
QuadTo(s, c, p) == Now(cubicBezTo(s, Third(c, s.cp), Third(c, p), p), p, c)
pathQuadBezTo(s, a) == QuadTo(s, Pair(s, a, 1), Pair(s, a, 3))
pathQuadBezShortTo(s, a) == QuadTo(s, Mirrored(s), Pair(s, a, 1))

(* an arc that degenerates is a line; of the others only the end is known  *)
(* here, and that one curve is enough                                      *)
pathArcTo(s, a) ==
    LET p == Pair(s, a, 6)
    IN IF p = s.cp \/ a[1] = 0 \/ a[2] = 0 THEN LineTo(s, p)
       ELSE Now(cubicBezTo(s, Somewhere, Somewhere, p), p, p)

Drawn(s, a) ==
    LET c == Absolute(s.cmd)
    IN CASE c = "M" -> pathMoveTo(s, a) [] c = "L" -> pathLineTo(s, a)
         [] c = "H" -> pathHLineTo(s, a) [] c = "V" -> pathVLineTo(s, a)
         [] c = "C" -> pathCubicBezTo(s, a) [] c = "S" -> pathCubicBezShortTo(s, a)
         [] c = "Q" -> pathQuadBezTo(s, a) [] c = "T" -> pathQuadBezShortTo(s, a)
         [] c = "A" -> pathArcTo(s, a) [] OTHER -> s

(* Numbers gather until the command has enough of them.  Those left when   *)
(* another command comes stay, unless it begins or closes a path.          *)
NumberOf(s, n) ==
    LET args == Append(s.args, n)
    IN IF Len(args) < getArgsPerElement(s.cmd) THEN [s EXCEPT !.args = args]
       ELSE [Drawn(s, args) EXCEPT !.args = <<>>]

ClosePath(s) ==
    IF s.pts = <<>> THEN moveTo(s, s.cp)
    ELSE LET first == s.pts[1]
         IN moveTo(resetPath(addPath(Now(s, first, first), TRUE, Placement)), first)

Command(s, cmd) ==
    LET t == [s EXCEPT !.cmd = cmd]
    IN CASE Absolute(cmd) = "M" -> [resetPath(addPath(t, FALSE, Placement)) EXCEPT !.args = <<>>]
         [] Absolute(cmd) = "Z" -> [ClosePath(t) EXCEPT !.args = <<>>]
         [] OTHER -> t

(* a letter e is taken for a number, which is 0 *)
Item(s, item) == IF item.is = "number" THEN NumberOf(s, item.n)
                 ELSE IF item.cmd \in {"e", "E"} THEN NumberOf(s, 0) ELSE Command(s, item.cmd)

PathItem == [is : {"number"}, n : Int] \cup [is : {"command"}, cmd : STRING]
parsePath[items \in Seq(PathItem)] ==
    LET read[i \in 0..Len(items)] == IF i = 0 THEN Fresh ELSE Item(read[i - 1], items[i])
    IN addPath(read[Len(items)], FALSE, Placement).plist

-------------------------------------------------------------------------------
(* The basic shapes.  Radii are multiples of 9, and Kappa of one is this.  *)

Kappa(r) == (5 * r) \div 9

(* along a sequence of points: two that share a coordinate are joined by a *)
(* line, others by a quarter of an ellipse around the corner               *)
Quarter(s, corner, p) ==
    LET from == Last(s.pts)
        near(q) == Add(q, <<Kappa(corner[1] - q[1]), Kappa(corner[2] - q[2])>>)
    IN cubicBezTo(s, near(from), near(p), p)

Ellipse(c, rx, ry) ==
    LET east == Add(c, <<rx, 0>>)      south == Add(c, <<0, ry>>)
        west == Add(c, <<-rx, 0>>)     north == Add(c, <<0, -ry>>)
        s1 == Quarter(moveTo(Fresh, east), Add(c, <<rx, ry>>), south)
        s2 == Quarter(s1, Add(c, <<-rx, ry>>), west)
        s3 == Quarter(s2, Add(c, <<-rx, -ry>>), north)
    IN Quarter(s3, Add(c, <<rx, -ry>>), east)
parseEllipse(e) == IF e.rx = 0 \/ e.ry = 0 THEN <<>>
                   ELSE addPath(Ellipse(e.c, e.rx, e.ry), TRUE, Placement).plist
parseCircle(e) == IF e.r = 0 THEN <<>> ELSE addPath(Ellipse(e.c, e.r, e.r), TRUE, Placement).plist

(* -1 is a radius that is not given: it is the other one, or 0; and none   *)
(* is more than half of the side                                           *)
Rounding(r, other, side) ==
    LET wanted == IF r = -1 THEN Max({other, 0}) ELSE r IN Min({wanted, side \div 2})
Corners(x, y, w, h) == <<<<x, y>>, <<x + w, y>>, <<x + w, y + h>>, <<x, y + h>>>>
Rounded(x, y, w, h, rx, ry) ==
    LET c == Corners(x, y, w, h)
        s1 == lineTo(moveTo(Fresh, <<x + rx, y>>), <<x + w - rx, y>>)
        s2 == lineTo(Quarter(s1, c[2], <<x + w, y + ry>>), <<x + w, y + h - ry>>)
        s3 == lineTo(Quarter(s2, c[3], <<x + w - rx, y + h>>), <<x + rx, y + h>>)
        s4 == lineTo(Quarter(s3, c[4], <<x, y + h - ry>>), <<x, y + ry>>)
    IN Quarter(s4, c[1], <<x + rx, y>>)

(* x and y are the element's position too, so they are added twice *)
parseRect(e) ==
    LET x == e.x    y == e.y    w == e.w    h == e.h
        rx == Rounding(e.rx, e.ry, w)
        ry == Rounding(e.ry, e.rx, h)
        s == IF rx <= 0 \/ ry <= 0 THEN FoldLeft(lineTo, moveTo(Fresh, <<x, y>>), Tail(Corners(x, y, w, h)))
             ELSE Rounded(x, y, w, h, rx, ry)
    IN IF w = 0 \/ h = 0 THEN <<>> ELSE addPath(s, TRUE, [Placement EXCEPT !.position = <<x, y>>]).plist

parseLine(e) == addPath(lineTo(moveTo(Fresh, e.p), e.q), FALSE, Placement).plist

(* the blank behind the last number, if there is one, is read as a 0 *)
parsePoly(e) ==
    LET numbers == IF e.blank THEN Append(e.points, 0) ELSE e.points
        points == [i \in 1..(Len(numbers) \div 2) |-> <<numbers[2 * i - 1], numbers[2 * i]>>]
        s == IF points = <<>> THEN Fresh ELSE FoldLeft(lineTo, moveTo(Fresh, points[1]), Tail(points))
    IN addPath(s, e.closed, Placement).plist

-------------------------------------------------------------------------------
(* The author *)

PathInit == element \in Elements /\ data = <<>>
WriteCommand(c) == data' = Append(data, c) /\ UNCHANGED element
PathNext == /\ element.el = "path"
            /\ Len(data) < Len(Options)
            /\ \E c \in Options[Len(data) + 1] : WriteCommand(c)
PathSpec == PathInit /\ [][PathNext]_path_vars

NumbersBefore(i) == FoldLeft(LAMBDA n, c : n + c.n, 0, SubSeq(data, 1, i - 1))
NumberAt(k) == Coordinates[((k - 1) % Len(Coordinates)) + 1]
Numbers(i) == LET before == NumbersBefore(i) IN [k \in 1..data[i].n |-> NumberAt(before + k)]
D(cmd, numbers) == <<[is |-> "command", cmd |-> cmd]>>
                   \o [k \in DOMAIN numbers |-> [is |-> "number", n |-> numbers[k]]]
DataItems == FlattenSeq([i \in DOMAIN data |-> D(data[i].cmd, Numbers(i))])

-------------------------------------------------------------------------------
(* What path data means: operations, one for each time a command has its   *)
(* numbers; after the first of a move they are lines                       *)

OpsOf(i) ==
    LET r == getArgsPerElement(data[i].cmd)
        numbers == Numbers(i)
        cmd(k) == IF k > 1 /\ data[i].cmd = "m" THEN "l"
                  ELSE IF k > 1 /\ data[i].cmd = "M" THEN "L" ELSE data[i].cmd
    IN IF r = 0 THEN <<[cmd |-> "Z", rel |-> FALSE, args |-> <<>>]>>
       ELSE [k \in 1..(data[i].n \div r) |->
                [cmd |-> Absolute(cmd(k)), rel |-> Relative(cmd(k)),
                 args |-> SubSeq(numbers, r * (k - 1) + 1, r * k)]]
Ops == FlattenSeq([i \in DOMAIN data |-> OpsOf(i)])

(* The curves of the operations: where each ends, the control point that   *)
(* the next may mirror, and its three points                               *)
LineSegment(p, q) == <<Third(p, q), Third(q, p), q>>
Operation == [cmd : STRING, rel : BOOLEAN, args : Seq(Int)]
DrawnAs[ops \in Seq(Operation)] ==
    LET begun(i) == Max({m \in 1..i : ops[m].cmd = "M"})
        end[i \in 0..Len(ops)] ==
            IF i = 0 THEN <<0, 0>>
            ELSE LET a == ops[i].args
                     here == end[i - 1]
                     base == IF ops[i].rel THEN here ELSE <<0, 0>>
                 IN CASE ops[i].cmd = "Z" -> end[begun(i)]
                      [] ops[i].cmd = "H" -> <<base[1] + a[1], here[2]>>
                      [] ops[i].cmd = "V" -> <<here[1], base[2] + a[1]>>
                      [] OTHER -> Add(base, <<a[Len(a) - 1], a[Len(a)]>>)
        point(i, k) == Add(<<ops[i].args[k], ops[i].args[k + 1]>>, IF ops[i].rel THEN end[i - 1] ELSE <<0, 0>>)
        mirror(p, c) == Add(Scaled(2, p), Scaled(-1, c))
        control[i \in 0..Len(ops)] ==
            IF i = 0 THEN <<0, 0>>
            ELSE CASE ops[i].cmd = "C" -> point(i, 3) [] ops[i].cmd \in {"S", "Q"} -> point(i, 1)
                   [] ops[i].cmd = "T" -> mirror(end[i - 1], control[i - 1]) [] OTHER -> end[i]
        curve(i) ==
            LET p == end[i - 1]    q == end[i]    c == control[i]
            IN CASE ops[i].cmd = "C" -> <<point(i, 1), c, q>>
                 [] ops[i].cmd = "S" -> <<mirror(p, control[i - 1]), c, q>>
                 [] ops[i].cmd \in {"Q", "T"} -> <<Third(c, p), Third(c, q), q>>
                 [] ops[i].cmd = "A" /\ p # q /\ 0 \notin {ops[i].args[1], ops[i].args[2]} ->
                        <<Somewhere, Somewhere, q>>
                 [] OTHER -> LineSegment(p, q)
        draws(i) == i \in DOMAIN ops /\ ops[i].cmd \notin {"M", "Z"}
        firsts == {i \in DOMAIN ops : draws(i) /\ ~draws(i - 1)}
        lastOf(i) == Max({j \in i..Len(ops) : \A k \in i..j : draws(k)})
        closes(i) == lastOf(i) < Len(ops) /\ ops[lastOf(i) + 1].cmd = "Z"
        outline(i) == <<end[i - 1]>> \o FlattenSeq([k \in 1..(lastOf(i) - i + 1) |-> curve(i + k - 1)])
                      \o (IF closes(i) THEN LineSegment(end[lastOf(i)], end[begun(i)]) ELSE <<>>)
        path(i) == LET o == outline(i) IN [pts |-> [k \in DOMAIN o |-> At(o[k], Placement)], closed |-> closes(i)]
        order == SetToSortSeq(firsts, LAMBDA i, j : i > j)
    IN [k \in DOMAIN order |-> path(order[k])]

(* Data is complete when it begins with a move and every command has its   *)
(* numbers; and plain when no smooth curve follows one of the other kind,  *)
(* whose control point the code mirrors all the same.                      *)
CompleteData == /\ Absolute(data[1].cmd) = "M"
                /\ \A i \in DOMAIN data : LET r == getArgsPerElement(data[i].cmd)
                                          IN IF r = 0 THEN data[i] \in [cmd : {"z", "Z"}, n : {0}]
                                             ELSE data[i].n > 0 /\ data[i].n % r = 0
PlainData == \A i \in 2..Len(data) :
    LET c == Absolute(data[i].cmd)    before == Absolute(data[i - 1].cmd)
    IN ~(c = "S" /\ before \in {"Q", "T"}) /\ ~(c = "T" /\ before \in {"C", "S"})

PathExact == (data # <<>> /\ CompleteData /\ PlainData) => parsePath[DataItems] = DrawnAs[Ops]

(* and of any data whose moves have their numbers the paths are curves     *)
CurvesWhole ==
    (/\ data # <<>> /\ Absolute(data[1].cmd) = "M"
     /\ \A i \in DOMAIN data : Absolute(data[i].cmd) = "M" => data[i].n >= 2) =>
    \A path \in ToSet(parsePath[DataItems]) : Len(path.pts) % 3 = 1

(* the path data a shape is short for *)
Round(rx, ry, p) == IF rx = 0 THEN <<>> ELSE D("A", <<rx, ry, 0, 0, 1>> \o p)
EllipseData(c, rx, ry) ==
    D("M", <<c[1] + rx, c[2]>>) \o Round(rx, ry, <<c[1], c[2] + ry>>) \o Round(rx, ry, <<c[1] - rx, c[2]>>)
    \o Round(rx, ry, <<c[1], c[2] - ry>>) \o Round(rx, ry, <<c[1] + rx, c[2]>>) \o D("Z", <<>>)
RectData(x, y, w, h, rx, ry) ==
    D("M", <<x + rx, y>>) \o D("H", <<x + w - rx>>) \o Round(rx, ry, <<x + w, y + ry>>)
    \o D("V", <<y + h - ry>>) \o Round(rx, ry, <<x + w - rx, y + h>>)
    \o D("H", <<x + rx>>) \o Round(rx, ry, <<x, y + h - ry>>)
    \o (IF rx = 0 THEN <<>> ELSE D("V", <<y + ry>>)) \o Round(rx, ry, <<x + rx, y>>) \o D("Z", <<>>)
Drawing(e) ==
    CASE e.el = "circle" -> parseCircle(e) [] e.el = "ellipse" -> parseEllipse(e)
      [] e.el = "rect" -> parseRect(e) [] e.el = "line" -> parseLine(e) [] e.el = "poly" -> parsePoly(e)
DataFor(e) ==
    LET radius(r, other) == IF r # -1 THEN r ELSE IF other # -1 THEN other ELSE 0
        rx == Max({0, Min({radius(e.rx, e.ry), e.w \div 2})})
        ry == Max({0, Min({radius(e.ry, e.rx), e.h \div 2})})
    IN CASE e.el = "circle" -> EllipseData(e.c, e.r, e.r)
         [] e.el = "ellipse" -> EllipseData(e.c, e.rx, e.ry)
         [] e.el = "line" -> D("M", e.p) \o D("L", e.q)
         [] e.el = "poly" -> D("M", e.points) \o (IF e.closed THEN D("Z", <<>>) ELSE <<>>)
         [] e.el = "rect" -> RectData(e.x, e.y, e.w, e.h, IF 0 \in {rx, ry} THEN 0 ELSE rx,
                                      IF 0 \in {rx, ry} THEN 0 ELSE ry)
Shown(e) == CASE e.el = "circle" -> e.r > 0 [] e.el = "ellipse" -> e.rx > 0 /\ e.ry > 0
              [] e.el = "rect" -> e.w # 0 /\ e.h # 0 [] OTHER -> TRUE
MovedTwice(e) == IF e.el = "rect" THEN Add(<<e.x, e.y>>, Scaled(-1, Placement.position)) ELSE <<0, 0>>

(* at a point two curves share, both leave it along one line *)
Smooth(pts, i) == LET u == Add(pts[i], Scaled(-1, pts[i - 1]))
                      v == Add(pts[i + 1], Scaled(-1, pts[i]))
                  IN u[1] * v[2] = u[2] * v[1] /\ u[1] * v[1] + u[2] * v[2] >= 0
ShapesExact ==
    LET paths == Drawing(element)
        meant == IF Shown(element) THEN parsePath[DataFor(element)] ELSE <<>>
    IN /\ Len(paths) = Len(meant)
       /\ \A k \in DOMAIN paths :
             /\ paths[k].closed = meant[k].closed
             /\ Len(paths[k].pts) = Len(meant[k].pts)
             /\ \A i \in DOMAIN paths[k].pts :
                   LET p == paths[k].pts    q == meant[k].pts[i]
                   IN /\ q # Somewhere => p[i] = Add(q, MovedTwice(element))
                      /\ q = Somewhere /\ i % 3 = 2 => Smooth(p, i + 2) /\ (i > 2 => Smooth(p, i - 1))

(* Path data and shapes are drawn as they are meant: from where the path   *)
(* stands, each curve with its control points, a mirrored one from the     *)
(* curve before it, and closed where it began; nothing is left out, and    *)
(* nothing drawn twice.  A shape is the path it is short for, and smooth   *)
(* where it is round; but a rectangle is moved by its position twice, and  *)
(* drawn to the left of it if its width is negative.                       *)
OutlinesExact == IF element.el = "path" THEN PathExact /\ CurvesWhole ELSE ShapesExact
===============================================================================
