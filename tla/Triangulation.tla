---------------------------- MODULE Triangulation ----------------------------
(***************************************************************************)
(* Geometry::triangulate of src/graphics/graphics.cpp: closed rings of     *)
(* points are merged into a path, and a line sweeps over it from the       *)
(* highest point to the lowest.  It keeps the edges it meets in a search   *)
(* tree (a sequence here: SearchTree implements SortedSequence), and with  *)
(* each edge the monotone polygon that begins there; finished polygons are *)
(* cut into triangles.                                                     *)
(*                                                                         *)
(* Rings do not cross: a step that would compute a crossing is noticed in  *)
(* `met' and what follows from it is not modelled.  A quotient is a pair.  *)
(***************************************************************************)
EXTENDS Path, FiniteSets
LOCAL INSTANCE SequencesExt
LOCAL INSTANCE FiniteSetsExt

CONSTANTS
    Rings,          \* what the client begins a path with: sequences of points
    Others,         \* the paths it merges into it
    Fits(_)         \* whether a path is one whose rings do not touch

VARIABLES
    path,           \* points, and where each of its parts starts
    sweeping,       \* triangulate() was called
    events,         \* the points the sweep has not reached
    edges,          \* the edges the sweep line meets, from begin() to end()
    handed,         \* the polygons that triangulate_monotone was called with
    elements,       \* the triangles, one sequence for each polygon
    met             \* whether a crossing was computed

sweep_vars == <<path, sweeping, events, edges, handed, elements, met>>

-------------------------------------------------------------------------------
(* Points and edges *)

P(i) == path.points[i]
Off(from, to) == <<P(to)[1] - P(from)[1], P(to)[2] - P(from)[2]>>

(* cmp_pt: i comes before j in the sweep *)
Higher(i, j) == P(i)[2] > P(j)[2] \/ (P(i)[2] = P(j)[2] /\ P(i)[1] > P(j)[1])

(* where the edge is at the height of point i: a pair of what to divide     *)
getx(e, i) ==
    LET a == P(e.first)
        b == P(e.second)
        dy == a[2] - b[2]
    IN IF dy = 0 /\ P(i)[1] <= a[1] /\ P(i)[1] >= b[1] THEN <<P(i)[1], 1>>
       ELSE IF P(i)[2] = a[2] THEN <<a[1], 1>>
       ELSE IF P(i)[2] = b[2] THEN <<b[1], 1>>
       ELSE <<a[1] * dy + (b[1] - a[1]) * (a[2] - P(i)[2]), dy>>
Greater(q, r) == q[1] * r[2] > r[1] * q[2]

(* cmp_x: e is before f in the tree, which is to the right of it *)
Before(e, f, i) == Greater(getx(e, i), getx(f, i))

(* rec_intersection(): whether the edge at k and its neighbour at n seem to *)
(* be in the other order where the first of them ends                       *)
Crosses(es, k, n) ==
    /\ n \in 1..Len(es)
    /\ LET end == IF Higher(es[k].second, es[n].second) THEN es[k].second ELSE es[n].second
       IN IF n < k THEN Before(es[k], es[n], end) ELSE Before(es[n], es[k], end)

-------------------------------------------------------------------------------
(* triangulate_monotone: the chains from their lowest point up, two         *)
(* iterators that take turns.  `mine' and `other' are counted from 0, as    *)
(* reverse iterators are.                                                   *)

Inward(s, d) == IF s.left THEN d < 0 ELSE d > 0
Back(chain) == chain[1]

(* the points of the chain below the iterator that the new one cuts off,    *)
(* down to the lowest                                                       *)
CutFrom(s) ==
    LET c == s.chain
        top == s.at + 1
        inward(j) == Inward(s, determinant(Off(c[j - 1], c[j]), Off(c[j - 1], c[top])))
        stop == Max({1} \cup {j \in 2..(top - 1) : ~inward(j)})
    IN [s EXCEPT !.chain = SubSeq(c, 1, stop) \o SubSeq(c, top, Len(c)),
                 !.at = stop,
                 !.out = @ \o [n \in 1..(top - 1 - stop) |->
                                  <<c[top], c[top - n], c[top - n - 1]>>]]

(* the lowest itself, which the other chain's lowest is on the far side of  *)
CutLowest(s) ==
    LET c == s.chain
        d == determinant(Off(c[1], c[2]), Off(Back(s.facing), c[s.at + 1]))
    IN IF s.at = 1 /\ Inward(s, d)
       THEN [s EXCEPT !.chain = Tail(c), !.at = 0,
                      !.out = Append(@, <<Back(c), c[2], Back(s.facing)>>)]
       ELSE s

(* mutant of Switch: the points of the other chain that were cut off stay   *)
Switch_Keeps(s) ==
    LET c == s.chain
        i == c[s.at + 1]
        f == s.facing
        first == IF i # Back(c) /\ i # Back(f) THEN <<<<Back(c), i, Back(f)>>>> ELSE <<>>
        fan == [n \in 1..Max({0, Min({s.there, Len(f) - 1}) - 1}) |-> <<f[n + 1], i, f[n]>>]
    IN [s EXCEPT !.out = @ \o first \o fan,
                 !.chain = IF i # Back(c) THEN Tail(c) ELSE c,
                 !.at = 0, !.switched = FALSE]

(* the first point after the other chain's turn: all that is between the    *)
(* two iterators is cut off                                                 *)
Switch(s) ==
    LET c == s.chain
        i == c[s.at + 1]
        f == s.facing
        first == IF i # Back(c) /\ i # Back(f) THEN <<<<Back(c), i, Back(f)>>>> ELSE <<>>
        fan == [n \in 1..Max({0, Min({s.there, Len(f) - 1}) - 1}) |-> <<f[n + 1], i, f[n]>>]
    IN [s EXCEPT !.out = @ \o first \o fan,
                 !.facing = IF s.there > 1 THEN SubSeq(f, s.there, Len(f)) ELSE f,
                 !.there = IF @ > 1 THEN 1 ELSE @,
                 !.chain = IF i # Back(c) THEN Tail(c) ELSE c,
                 !.at = 0, !.switched = FALSE]

Advance(s) == [s EXCEPT !.at = @ + 1]

(* whose point is the next one up *)
MyTurn(s) ==
    /\ s.at < Len(s.chain)
    /\ s.there < Len(s.facing) => ~Higher(s.chain[s.at + 1], s.facing[s.there + 1])

TurnOver(s) == [chain |-> s.facing, facing |-> s.chain, at |-> s.there, there |-> s.at,
                left |-> ~s.left, switched |-> TRUE, out |-> s.out]

RECURSIVE Cut(_)
Cut(s) ==
    IF s.at = Len(s.chain) /\ s.there = Len(s.facing) THEN s.out
    ELSE IF ~MyTurn(s) THEN Cut(TurnOver(s))
    ELSE IF s.at > 1 \/ (~s.switched /\ s.at > 0) THEN Cut(Advance(CutLowest(CutFrom(s))))
    ELSE IF s.switched THEN Cut(Advance(Switch(s)))
    ELSE Cut(Advance(s))

triangulate_monotone(poly) ==
    Cut([chain |-> Reverse(poly.left), facing |-> Reverse(poly.right), at |-> 0, there |-> 0,
         left |-> TRUE, switched |-> FALSE, out |-> <<>>])

-------------------------------------------------------------------------------
(* Monotone polygons.  An edge owns a sequence of them: none if it is a     *)
(* right one, or one, or two if another is merging into the first.          *)

Pushed(poly, side, i) == [poly EXCEPT ![side] = Append(@, i)]

(* the point ends a merge: what was merging is finished ... *)
PushRight(polys, i) ==
    [polys |-> <<Pushed(polys[1], "right", i)>>,
     out |-> IF Len(polys) = 1 THEN <<>> ELSE <<Pushed(polys[2], "right", i)>>]
(* ... or goes on, and what it merged into is finished *)
PushLeft(polys, i) ==
    [polys |-> <<Pushed(Last(polys), "left", i)>>,
     out |-> IF Len(polys) = 1 THEN <<>> ELSE <<Pushed(polys[1], "left", i)>>]

Owner(es, k) == IF es[k].right THEN k - 1 ELSE k

Hand(out) ==
    /\ handed' = handed \o out
    /\ elements' = elements \o [k \in DOMAIN out |-> triangulate_monotone(out[k])]

-------------------------------------------------------------------------------
(* The sweep *)

(* what find() returns for an edge: the first of its equals, or one of the  *)
(* two around the place where it would be                                   *)
Found(es, e, i) ==
    LET before == {k \in DOMAIN es : Before(es[k], e, i)}
        n == Cardinality(before)
    IN IF n < Len(es) /\ ~Before(e, es[n + 1], i) THEN {n + 1}
       ELSE {n, n + 1} \cap DOMAIN es

(* insert() puts an edge behind the first of its equals *)
Inserted(es, e, i) ==
    LET n == Cardinality({k \in DOMAIN es : Before(es[k], e, i)})
        equal == n < Len(es) /\ ~Before(e, es[n + 1], i)
        at == IF equal THEN n + 2 ELSE n + 1
    IN InsertAt(es, at, e)

Edge(i, j, right, polys) == [first |-> i, second |-> j, right |-> right, polys |-> polys]

Top == CHOOSE i \in events : \A j \in events \ {i} : Higher(i, j)

(* mutant of Adjacent: the neighbours are not exchanged *)
Adjacent_AsIs(i) ==
    LET k == part(path, i)
    IN <<prev(path, k, i), next(path, k, i)>>

(* the neighbours of a point in its ring, the right one first when both are *)
(* below                                                                    *)
Adjacent(i) ==
    LET k == part(path, i)
        p == prev(path, k, i)
        n == next(path, k, i)
    IN IF determinant(Off(i, p), Off(i, n)) > 0 THEN <<n, p>> ELSE <<p, n>>

Reached(i) ==
    /\ sweeping /\ events # {} /\ i = Top
    /\ events' = events \ {i}
    /\ UNCHANGED <<path, sweeping>>

(* what a new point inside does to the polygon around it: what is to its    *)
(* right keeps the edge, and what is to its left goes to the new one        *)
Divided(polys, i) ==
    LET poly == polys[1]
        lb == Last(poly.left)
        rb == Last(poly.right)
    IN IF Len(polys) = 2
       THEN <<<<Pushed(poly, "right", i)>>, <<Pushed(polys[2], "left", i)>>>>
       ELSE IF Higher(rb, lb)
       THEN <<<<[left |-> <<lb>>, right |-> <<lb, i>>]>>, <<Pushed(poly, "left", i)>>>>
       ELSE <<<<Pushed(poly, "right", i)>>, <<[left |-> <<rb, i>>, right |-> <<rb>>]>>>>

(* the two edges of a point whose neighbours are both below it *)
Begun(es, i, adj, l, r) ==
    LET one == Inserted(es, Edge(i, adj[1], l.right, l.polys), i)
    IN Inserted(one, Edge(i, adj[2], r.right, r.polys), i)
At(es, i, j) == CHOOSE k \in DOMAIN es : es[k].first = i /\ es[k].second = j

Begin(i) ==
    LET adj == Adjacent(i)
        near == Found(edges, Edge(i, adj[1], FALSE, <<>>), i)
    IN /\ Reached(i) /\ Higher(i, adj[1]) /\ Higher(i, adj[2])
       /\ \E k \in IF near = {} THEN {0} ELSE near :
             IF k # 0 /\ Before(Edge(i, adj[1], FALSE, <<>>), edges[k], i) = edges[k].right
             THEN LET o == Owner(edges, k)
                      divided == Divided(edges[o].polys, i)
                  IN edges' = Begun([edges EXCEPT ![o].polys = divided[1]], i, adj,
                                    [right |-> TRUE, polys |-> <<>>],
                                    [right |-> FALSE, polys |-> divided[2]])
             ELSE edges' = Begun(edges, i, adj,
                                 [right |-> FALSE, polys |-> <<[left |-> <<i>>, right |-> <<i>>]>>],
                                 [right |-> TRUE, polys |-> <<>>])
       /\ met' = (met \/ Crosses(edges', At(edges', i, adj[1]), At(edges', i, adj[1]) - 1)
                      \/ Crosses(edges', At(edges', i, adj[2]), At(edges', i, adj[2]) + 1))
       /\ UNCHANGED <<handed, elements>>

(* from the edge that find() returned on to the next one that ends in i *)
Ending(i, from) == Min({k \in from..Len(edges) : edges[k].second = i})

(* one edge ends and another begins: it takes the place of the first *)
Pass(i) ==
    LET adj == Adjacent(i)
        up == IF Higher(adj[1], i) THEN adj[1] ELSE adj[2]
        down == IF Higher(adj[1], i) THEN adj[2] ELSE adj[1]
    IN /\ Reached(i) /\ Higher(up, i) /\ Higher(i, down)
       /\ \E from \in Found(edges, Edge(up, i, FALSE, <<>>), i) :
             LET k == Ending(i, from)
                 o == Owner(edges, k)
                 push == IF edges[k].right THEN PushRight(edges[o].polys, i)
                         ELSE PushLeft(edges[o].polys, i)
             IN /\ edges' = [edges EXCEPT ![k].first = i, ![k].second = down,
                                          ![o].polys = push.polys]
                /\ Hand(push.out)
                /\ met' = (met \/ Crosses(edges', k, k - 1) \/ Crosses(edges', k, k + 1))

Without(es, k, l) == RemoveAt(RemoveAt(es, l), k)

(* both edges of the point end: the polygons on its sides merge, or the one *)
(* between the edges is finished                                            *)
End(i) ==
    LET adj == Adjacent(i)
    IN /\ Reached(i) /\ Higher(adj[1], i) /\ Higher(adj[2], i)
       /\ \E from \in Found(edges, Edge(adj[2], i, FALSE, <<>>), i) :
             LET k == Ending(i, from)
                 l == Ending(i, k + 1)
                 right == PushRight(edges[k - 1].polys, i)
                 left == PushLeft(edges[l].polys, i)
                 last == [m \in DOMAIN edges[k].polys |-> Pushed(edges[k].polys[m], "left", i)]
             IN /\ IF edges[k].right
                   THEN /\ edges' = Without([edges EXCEPT ![k - 1].polys = right.polys \o left.polys], k, l)
                        /\ Hand(right.out \o left.out)
                   ELSE /\ edges' = Without(edges, k, l)
                        /\ Hand(Reverse(last))
                /\ met' = (met \/ (k > 1 /\ Crosses(edges', k - 1, k)))

-------------------------------------------------------------------------------
(* The client: it builds a path, has it triangulated and renders it *)

TriangulationInit ==
    /\ path = Empty /\ sweeping = FALSE /\ events = {}
    /\ edges = <<>> /\ handed = <<>> /\ elements = <<>> /\ met = FALSE

Merge(other) ==
    /\ ~sweeping
    /\ path' = merge(path, other)
    /\ UNCHANGED <<sweeping, events, edges, handed, elements, met>>

Triangulate ==
    /\ ~sweeping /\ path # Empty
    /\ sweeping' = TRUE /\ events' = DOMAIN path.points
    /\ UNCHANGED <<path, edges, handed, elements, met>>

Render == sweeping /\ events = {} /\ UNCHANGED sweep_vars

TriangulationNext ==
    \/ path = Empty /\ \E r \in Rings : Merge([points |-> r, parts |-> <<1>>])
    \/ path # Empty /\ ~sweeping /\ \E o \in {p \in Others : Fits(merge(path, p))} : Merge(o)
    \/ Triangulate
    \/ \E i \in events : Begin(i) \/ Pass(i) \/ End(i)
    \/ Render

-------------------------------------------------------------------------------
(* Properties *)

(* Twice the area a sequence of points encloses, positive if it runs        *)
(* around it counter-clockwise.                                             *)
Area(ring) ==
    MapThenSumSet(LAMBDA k : determinant(P(ring[k]), P(ring[IF k = Len(ring) THEN 1 ELSE k + 1])),
                  DOMAIN ring)
Absolute(n) == IF n < 0 THEN -n ELSE n

(* The edges the sweep line meets stand in the tree from right to left, to  *)
(* the height where the first of two neighbours ends, though the comparator *)
(* changes at every point (graphics.cpp:605); every other is a right one,   *)
(* and the ones before those, which (edge_iter-1)->v.poly reads, own the    *)
(* polygon between them; no crossing is met where there is none.            *)
SweepOrdered ==
    /\ \A k \in DOMAIN edges : /\ edges[k].right = (k % 2 = 0)
                               /\ Len(edges[k].polys) \in IF edges[k].right THEN {0} ELSE {1, 2}
    /\ Len(edges) % 2 = 0
    /\ \A k \in 1..(Len(edges) - 1) : ~Crosses(edges, k, k + 1)
    /\ ~met

Descends(chain) == \A k \in 1..(Len(chain) - 1) : Higher(chain[k], chain[k + 1])
Around(poly) == Reverse(poly.left) \o (IF Head(poly.left) = Head(poly.right) THEN Tail(poly.right) ELSE poly.right)

Ring(k) == [n \in 1..(Limit(path, k) - path.parts[k]) |-> path.parts[k] + n - 1]

(* whether point i is inside the ring k: a ray from it meets an odd number  *)
(* of its sides                                                             *)
Encloses(k, i) ==
    LET ring == Ring(k)
        meets(m, n) == /\ P(m)[2] > P(i)[2] /\ P(n)[2] <= P(i)[2]
                       /\ determinant(Off(n, m), Off(n, i)) > 0
        met_by == {n \in ToSet(ring) : meets(n, next(path, k, n)) \/ meets(next(path, k, n), n)}
    IN Cardinality(met_by) % 2 = 1

(* the area between the rings: one that is inside another is a hole *)
Between ==
    MapThenSumSet(LAMBDA k : LET nested == {l \in DOMAIN path.parts \ {k} : Encloses(l, path.parts[k])}
                                 size == Absolute(Area(Ring(k)))
                             IN IF Cardinality(nested) % 2 = 0 THEN size ELSE -size,
                  DOMAIN path.parts)

(* the polygons handed to triangulate_monotone are monotone, none of them   *)
(* is empty or turned over, and when the sweep is over they make up the     *)
(* area of the path                                                         *)
PiecesPartition ==
    /\ \A k \in DOMAIN handed : /\ Descends(handed[k].left) /\ Descends(handed[k].right)
                                /\ Area(Around(handed[k])) > 0
    /\ sweeping /\ events = {} =>
          /\ edges = <<>>
          /\ MapThenSumSet(LAMBDA k : Area(Around(handed[k])), DOMAIN handed) = Between

Convex(ring) ==
    \A k \in DOMAIN ring :
        LET on == ring[IF k = Len(ring) THEN 1 ELSE k + 1]
            back == ring[IF k = 1 THEN Len(ring) ELSE k - 1]
        IN determinant(Off(ring[k], on), Off(ring[k], back)) >= 0

(* The polygons partition the path, whatever its points do at equal         *)
(* heights, with a hole or a second ring in it: no point is pushed to a     *)
(* wrong chain, no polygon is lost when two merge or one is divided.  Every *)
(* one of them is cut into two triangles less than it has corners, and one  *)
(* without a corner that turns inward is covered by them.  Others need not  *)
(* be: the test at the lowest point (graphics.cpp:539) compares sides that  *)
(* do not meet.                                                             *)
TrianglesCover ==
  /\ PiecesPartition
  /\ \A k \in DOMAIN handed :
        LET ring == Around(handed[k])
            size == MapThenSumSet(LAMBDA n : Absolute(Area(elements[k][n])), DOMAIN elements[k])
        IN /\ Len(elements[k]) = Cardinality({ring[n] : n \in DOMAIN ring}) - 2
           /\ Convex(ring) => size = Area(ring)
===============================================================================
