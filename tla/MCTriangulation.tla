--------------------------- MODULE MCTriangulation ---------------------------
(***************************************************************************)
(* Values of Triangulation's constants for TLC: which rings and paths are  *)
(* ones whose sides do not touch, by their coordinates alone.              *)
(***************************************************************************)
EXTENDS Triangulation

(* the side of the line from a to b that c is on *)
Turn3(a, b, c) == (b[1] - a[1]) * (c[2] - a[2]) - (b[2] - a[2]) * (c[1] - a[1])
Apart(x, y) == (x > 0 /\ y > 0) \/ (x < 0 /\ y < 0)
Within(a, b, c) ==
    \A d \in {1, 2} : (a[d] <= c[d] /\ c[d] <= b[d]) \/ (b[d] <= c[d] /\ c[d] <= a[d])
On(a, b, c) == Turn3(a, b, c) = 0 /\ Within(a, b, c)

(* the segments from a to b and from c to d have no point in common *)
Clear(a, b, c, d) ==
    /\ ~On(a, b, c) /\ ~On(a, b, d) /\ ~On(c, d, a) /\ ~On(c, d, b)
    /\ \/ Apart(Turn3(a, b, c), Turn3(a, b, d))
       \/ Apart(Turn3(c, d, a), Turn3(c, d, b))

After(r, k) == r[IF k = Len(r) THEN 1 ELSE k + 1]
Simple(r) ==
    /\ \A k \in DOMAIN r : Turn3(r[k], After(r, k), After(r, IF k = Len(r) THEN 1 ELSE k + 1)) # 0
    /\ \A k, l \in DOMAIN r :
          k + 1 < l /\ ~(k = 1 /\ l = Len(r)) => Clear(r[k], After(r, k), r[l], After(r, l))

(* the rings of a path, each of them simple and no two touching; at most    *)
(* one that was merged into another path                                    *)
MCFits(p) ==
    LET rings == Contours(p)
    IN \A k \in DOMAIN rings, l \in DOMAIN rings : k < l =>
          \A m \in DOMAIN rings[k], n \in DOMAIN rings[l] :
              Clear(rings[k][m], After(rings[k], m), rings[l][n], After(rings[l], n))

Grid == (0..2) \X (0..2)
First(a, b) == a[1] < b[1] \/ (a[1] = b[1] /\ a[2] < b[2])
Small(n) == {r \in [1..n -> Grid] : (\A k \in 2..n : First(r[1], r[k])) /\ Simple(r)}

(* rings that are divided and that merge again, in every order *)
Large == {
    <<<<0, 4>>, <<0, 0>>, <<4, 0>>, <<4, 4>>>>,
    <<<<3, 0>>, <<2, 1>>, <<1, 1>>, <<2, 3>>, <<2, 2>>, <<3, 3>>>>,
    <<<<1, 0>>, <<3, 0>>, <<2, 3>>, <<2, 2>>, <<1, 3>>, <<1, 1>>, <<0, 2>>>>,
    <<<<0, 3>>, <<1, 1>>, <<2, 1>>, <<1, 0>>, <<3, 1>>, <<3, 2>>, <<1, 2>>>>,
    <<<<3, 2>>, <<2, 1>>, <<3, 1>>, <<2, 0>>, <<0, 0>>, <<1, 3>>, <<1, 2>>>>,
    <<<<0, 0>>, <<3, 2>>, <<3, 1>>, <<4, 4>>, <<2, 3>>, <<1, 4>>, <<0, 2>>, <<1, 3>>>>,
    <<<<0, 4>>, <<2, 3>>, <<3, 3>>, <<4, 1>>, <<2, 0>>, <<0, 1>>, <<1, 2>>, <<3, 1>>>>,
    <<<<0, 0>>, <<3, 2>>, <<1, 0>>, <<4, 2>>, <<4, 3>>, <<2, 2>>, <<3, 3>>, <<1, 2>>, <<1, 3>>>>,
    <<<<3, 4>>, <<0, 2>>, <<1, 2>>, <<2, 0>>, <<2, 2>>, <<4, 0>>, <<3, 2>>, <<3, 3>>, <<2, 3>>>>,
    <<<<1, 0>>, <<2, 1>>, <<0, 0>>, <<0, 3>>, <<2, 4>>, <<1, 1>>, <<2, 3>>, <<4, 0>>, <<3, 1>>>> }

MCRings == UNION {Small(n) : n \in 3..5} \cup Large

(* a hole for the square; two rings beside the others, one above the other  *)
MCOthers == {
    [points |-> <<<<1, 2>>, <<2, 3>>, <<3, 1>>>>, parts |-> <<1>>],
    [points |-> <<<<5, 1>>, <<7, 0>>, <<6, 2>>, <<5, 4>>, <<8, 3>>, <<6, 3>>>>, parts |-> <<1, 4>>] }
===============================================================================
