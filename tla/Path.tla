--------------------------------- MODULE Path ---------------------------------
(***************************************************************************)
(* Path of src/graphics/graphics.cpp: points, and where each of the rings  *)
(* they are divided into, its parts, starts.  Coordinates are small        *)
(* integers, on which the code's float arithmetic is exact.  Indices count *)
(* from 1.                                                                 *)
(***************************************************************************)
EXTENDS Integers, Sequences
LOCAL INSTANCE FiniteSetsExt

Empty == [points |-> <<>>, parts |-> <<1>>]

(* mutant of merge: the parts of the other path start where they did there *)
merge_Unshifted(a, other) ==
    [points |-> a.points \o other.points,
     parts |-> IF a.points = <<>> THEN a.parts ELSE a.parts \o other.parts]

(* the parts of the first path merged into an empty one are not taken over *)
merge(a, other) ==
    [points |-> a.points \o other.points,
     parts |-> IF a.points = <<>> THEN a.parts
               ELSE a.parts \o [k \in DOMAIN other.parts |-> other.parts[k] + Len(a.points)]]

(* which part the point i is of: the last, unless two starts are around it *)
part(a, i) ==
    Min({Len(a.parts)} \cup {k \in 1..(Len(a.parts) - 1) : a.parts[k] <= i /\ i < a.parts[k + 1]})
Limit(a, k) == IF k = Len(a.parts) THEN Len(a.points) + 1 ELSE a.parts[k + 1]
next(a, k, i) == IF i + 1 = Limit(a, k) THEN a.parts[k] ELSE i + 1
prev(a, k, i) == IF i = a.parts[k] THEN Limit(a, k) - 1 ELSE i - 1

(* the rings of a path *)
Contours(a) == [k \in DOMAIN a.parts |-> SubSeq(a.points, a.parts[k], Limit(a, k) - 1)]

determinant(u, v) == u[1] * v[2] - u[2] * v[1]
===============================================================================
