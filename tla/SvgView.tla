-------------------------------- MODULE SvgView --------------------------------
(***************************************************************************)
(* How large graphics/nanosvg.c makes an image: parseSVG reads the size,   *)
(* the view and its alignment from the attributes of the svg element,      *)
(* shapes are read after it, and scaleToViewbox moves them, and their      *)
(* gradients, into the image.                                              *)
(*                                                                         *)
(* A shape is its bounds.  Its fill is a radial gradient, a transform      *)
(* <<a, b>> in each dimension (1 is x, 2 is y) from the gradient's         *)
(* coordinates to those of the shape: g is at a g + b.  Numbers are        *)
(* fractions <<n, d>>, d >= 0; the code has floats.  n/0 is infinite, and  *)
(* 0/0 is no number.                                                       *)
(***************************************************************************)
EXTENDS Integers, Sequences, FiniteSetsExt, SequencesExt

CONSTANTS
    SvgAttributes,  \* the values that each attribute of the svg element may have
    Boxes,          \* shapes [lo, hi, units, center, r]
    MaxAttributes,  \* bound: attributes of the svg element
    MaxShapes,      \* bound: shapes
    Units,          \* the units of the image ("px" at graphics.cpp:1022)
    Dpi             \* and its resolution (96)

ASSUME ViewAssumption == Dpi \in Nat \ {0} /\ MaxAttributes \in Nat /\ MaxShapes \in Nat

VARIABLES header, drawing, view
view_vars == <<header, drawing, view>>

-------------------------------------------------------------------------------
(* Fractions *)

gcd[p \in Nat \X Nat] == IF p[2] = 0 THEN p[1] ELSE gcd[<<p[2], p[1] % p[2]>>]
Frac[n, d \in Int] ==
    LET g == gcd[<<IF n < 0 THEN -n ELSE n, IF d < 0 THEN -d ELSE d>>]
        s == IF d < 0 THEN -1 ELSE 1
    IN IF g = 0 THEN <<0, 0>> ELSE <<s * (n \div g), s * (d \div g)>>
Whole(n) == <<n, 1>>
Zero == Whole(0)
One == Whole(1)
Plus(x, y) == Frac[x[1] * y[2] + y[1] * x[2], x[2] * y[2]]
Neg(x) == <<-x[1], x[2]>>
Minus(x, y) == Plus(x, Neg(y))
Times(x, y) == Frac[x[1] * y[1], x[2] * y[2]]
Over(x, y) == Frac[x[1] * y[2], x[2] * y[1]]
Leq(x, y) == x[1] * y[2] <= y[1] * x[2]
Positive(x) == x[1] > 0
Least(S) == CHOOSE x \in S : \A y \in S : Leq(x, y)
Greatest(S) == CHOOSE x \in S : \A y \in S : Leq(y, x)

Dims == 1..2

-------------------------------------------------------------------------------
(* Lengths, [value, units] *)

convertToPixels(c, font, orig, length) ==
    LET v == c.value
    IN CASE c.units \in {"", "px"} -> v
         [] c.units = "pt" -> Times(v, Frac[Dpi, 72])
         [] c.units = "pc" -> Times(v, Frac[Dpi, 6])
         [] c.units = "mm" -> Times(v, Frac[Dpi * 10, 254])
         [] c.units = "cm" -> Times(v, Frac[Dpi * 100, 254])
         [] c.units = "in" -> Times(v, Whole(Dpi))
         [] c.units = "em" -> Times(v, font)
         [] c.units = "ex" -> Times(Times(v, font), Frac[52, 100])
         [] c.units = "%" -> Plus(orig, Times(v, Times(length, Frac[1, 100])))

-------------------------------------------------------------------------------
(* The svg element.  view is what the parser knows; reads tells that the   *)
(* attributes are still looked at: after a viewBox with too few numbers    *)
(* the others are not.                                                     *)

NewView ==
    [image |-> <<Zero, Zero>>, viewMin |-> <<Zero, Zero>>, viewSize |-> <<Zero, Zero>>, fontSize |-> Zero,
     align |-> <<"Min", "Min">>, alignType |-> "none", shapes |-> <<>>, reads |-> TRUE,
     t |-> <<Zero, Zero>>, s |-> <<One, One>>, scaled |-> FALSE]

(* the numbers of a viewBox, as many as there are *)
parseViewBox(v, numbers) ==
    [v EXCEPT !.viewMin = [d \in Dims |-> IF d \in DOMAIN numbers THEN Whole(numbers[d]) ELSE @[d]],
              !.viewSize = [d \in Dims |-> IF d + 2 \in DOMAIN numbers THEN Whole(numbers[d + 2]) ELSE @[d]],
              !.reads = Len(numbers) = 4]

(* the value is the set of its words: the alignment of x is xMin, xMid or  *)
(* xMax, and that of y is looked for with a small y                        *)
Alignments == <<[Min |-> "xMin", Mid |-> "xMid", Max |-> "xMax"], [Min |-> "yMin", Mid |-> "yMid", Max |-> "yMax"]>>
parseAspectRatio(v, words) ==
    LET found(d) == {a \in {"Min", "Mid", "Max"} : Alignments[d][a] \in words}
    IN IF "none" \in words THEN [v EXCEPT !.alignType = "none"]
       ELSE [v EXCEPT !.align = [d \in Dims |-> IF found(d) = {} THEN @[d] ELSE CHOOSE a \in found(d) : TRUE],
                      !.alignType = IF "slice" \in words THEN "slice" ELSE "meet"]

parseSVG(v, name, value) ==
    LET pixels == convertToPixels(value, v.fontSize, Zero, Zero)
    IN CASE ~v.reads -> v
         [] v.reads /\ name = "font_size" -> [v EXCEPT !.fontSize = pixels]
         [] v.reads /\ name = "width" -> [v EXCEPT !.image[1] = pixels]
         [] v.reads /\ name = "height" -> [v EXCEPT !.image[2] = pixels]
         [] v.reads /\ name = "viewBox" -> parseViewBox(v, value)
         [] v.reads /\ name = "preserveAspectRatio" -> parseAspectRatio(v, value)

-------------------------------------------------------------------------------
(* Shapes.  The center of a gradient is in the shape's bounds or in the    *)
(* view as it is known so far.                                             *)

PlaceGradient(v, box) ==
    LET orig(d) == IF box.units = "object" THEN Whole(box.lo[d]) ELSE v.viewMin[d]
        length(d) == IF box.units = "object" THEN Whole(box.hi[d] - box.lo[d]) ELSE v.viewSize[d]
    IN [d \in Dims |-> <<convertToPixels(box.r, v.fontSize, Zero, Zero),
                         convertToPixels(box.center[d], v.fontSize, orig(d), length(d))>>]
AddBounds(v, box) ==
    [v EXCEPT !.shapes = Append(@, [lo |-> [d \in Dims |-> Whole(box.lo[d])], hi |-> [d \in Dims |-> Whole(box.hi[d])],
                                    fill |-> PlaceGradient(v, box)])]

imageBounds(shapes) ==
    [d \in Dims |-> IF shapes = <<>> THEN <<Zero, Zero>>
                    ELSE <<Least({shapes[i].lo[d] : i \in DOMAIN shapes}),
                           Greatest({shapes[i].hi[d] : i \in DOMAIN shapes})>>]

-------------------------------------------------------------------------------
(* The scaling *)

viewAlign(content, container, type) ==
    CASE type = "Min" -> Zero
      [] type = "Max" -> Minus(container, content)
      [] type = "Mid" -> Times(Minus(container, content), Frac[1, 2])

(* the sizes that are not given: the view's from the image's or from what  *)
(* is drawn, and the image's from the view's                               *)
Guess(v) ==
    LET bounds == imageBounds(v.shapes)
        drawn(d) == v.viewSize[d] = Zero /\ ~Positive(v.image[d])
        min == [d \in Dims |-> IF drawn(d) THEN bounds[d][1] ELSE v.viewMin[d]]
        size == [d \in Dims |-> IF drawn(d) THEN Minus(bounds[d][2], bounds[d][1])
                                ELSE IF v.viewSize[d] = Zero THEN v.image[d] ELSE v.viewSize[d]]
        image == [d \in Dims |-> IF v.image[d] = Zero THEN size[d] ELSE v.image[d]]
    IN [v EXCEPT !.viewMin = min, !.viewSize = size, !.image = image]

(* mutant of Aligned: the margin is not brought into the view's units *)
Aligned_Unscaled(v, k) ==
    LET margin(d) == viewAlign(Times(v.viewSize[d], k), v.image[d], v.align[d])
    IN [v EXCEPT !.s = <<k, k>>, !.t = [d \in Dims |-> Plus(@[d], margin(d))]]

(* one scale for both, and a margin where the image is not filled *)
Aligned(v, k) ==
    LET margin(d) == viewAlign(Times(v.viewSize[d], k), v.image[d], v.align[d])
    IN [v EXCEPT !.s = <<k, k>>, !.t = [d \in Dims |-> Plus(@[d], Over(margin(d), k))]]

Fit(v) ==
    LET s == [d \in Dims |-> IF Positive(v.viewSize[d]) THEN Over(v.image[d], v.viewSize[d]) ELSE Zero]
        w == [v EXCEPT !.t = [d \in Dims |-> Neg(v.viewMin[d])], !.s = s]
    IN CASE v.alignType = "none" -> w
         [] v.alignType = "meet" -> Aligned(w, Least({s[1], s[2]}))
         [] v.alignType = "slice" -> Aligned(w, Greatest({s[1], s[2]}))

(* a gradient is moved with its shape and turned round: it then takes a    *)
(* place in the image to the gradient's coordinate                         *)
scaleGradient(g, t, s) == [d \in Dims |-> <<Times(g[d][1], s[d]), Times(Plus(g[d][2], t[d]), s[d])>>]
Turned(g) ==
    IF \E d \in Dims : g[d][1] = Zero THEN g
    ELSE [d \in Dims |-> <<Over(One, g[d][1]), Neg(Over(g[d][2], g[d][1]))>>]

scaleToViewbox(v) ==
    LET w == Fit(Guess(v))
        us == Over(One, convertToPixels([value |-> One, units |-> Units], v.fontSize, Zero, One))
        s == [d \in Dims |-> Times(w.s[d], us)]
        moved(p) == [d \in Dims |-> Times(Plus(p[d], w.t[d]), s[d])]
    IN [w EXCEPT !.s = s, !.scaled = TRUE,
                 !.shapes = [i \in DOMAIN @ |-> [lo |-> moved(@[i].lo), hi |-> moved(@[i].hi),
                                                 fill |-> Turned(scaleGradient(@[i].fill, w.t, s))]]]

-------------------------------------------------------------------------------
(* The author writes an attribute once.  A file ends anywhere.             *)

ViewInit == header = <<>> /\ drawing = <<>> /\ view = NewView

WriteAttribute(name, value) ==
    /\ ~view.scaled /\ drawing = <<>> /\ Len(header) < MaxAttributes
    /\ \A i \in DOMAIN header : header[i].name # name
    /\ header' = Append(header, [name |-> name, value |-> value])
    /\ view' = parseSVG(view, name, value)
    /\ UNCHANGED drawing
WriteShape(box) ==
    /\ ~view.scaled /\ Len(drawing) < MaxShapes
    /\ drawing' = Append(drawing, box)
    /\ view' = AddBounds(view, box)
    /\ UNCHANGED header
EndFile ==
    /\ ~view.scaled
    /\ view' = scaleToViewbox(view)
    /\ UNCHANGED <<header, drawing>>

ViewNext ==
    \/ \E name \in DOMAIN SvgAttributes : \E value \in SvgAttributes[name] : WriteAttribute(name, value)
    \/ \E box \in Boxes : WriteShape(box)
    \/ EndFile
ViewSpec == ViewInit /\ [][ViewNext]_view_vars

-------------------------------------------------------------------------------
(* What the header means, in whatever order its attributes come *)

HasName(name) == \E i \in DOMAIN header : header[i].name = name
ValueOf(name) == header[CHOOSE i \in DOMAIN header : header[i].name = name].value
SizeNames == <<"width", "height">>
Font == IF HasName("font_size") THEN convertToPixels(ValueOf("font_size"), Zero, Zero, Zero) ELSE Zero
Given(d) == HasName(SizeNames[d]) /\ Positive(convertToPixels(ValueOf(SizeNames[d]), Font, Zero, Zero))

(* the part of the plane that is shown, and how large the image is *)
Frame(d) ==
    CASE HasName("viewBox") -> <<Whole(ValueOf("viewBox")[d]), Whole(ValueOf("viewBox")[d] + ValueOf("viewBox")[d + 2])>>
      [] ~HasName("viewBox") /\ Given(d) -> <<Zero, convertToPixels(ValueOf(SizeNames[d]), Font, Zero, Zero)>>
      [] ~HasName("viewBox") /\ ~Given(d) ->
            <<Whole(Min({drawing[i].lo[d] : i \in DOMAIN drawing})), Whole(Max({drawing[i].hi[d] : i \in DOMAIN drawing}))>>
ImageSize(d) == IF Given(d) THEN convertToPixels(ValueOf(SizeNames[d]), Font, Zero, Zero)
                ELSE Minus(Frame(d)[2], Frame(d)[1])
FitMeant == IF ~HasName("preserveAspectRatio") \/ "none" \in ValueOf("preserveAspectRatio") THEN "none"
            ELSE IF "slice" \in ValueOf("preserveAspectRatio") THEN "slice" ELSE "meet"
AlignMeant(d) ==
    LET found == {a \in {"Min", "Mid", "Max"} : Alignments[d][a] \in ValueOf("preserveAspectRatio")}
    IN IF found = {} THEN "Min" ELSE CHOOSE a \in found : TRUE

(* Where the code does not do that: a viewBox of fewer than four numbers   *)
(* or without an area, a negative size, a length in em before the font's   *)
(* size, nothing to guess from.  And an alignment of y is not read as it   *)
(* is spelled in SVG, with a large Y, and without preserveAspectRatio the  *)
(* two scales are independent.                                             *)
PlainHeader ==
    /\ HasName("viewBox") => Len(ValueOf("viewBox")) = 4 /\ ValueOf("viewBox")[3] > 0 /\ ValueOf("viewBox")[4] > 0
    /\ \A i, j \in DOMAIN header :
          /\ header[i].name \in ToSet(SizeNames) => Leq(Zero, header[i].value.value)
          /\ header[i].name = "font_size" /\ header[j].name \in ToSet(SizeNames) /\ j < i =>
                header[j].value.units \notin {"em", "ex"}
    /\ \A d \in Dims : (~HasName("viewBox") /\ ~Given(d)) => (drawing # <<>> /\ Frame(d)[1] # Frame(d)[2])

(* The frame is where it belongs: it fills the image, or it is scaled as   *)
(* it is, lies in the image or covers it, touches two of its sides and is  *)
(* at the side it is aligned to, or in the middle.  The order of the       *)
(* attributes and of the shapes does not matter.  Shapes and gradients     *)
(* stay where they were in it: the center of a gradient is its 0, and one  *)
(* radius beside it is its 1.                                              *)
ViewFits ==
    (view.scaled /\ PlainHeader) =>
    LET moved(d, x) == Times(Plus(x, view.t[d]), view.s[d])
        lo(d) == moved(d, Frame(d)[1])
        hi(d) == moved(d, Frame(d)[2])
        fills(d) == lo(d) = Zero /\ hi(d) = ImageSize(d)
        margins(d) == <<lo(d), Minus(ImageSize(d), hi(d))>>
        gradient(i, d, x) == Plus(Times(view.shapes[i].fill[d][1], x), view.shapes[i].fill[d][2])
    IN /\ \A d \in Dims : view.image[d] = ImageSize(d)
       /\ FitMeant = "none" => \A d \in Dims : fills(d)
       /\ FitMeant # "none" =>
             /\ view.s[1] = view.s[2]
             /\ \E d \in Dims : fills(d)
             /\ \A d \in Dims :
                   /\ FitMeant = "meet" => Leq(Zero, lo(d)) /\ Leq(hi(d), ImageSize(d))
                   /\ FitMeant = "slice" => Leq(lo(d), Zero) /\ Leq(ImageSize(d), hi(d))
                   /\ AlignMeant(d) = "Min" => margins(d)[1] = Zero
                   /\ AlignMeant(d) = "Mid" => margins(d)[1] = margins(d)[2]
                   /\ AlignMeant(d) = "Max" => margins(d)[2] = Zero
       /\ \A i \in DOMAIN drawing, d \in Dims :
             /\ view.shapes[i].lo[d] = moved(d, Whole(drawing[i].lo[d]))
             /\ view.shapes[i].hi[d] = moved(d, Whole(drawing[i].hi[d]))
             /\ LET c == drawing[i].center[d]
                    box == IF drawing[i].units = "object" THEN <<Whole(drawing[i].lo[d]), Whole(drawing[i].hi[d])>>
                           ELSE IF HasName("viewBox") THEN Frame(d) ELSE <<Zero, Zero>>
                    center == IF c.units = "%" THEN Plus(box[1], Times(Times(c.value, Frac[1, 100]), Minus(box[2], box[1])))
                              ELSE c.value
                IN drawing[i].r.value # Zero =>
                      /\ gradient(i, d, moved(d, center)) = Zero
                      /\ gradient(i, d, moved(d, Plus(center, drawing[i].r.value))) = One
===============================================================================
