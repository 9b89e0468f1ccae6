---------------------------------- MODULE Svg ----------------------------------
(***************************************************************************)
(* How graphics/nanosvg.c makes shapes of the elements of an SVG file: a   *)
(* stack of attributes that elements inherit, definitions (defs) that are  *)
(* drawn where they are used, and gradients that shapes are painted with.  *)
(*                                                                         *)
(* An author writes a document tag by tag.  A place is a number and a      *)
(* transform <<a, b>> takes x to ax+b; a shape is where its origin is.     *)
(* Of the properties that elements inherit, fill and stroke stand for all. *)
(***************************************************************************)
EXTENDS Integers, Sequences, FiniteSetsExt, SequencesExt

CONSTANTS
    Dialects,       \* sets of tags [el, attrs] one document is written of
    MaxTags,        \* bound: elements of a document
    MaxAttr         \* levels of the stack (128 in the code)

ASSUME SvgAssumption == MaxAttr \in Nat \ {0}

VARIABLES tags, doc, parser
svg_vars == <<tags, doc, parser>>

-------------------------------------------------------------------------------
(* Attributes, [name, value].  A paint is none, a colour or a gradient's   *)
(* name                                                                    *)

NoPaint == [is |-> "none"]
Colored(c) == [is |-> "color", color |-> c]
Url(id) == [is |-> "url", url |-> id]

(* use is the definition a level was pushed for, 0 if for none             *)
FirstLevel == [id |-> "", fill |-> Colored(0), stroke |-> NoPaint, xform |-> <<1, 0>>, position |-> 0,
               visible |-> TRUE, use |-> 0, stop |-> [offset |-> 0, color |-> 0]]

Premultiply(t, s) == <<t[1] * s[1], t[1] * s[2] + t[2]>>
Placing(t, x) == t[1] * x + t[2]

parseAttr(a, name, value) ==
    CASE name = "x" -> [a EXCEPT !.position = value]
      [] name = "display" -> [a EXCEPT !.visible = @ /\ value # "none"]
      [] name = "fill" -> [a EXCEPT !.fill = value]
      [] name = "stroke" -> [a EXCEPT !.stroke = value]
      [] name = "transform" -> [a EXCEPT !.xform = Premultiply(@, value)]
      [] name = "stop-color" -> [a EXCEPT !.stop.color = value]
      [] name = "offset" -> [a EXCEPT !.stop.offset = value]
      [] name = "id" -> [a EXCEPT !.id = value]
      [] OTHER -> a

parseAttribs(a, attrs) == FoldLeft(LAMBDA b, attr : parseAttr(b, attr.name, attr.value), a, attrs)
Has(attrs, name) == \E i \in DOMAIN attrs : attrs[i].name = name
Value(attrs, name, default) ==
    IF Has(attrs, name) THEN attrs[Min({i \in DOMAIN attrs : attrs[i].name = name})].value ELSE default

-------------------------------------------------------------------------------
(* The parser *)

createParser == [attr |-> <<FirstLevel>>, defsFlag |-> FALSE, defs |-> <<>>, gradients |-> <<>>,
                 shapes |-> <<>>, status |-> "reads"]

getAttr(p) == Last(p.attr)
Change(p, level) == [p EXCEPT !.attr = ReplaceAt(@, Len(@), level)]

(* on a full stack nothing is pushed, but what was not pushed is popped    *)
pushAttr(p) == IF Len(p.attr) < MaxAttr THEN [p EXCEPT !.attr = Append(@, Last(@))] ELSE p
popAttr(p) == IF Len(p.attr) > 1 THEN [p EXCEPT !.attr = Front(@)] ELSE p
Styled(p, attrs) == Change(p, parseAttribs(getAttr(p), attrs))

(* Gradients, the newest first.  A gradient without stops has those of the *)
(* one it refers to; a reference that leads back to itself is followed for *)
(* ever.                                                                   *)
findGradientData(p, id) ==
    Min({i \in DOMAIN p.gradients : p.gradients[i].id = id} \cup {Len(p.gradients) + 1})

createGradient(p, id) ==
    LET n == Len(p.gradients)
        ref[k \in 0..(n + 1)] ==
            IF k = 0 THEN findGradientData(p, id)
            ELSE IF ref[k - 1] > n \/ p.gradients[ref[k - 1]].stops # <<>> THEN ref[k - 1]
            ELSE findGradientData(p, p.gradients[ref[k - 1]].ref)
        data == ref[0]
        last == ref[n + 1]
    IN IF last > n THEN NoPaint
       ELSE IF p.gradients[last].stops = <<>> THEN [is |-> "spins"]
       ELSE [is |-> "gradient", shape |-> p.gradients[data].shape, stops |-> p.gradients[last].stops,
             xform |-> Premultiply(getAttr(p).xform, p.gradients[data].xform)]

Paint(p, paint) == IF paint.is = "url" THEN createGradient(p, paint.url) ELSE paint

(* at is where the origin of the shape has been moved to *)
addShape(p, at) ==
    LET a == getAttr(p)
        shape == [fill |-> Paint(p, a.fill), stroke |-> Paint(p, a.stroke), at |-> at, visible |-> a.visible]
    IN IF "spins" \in {shape.fill.is, shape.stroke.is} THEN [p EXCEPT !.status = "spins"]
       ELSE [p EXCEPT !.shapes = Append(@, shape)]

(* the outline of a path begins at its origin, that of a rectangle at its  *)
(* position                                                                *)
Origin(a, el) == Placing(a.xform, IF el = "rect" THEN a.position ELSE 0) + a.position
parseShape(p, el, attrs) ==
    LET q == Styled(pushAttr(p), attrs)
    IN popAttr(addShape(q, Origin(getAttr(q), el)))

(* id, href and the gradient's own attributes are its own, the others go   *)
(* to the element around it                                                *)
parseGradient(p, attrs) ==
    [Styled(p, SelectSeq(attrs, LAMBDA a : a.name # "id")) EXCEPT
        !.gradients = <<[id |-> Value(attrs, "id", ""), ref |-> Value(attrs, "href", ""),
                         shape |-> Value(attrs, "shape", "default"),
                         xform |-> Value(attrs, "gradientTransform", <<1, 0>>), stops |-> <<>>]>> \o @]

(* mutant of Placed: a stop goes before those with its offset *)
Placed_First(stops, stop) ==
    LET at == Min({i \in DOMAIN stops : stop.offset <= stops[i].offset} \cup {Len(stops) + 1})
    IN InsertAt(stops, at, stop)

(* a stop goes before the first that has a larger offset *)
Placed(stops, stop) ==
    LET at == Min({i \in DOMAIN stops : stop.offset < stops[i].offset} \cup {Len(stops) + 1})
    IN InsertAt(stops, at, stop)

parseGradientStop(p, attrs) ==
    LET q == Styled(Change(p, [getAttr(p) EXCEPT !.stop = [offset |-> 0, color |-> 0]]), attrs)
    IN IF q.gradients = <<>> THEN q
       ELSE [q EXCEPT !.gradients[1].stops = Placed(@, getAttr(q).stop)]

-------------------------------------------------------------------------------
(* The tags *)

Define(p, el, attrs) ==
    LET q == Styled(pushAttr(p), attrs)
    IN [q EXCEPT !.defs = Append(@, [el |-> el, attrs |-> attrs, attrib |-> getAttr(q)])]

Element(p, el, attrs) ==
    CASE el = "gradient" -> parseGradient(p, attrs)
      [] el = "stop" -> parseGradientStop(p, attrs)
      [] p.defsFlag /\ el \notin {"gradient", "stop"} -> Define(p, el, attrs)
      [] ~p.defsFlag /\ el = "g" -> Styled(pushAttr(p), attrs)
      [] ~p.defsFlag /\ el \in {"path", "rect"} -> parseShape(p, el, attrs)
      [] ~p.defsFlag /\ el = "defs" -> [p EXCEPT !.defsFlag = TRUE]
      [] ~p.defsFlag /\ el = "svg" -> Styled(p, attrs)
      [] OTHER -> p

RECURSIVE startElement(_, _, _)

(* A level is pushed that is the definition's, and the definition is read  *)
(* again, its own attributes and then the use's.  Where that is the use    *)
(* itself, its list of attributes is copied behind itself without an end.  *)
Use(p, attrs) ==
    LET href == Value(attrs, "href", "")
        found == {i \in DOMAIN p.defs : p.defs[i].attrib.id = href}
        def == p.defs[Min(found)]
        q == [p EXCEPT !.attr = Append(@, [def.attrib EXCEPT !.use = Min(found)])]
        itself == def.el = "use" /\ Value(def.attrs, "href", href) = href
    IN IF found = {} \/ Len(p.attr) >= MaxAttr THEN p
       ELSE IF itself /\ def.attrs # <<>> THEN [q EXCEPT !.status = "crashed"]
       ELSE startElement(q, def.el, def.attrs \o attrs)

startElement(p, el, attrs) ==
    IF el = "use" /\ ~p.defsFlag THEN Use(p, attrs) ELSE Element(p, el, attrs)

(* in defs everything that ends is popped, also what was not pushed        *)
EndOf(p, el) ==
    CASE el = "defs" -> [p EXCEPT !.defsFlag = FALSE]
      [] el # "defs" /\ (p.defsFlag \/ el = "g") -> popAttr(p)
      [] OTHER -> p
(* the end of a use is that of the element it is for *)
endElement(p, el) ==
    LET use == getAttr(p).use
    IN IF el # "use" THEN EndOf(p, el)
       ELSE IF use = 0 \/ (use > 0 /\ p.defs[use].el = "use") THEN [p EXCEPT !.status = "crashed"]
       ELSE popAttr(EndOf(p, p.defs[use].el))

-------------------------------------------------------------------------------
(* The author *)

Mark(what, tag) == [what |-> what, el |-> tag.el, attrs |-> tag.attrs]
Nesting == {"svg", "g", "defs", "gradient"}

(* the tags that are open before the i-th event, outermost first           *)
OpenBefore(i) ==
    LET open[k \in 0..(i - 1)] ==
            IF k = 0 THEN <<>>
            ELSE CASE doc[k].what = "start" -> Append(open[k - 1], k)
                   [] doc[k].what = "end" -> Front(open[k - 1])
                   [] doc[k].what = "empty" -> open[k - 1]
    IN open[i - 1]
OpenTags == OpenBefore(Len(doc) + 1)
Opened == Cardinality({i \in DOMAIN doc : doc[i].what # "end"})
Reads == parser.status = "reads"

SvgInit == tags \in Dialects /\ doc = <<>> /\ parser = createParser

OpenTag(tag) ==
    /\ Reads /\ Opened < MaxTags /\ tag.el \in Nesting
    /\ doc' = Append(doc, Mark("start", tag))
    /\ parser' = startElement(parser, tag.el, tag.attrs)
    /\ UNCHANGED tags
CloseTag ==
    /\ Reads /\ OpenTags # <<>>
    /\ LET el == doc[Last(OpenTags)].el
       IN /\ doc' = Append(doc, Mark("end", [el |-> el, attrs |-> <<>>]))
          /\ parser' = endElement(parser, el)
    /\ UNCHANGED tags
(* a tag that ends itself; what could hold others is opened and closed     *)
EmptyTag(tag) ==
    /\ Reads /\ Opened < MaxTags /\ tag.el \notin Nesting
    /\ doc' = Append(doc, Mark("empty", tag))
    /\ parser' = LET p == startElement(parser, tag.el, tag.attrs)
                 IN IF p.status = "reads" THEN endElement(p, tag.el) ELSE p
    /\ UNCHANGED tags

SvgNext == (\E tag \in tags : OpenTag(tag) \/ EmptyTag(tag)) \/ CloseTag
SvgSpec == SvgInit /\ [][SvgNext]_svg_vars

-------------------------------------------------------------------------------
(* What the document means.  An element is styled by the attributes of the *)
(* elements around it, the outermost first, and by its own.                *)

Begins(el) == {i \in DOMAIN doc : doc[i].what # "end" /\ doc[i].el \in el}
Inherited(i) == FlattenSeq([k \in DOMAIN OpenBefore(i) |-> IF doc[OpenBefore(i)[k]].el \in {"g", "svg"}
                                                   THEN doc[OpenBefore(i)[k]].attrs ELSE <<>>])
InDefs(i) == \E k \in DOMAIN OpenBefore(i) : doc[OpenBefore(i)[k]].el = "defs"
Under(i) == {doc[OpenBefore(i)[k]].el : k \in DOMAIN OpenBefore(i)}
Pushed(i) == Cardinality({k \in DOMAIN OpenBefore(i) : doc[OpenBefore(i)[k]].el = "g"})

(* the definition a use refers to: the first with its name                 *)
Definitions(i) == {j \in 1..(i - 1) : doc[j].what # "end" /\ InDefs(j) /\ doc[j].el \notin {"gradient", "stop"}
                                      /\ Value(doc[j].attrs, "id", "") = Value(doc[i].attrs, "href", "")}

(* the stops that the gradient which begins at i has before an element: by *)
(* their offsets, and those with one offset as they come                   *)
StopsOf(i, before) ==
    LET next == Min({j \in Begins({"gradient"}) : j > i} \cup {Len(doc) + 1})
        stop(j) == [offset |-> Value(doc[j].attrs, "offset", 0), color |-> Value(doc[j].attrs, "stop-color", 0)]
        mine == {j \in Begins({"stop"}) : i < j /\ j < Min({next, before})}
        order == SetToSortSeq(mine, LAMBDA j, k : \/ stop(j).offset < stop(k).offset
                                                  \/ stop(j).offset = stop(k).offset /\ j < k)
    IN [n \in DOMAIN order |-> stop(order[n])]
Named(id, before) == {j \in Begins({"gradient"}) : j < before /\ Value(doc[j].attrs, "id", "") = id}

(* the gradients a name leads to, by references of those without stops     *)
References(id, before) ==
    LET steps[n \in 0..Len(doc)] ==
            IF n = 0 THEN {id}
            ELSE steps[n - 1] \cup {Value(doc[Max(Named(x, before))].attrs, "href", "") :
                                       x \in {y \in steps[n - 1] : Named(y, before) # {}
                                                                   /\ StopsOf(Max(Named(y, before)), before) = <<>>}}
    IN {Max(Named(x, before)) : x \in {y \in steps[Len(doc)] : Named(y, before) # {}}}
PaintMeant(paint, before, xform) ==
    IF paint.is # "url" THEN paint
    ELSE LET chain == References(paint.url, before)
             stopped == {i \in chain : StopsOf(i, before) # <<>>}
             own == doc[Max(Named(paint.url, before))].attrs
         IN IF stopped = {} THEN NoPaint
            ELSE [is |-> "gradient", shape |-> Value(own, "shape", "default"),
                  stops |-> StopsOf(CHOOSE i \in stopped : TRUE, before),
                  xform |-> Premultiply(xform, Value(own, "gradientTransform", <<1, 0>>))]

(* the shapes drawn at i *)
ShapeMeant(i, el, attrs) ==
    LET a == parseAttribs(FirstLevel, Inherited(i) \o attrs)
    IN [fill |-> PaintMeant(a.fill, i, a.xform), stroke |-> PaintMeant(a.stroke, i, a.xform),
        at |-> Origin(a, el), visible |-> a.visible]
DrawnAt(i) ==
    LET def == doc[Min(Definitions(i))]
    IN CASE InDefs(i) \/ doc[i].what = "end" -> <<>>
         [] ~InDefs(i) /\ doc[i].what # "end" /\ doc[i].el \in {"path", "rect"} ->
                <<ShapeMeant(i, doc[i].el, doc[i].attrs)>>
         [] ~InDefs(i) /\ doc[i].what # "end" /\ doc[i].el = "use" ->
                IF def.el \in {"path", "rect"} THEN <<ShapeMeant(i, def.el, def.attrs \o doc[i].attrs)>> ELSE <<>>
         [] OTHER -> <<>>

(* Where the code does not do what a document means: deep documents; an    *)
(* svg that is not around all the others; attributes that are no           *)
(* gradient's at a gradient; gradients among the groups around or in a     *)
(* definition, whose ends pop a level; defs in defs; a use in defs, of     *)
(* nothing, of a group, of what has a transform, or with other attributes  *)
(* around it than around the definition; a name inherited by a definition. *)
OwnNames == {"id", "href", "shape", "gradientTransform", "offset", "stop-color"}
Plain ==
    /\ \A i \in Begins({"g", "path", "rect", "use"}) : Pushed(i) + 3 <= MaxAttr
    /\ \A i \in Begins({"svg"}), j \in DOMAIN doc :
          i = 1 /\ (j > 1 => 1 \in ToSet(OpenBefore(j)))
    /\ \A i \in Begins({"gradient", "stop"}) :
          /\ \A k \in DOMAIN doc[i].attrs : doc[i].attrs[k].name \in OwnNames
          /\ InDefs(i) => "g" \notin Under(i)
    /\ \A i \in Begins({"defs", "svg"}) : ~InDefs(i)
    /\ \A i \in Begins({"use"}) :
          /\ ~InDefs(i) /\ Definitions(i) # {}
          /\ LET j == Min(Definitions(i))
             IN doc[j].el # "g" /\ ~Has(doc[j].attrs, "transform") /\ Inherited(i) = Inherited(j)
    /\ \A i \in DOMAIN doc : InDefs(i) => ~Has(Inherited(i), "id")

(* A document is drawn as it is meant: every shape with the attributes of  *)
(* the elements around it and no others, whatever was opened and closed    *)
(* before it, definitions where they are used; and when an element has     *)
(* been closed, what comes next inherits nothing from it.                  *)
ShapesStyled ==
    (Plain /\ Reads) =>
    /\ parser.shapes = FlattenSeq([i \in DOMAIN doc |-> DrawnAt(i)])
    /\ OpenTags # <<>> \/ parser.defsFlag = FALSE
    /\ ~InDefs(Len(doc) + 1) =>
          LET meant == parseAttribs(FirstLevel, Inherited(Len(doc) + 1))
              level == getAttr(parser)
          IN \A f \in {"fill", "stroke", "xform", "position", "visible"} :
                Begins({"svg"}) \subseteq ToSet(OpenTags) => level[f] = meant[f]

(* A reader comes to its end, unless a gradient refers to itself over      *)
(* others, all without stops (no reference is one to a gradient without a  *)
(* name).                                                                  *)
Cyclic(id, before) ==
    /\ Named(id, before) # {} /\ StopsOf(Max(Named(id, before)), before) = <<>>
    /\ \A i \in References(id, before) :
          StopsOf(i, before) = <<>> /\ Named(Value(doc[i].attrs, "href", ""), before) # {}
LastFill == parseAttribs(FirstLevel, Inherited(Len(doc)) \o Last(doc).attrs).fill
ReaderEnds ==
    /\ Plain => parser.status # "crashed"
    /\ Plain /\ doc # <<>> /\ Last(doc).el \in {"path", "rect"} /\ LastFill.is = "url" /\ ~InDefs(Len(doc)) =>
          (parser.status = "spins") = Cyclic(LastFill.url, Len(doc))

(* Whatever elements a document is written of, it is drawn as it is meant  *)
(* and read to its end.                                                    *)
DocumentsDrawn == ShapesStyled /\ ReaderEnds
===============================================================================
