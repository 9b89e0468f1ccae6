--------------------------------- MODULE MCSvg ---------------------------------
(***************************************************************************)
(* Values of Svg's constants for TLC: documents of nested groups, of       *)
(* definitions and their uses, and of gradients.                           *)
(***************************************************************************)
EXTENDS Svg

Attr(name, value) == [name |-> name, value |-> value]
A(name, value) == <<Attr(name, value)>>
Tag(el, attrs) == [el |-> el, attrs |-> attrs]
Groups == {Tag("g", A("fill", Colored(1))), Tag("g", A("transform", <<2, 1>>) \o A("display", "none")),
           Tag("svg", A("stroke", Colored(3))), Tag("defs", <<>>), Tag("gradient", A("fill", Colored(4))),
           Tag("path", A("x", 1)), Tag("rect", A("transform", <<1, 5>>) \o A("x", 3) \o A("fill", NoPaint))}
Uses == {Tag("defs", <<>>), Tag("g", A("id", "b") \o A("fill", Colored(1))),
         Tag("path", A("id", "a")), Tag("path", A("id", "a") \o A("transform", <<2, 0>>)),
         Tag("rect", A("id", "c") \o A("x", 1) \o A("fill", Colored(2))),
         Tag("use", A("href", "a") \o A("x", 4)), Tag("use", A("href", "b")),
         Tag("use", A("href", "c") \o A("stroke", Colored(3)))}
Gradients == {Tag("gradient", A("id", "a")), Tag("gradient", A("id", "b") \o A("href", "a") \o A("shape", "radial")),
              Tag("gradient", A("id", "a") \o A("href", "b") \o A("gradientTransform", <<3, 1>>)),
              Tag("stop", A("offset", 1) \o A("stop-color", 1)), Tag("stop", A("stop-color", 2)),
              Tag("stop", A("offset", 1)),
              Tag("defs", <<>>), Tag("g", A("transform", <<2, 1>>)), Tag("path", A("fill", Url("b")))}
MCDialects == {Groups, Uses, Gradients}
===============================================================================
