-------------------------------- MODULE SvgText --------------------------------
(***************************************************************************)
(* How graphics/nanosvg.c reads the texts of an SVG file: the tags of the  *)
(* file, and in their attributes numbers, lengths, colours, transforms,    *)
(* styles and dashes.                                                      *)
(*                                                                         *)
(* A text is a sequence of characters; a name that is only compared (of an *)
(* element, an attribute, a function) is one character.  An author writes  *)
(* a text of some kind piece by piece, and means something by each piece.  *)
(* The buffers of 64 characters that items are copied to do not overflow.  *)
(***************************************************************************)
EXTENDS Integers, Sequences, FiniteSetsExt, SequencesExt

CONSTANTS
    Pieces,        \* for each kind of text what an author may write next
    MaxPieces      \* how many pieces a text of a kind has

ASSUME TextAssumption ==
    /\ DOMAIN MaxPieces = DOMAIN Pieces
    /\ \A k \in DOMAIN Pieces : \A p \in Pieces[k] : {"text", "means"} \subseteq DOMAIN p

VARIABLES kind, pieces
text_vars == <<kind, pieces>>

-------------------------------------------------------------------------------
(* Characters; what is behind the end counts as white space (isspace)      *)

Blanks == {" ", "\t", "\n", "\r"}
Hex == <<"0", "1", "2", "3", "4", "5", "6", "7", "8", "9", "a", "b", "c", "d", "e", "f">>
HexValue(c) == (CHOOSE i \in 1..16 : Hex[i] = c) - 1
Figures == {Hex[i] : i \in 1..10}
Sign == {"-", "+"}

Texts == Seq(STRING)
Peek(t, i) == IF i <= Len(t) THEN t[i] ELSE "eof"
Upto(t, i, C) == Min({j \in i..Len(t) : t[j] \in C} \cup {Len(t) + 1})
Past(t, i, C) == Min({j \in i..Len(t) : t[j] \notin C} \cup {Len(t) + 1})
Slice(t, i, j) == SubSeq(t, i, Min({j, Len(t)}))

-------------------------------------------------------------------------------
(* Numbers *)

NumberStarts(c) == c \in Sign \cup {"."} \cup Figures

(* where the digits before and behind the point end *)
WholeEnd(t, i) == Past(t, IF Peek(t, i) \in Sign THEN i + 1 ELSE i, Figures)
FractionEnd(t, i) ==
    IF Peek(t, WholeEnd(t, i)) = "." THEN Past(t, WholeEnd(t, i) + 1, Figures) ELSE WholeEnd(t, i)

(* mutant of parseNumber: an e always begins an exponent *)
parseNumber_NoUnits(t, i) ==
    LET e == FractionEnd(t, i)
    IN IF Peek(t, e) \notin {"e", "E"} THEN e
       ELSE Past(t, IF Peek(t, e + 1) \in Sign THEN e + 2 ELSE e + 1, Figures)

(* where the number that starts at i ends: an e begins an exponent, unless *)
(* it begins em or ex                                                      *)
parseNumber(t, i) ==
    LET e == FractionEnd(t, i)
    IN IF Peek(t, e) \notin {"e", "E"} \/ Peek(t, e + 1) \in {"m", "x"} THEN e
       ELSE Past(t, IF Peek(t, e + 1) \in Sign THEN e + 2 ELSE e + 1, Figures)

(* n times ten to the e *)
WholeNumber(s) == FoldLeft(LAMBDA n, c : 10 * n + HexValue(c), 0, s)
Signed(s, n) == IF Peek(s, 1) = "-" THEN -n ELSE n
atof[s \in Texts] ==
    LET first == IF Peek(s, 1) \in Sign THEN 2 ELSE 1
        whole == SubSeq(s, first, WholeEnd(s, 1) - 1)
        fraction == SubSeq(s, WholeEnd(s, 1) + 1, FractionEnd(s, 1) - 1)
        power == Slice(s, FractionEnd(s, 1) + 1, Len(s))
        figures == WholeEnd(power, 1)
        exponent == IF Peek(s, FractionEnd(s, 1)) \notin {"e", "E"} THEN 0
                    ELSE Signed(power, WholeNumber(Slice(power, IF Peek(power, 1) \in Sign THEN 2 ELSE 1, figures - 1)))
    IN IF whole \o fraction = <<>> THEN [n |-> 0, e |-> 0]
       ELSE [n |-> Signed(s, WholeNumber(whole) * 10 ^ Len(fraction) + WholeNumber(fraction)),
             e |-> exponent - Len(fraction)]

(* an item of path data or of a list of points, and where it ends *)
getNextPathItem(t, i) ==
    LET at == Past(t, i, Blanks \cup {","})
        end == IF NumberStarts(Peek(t, at)) THEN parseNumber(t, at) ELSE at + 1
    IN [item |-> Slice(t, at, end - 1), end |-> Min({end, Len(t) + 1})]

PathItems[t \in Texts] ==
    LET from[i \in 1..(Len(t) + 1)] ==
            LET next == getNextPathItem(t, i)
            IN IF i > Len(t) \/ next.item = <<>> THEN <<>> ELSE <<next.item>> \o from[next.end]
    IN from[1]

(* a length and its unit; the first letters of the unit decide *)
UnitNames == {<<"p", "x">>, <<"p", "t">>, <<"p", "c">>, <<"m", "m">>, <<"c", "m">>,
              <<"i", "n">>, <<"%">>, <<"e", "m">>, <<"e", "x">>}
parseUnits(t) == IF \E u \in UnitNames : IsPrefix(u, t)
                 THEN CHOOSE u \in UnitNames : IsPrefix(u, t) ELSE <<"u", "s", "e", "r">>
parseCoordinateRaw[t \in Texts] ==
    [value |-> atof[SubSeq(t, 1, parseNumber(t, 1) - 1)],
     units |-> parseUnits(SubSeq(t, parseNumber(t, 1), Len(t)))]

(* the numbers of stroke-dasharray: eight of them, without their signs     *)
MAX_DASHES == 8
DashItems(t) ==
    LET from[i \in 1..(Len(t) + 1)] ==
            LET at == Past(t, i, Blanks \cup {","})
                end == Upto(t, at, Blanks \cup {","})
            IN IF at > Len(t) THEN <<>> ELSE <<SubSeq(t, at, end - 1)>> \o from[end]
    IN from[1]
Unsigned(c) == [c EXCEPT !.value.n = IF @ < 0 THEN -@ ELSE @]
parseStrokeDashArray[t \in Texts] ==
    LET items == DashItems(t)
        dashes == [i \in 1..Min({Len(items), MAX_DASHES}) |-> Unsigned(parseCoordinateRaw[items[i]])]
    IN IF Peek(t, 1) = "n" \/ \A i \in DOMAIN dashes : dashes[i].value.n = 0 THEN <<>> ELSE dashes

-------------------------------------------------------------------------------
(* Colours: red, green and blue *)

Black == <<0, 0, 0>>
Grey == <<128, 128, 128>>
NoColor == <<>>

(* # and six digits or three *)
parseColorHex(t) ==
    LET digits == SubSeq(t, 2, Upto(t, 2, Blanks) - 1)
    IN CASE Len(digits) = 6 -> [i \in 1..3 |-> 16 * HexValue(digits[2 * i - 1]) + HexValue(digits[2 * i])]
         [] Len(digits) = 3 -> [i \in 1..3 |-> 17 * HexValue(digits[i])]
         [] OTHER -> Black

(* rgb( and three numbers with something between them; without one of them *)
(* the colour is what is left of a -1                                      *)
Separators == {"%", ",", " ", "\t"}
parseColorRGB(t) ==
    LET end(i) == Past(t, Past(t, i, Blanks), Figures)
        r == 5    g == Past(t, end(r), Separators)    b == Past(t, end(g), Separators)
        number(i) == WholeNumber(SubSeq(t, Past(t, i, Blanks), end(i) - 1))
        part(i) == IF "%" \in ToSet(Slice(t, end(r), g - 1)) THEN (number(i) * 255) \div 100
                   ELSE number(i)
    IN IF end(r) = r \/ end(r) = g \/ end(g) = g \/ end(g) = b \/ end(b) = b THEN NoColor
       ELSE <<part(r), part(g), part(b)>>

parseColor[t \in Texts] ==
    LET s == SubSeq(t, Past(t, 1, {" "}), Len(t))
    IN CASE Peek(s, 1) = "#" -> parseColorHex(s)
         [] IsPrefix(<<"r", "g", "b", "(">>, s) -> parseColorRGB(s)
         [] OTHER -> Grey

(* opacities are cut to 0..1, and the other words fall back to a default   *)
Cut(v) == CASE v.n < 0 -> [n |-> 0, e |-> 0]
            [] v.n > 0 /\ (IF v.e < 0 THEN v.n > 10 ^ (-v.e) ELSE TRUE) -> [n |-> 1, e |-> 0]
            [] OTHER -> v
parseOpacity[t \in Texts] == Cut(atof[t])
parseMiterLimit[t \in Texts] == IF atof[t].n < 0 THEN [n |-> 0, e |-> 0] ELSE atof[t]

-------------------------------------------------------------------------------
(* Transforms: <<a, b, c, d, e, f>> takes (x, y) to (ax+cy+e, bx+dy+f).    *)
(* Angles are multiples of 45 degrees where skewed, of 90 where rotated.   *)

Transforms == Seq(Int)
xformIdentity == <<1, 0, 0, 1, 0, 0>>
xformSetTranslation(x, y) == <<1, 0, 0, 1, x, y>>
xformSetScale(x, y) == <<x, 0, 0, y, 0, 0>>
Tan(a) == IF a % 180 = 45 THEN 1 ELSE IF a % 180 = 135 THEN -1 ELSE 0
xformSetSkewX(a) == <<1, 0, Tan(a), 1, 0, 0>>
xformSetSkewY(a) == <<1, Tan(a), 0, 1, 0, 0>>
Sin(a) == CASE a % 360 = 90 -> 1 [] a % 360 = 270 -> -1 [] OTHER -> 0
xformSetRotation(a) == <<Sin(a + 90), Sin(a), -Sin(a), Sin(a + 90), 0, 0>>

(* a transform whose numbers were never written *)
Unwritten == <<>>

(* first t, then s *)
xformMultiply[t, s \in Transforms] ==
    IF Unwritten \in {t, s} THEN Unwritten
    ELSE LET at(i, j) == t[i] * s[j] + t[i + 1] * s[j + 2]
         IN <<at(1, 1), at(1, 2), at(3, 1), at(3, 2), at(5, 1) + s[5], at(5, 2) + s[6]>>
xformPremultiply(t, s) == xformMultiply[s, t]
xformPoint(p, t) == <<p[1] * t[1] + p[2] * t[3] + t[5], p[1] * t[2] + p[2] * t[4] + t[6]>>

(* The inverse is adjugate / det.  For one that has none, the code resets  *)
(* the transform it was given, and leaves the inverse as it was.           *)
Det(t) == t[1] * t[4] - t[3] * t[2]
xformInverse[t \in Transforms] ==
    [adjugate |-> IF Det(t) = 0 THEN Unwritten
                  ELSE <<t[4], -t[2], -t[3], t[1], t[3] * t[6] - t[4] * t[5], t[2] * t[5] - t[1] * t[6]>>,
     det |-> Det(t), given |-> IF Det(t) = 0 THEN xformIdentity ELSE t]

(* the numbers between two positions *)
NumbersIn[t \in Texts, first, last \in Nat] ==
    LET from[i \in first..(last + 1)] ==
            IF i > last THEN <<>>
            ELSE IF NumberStarts(t[i])
            THEN <<atof[SubSeq(t, i, parseNumber(t, i) - 1)].n>> \o from[Min({parseNumber(t, i), last + 1})]
            ELSE from[i + 1]
    IN from[first]

MaxArgs == [matrix |-> 6, translate |-> 2, scale |-> 2, rotate |-> 3, skewX |-> 1, skewY |-> 1]

(* The arguments of a call, and how many characters it takes: one without  *)
(* its brackets, none with a number too many.                              *)
Numbered == [args : Seq(Int), len : Nat]
WithArgs[name \in STRING, numbers \in Seq(Int), len \in Nat] ==
    IF Len(numbers) > MaxArgs[name] THEN [args |-> SubSeq(numbers, 1, MaxArgs[name]), len |-> 0]
    ELSE [args |-> numbers, len |-> len]
parseTransformArgs[t \in Texts, i \in Nat] ==
    LET open == Upto(t, i, {"("})
        close == Upto(t, open, {")"})
    IN IF close > Len(t) THEN [args |-> <<>>, len |-> 1]
       ELSE WithArgs[t[i], NumbersIn[t, open, close - 1], close - i]

(* an argument that is missing was never written; a matrix without its six *)
(* numbers is what the call before it was                                  *)
AroundPoint(x, y, t) == xformMultiply[xformMultiply[xformSetTranslation(-x, -y), t], xformSetTranslation(x, y)]
parseCall[name \in STRING, args, before \in Transforms] ==
    CASE name = "matrix" -> IF Len(args) = 6 THEN args ELSE before
      [] name # "matrix" /\ args = <<>> -> Unwritten
      [] name = "translate" /\ args # <<>> ->
            xformSetTranslation(args[1], IF Len(args) > 1 THEN args[2] ELSE 0)
      [] name = "scale" /\ args # <<>> -> xformSetScale(args[1], args[Len(args)])
      [] name = "rotate" /\ Len(args) = 1 -> xformSetRotation(args[1])
      [] name = "rotate" /\ Len(args) = 2 -> Unwritten
      [] name = "rotate" /\ Len(args) = 3 -> AroundPoint(args[2], args[3], xformSetRotation(args[1]))
      [] name = "skewX" /\ args # <<>> -> xformSetSkewX(args[1])
      [] name = "skewY" /\ args # <<>> -> xformSetSkewY(args[1])

(* xform, the transform so far, and t, the last call; a call that takes no *)
(* character is read for ever                                              *)
Reading == [at : Nat, t : Transforms, xform : Transforms, spins : BOOLEAN]
Called[r \in Reading, t \in Transforms, len \in Nat] ==
    [at |-> r.at + len, t |-> t, xform |-> xformPremultiply(r.xform, t), spins |-> len = 0]
ReadCall[r \in Reading, name \in STRING, call \in Numbered] ==
    Called[r, parseCall[name, call.args, r.t], call.len]
ReadOn[r \in Reading, t \in Texts] ==
    IF r.at > Len(t) \/ r.spins THEN r
    ELSE IF t[r.at] \notin DOMAIN MaxArgs THEN [r EXCEPT !.at = @ + 1]
    ELSE ReadCall[r, t[r.at], parseTransformArgs[t, r.at]]
parseTransform[t \in Texts] ==
    LET read[n \in 0..Len(t)] ==
            IF n = 0 THEN [at |-> 1, t |-> Unwritten, xform |-> xformIdentity, spins |-> FALSE]
            ELSE ReadOn[read[n - 1], t]
    IN read[Len(t)]

-------------------------------------------------------------------------------
(* Styles: name:value;name:value.  The white space around a declaration    *)
(* goes, and that before the colon and behind it.                          *)

(* a declaration without a colon keeps the semicolon behind it in its name *)
parseNameValue(t, start, end) ==
    LET colon == Min({Upto(t, start, {":"}), end})
        last == Max({j \in start..colon : j = start \/ Peek(t, j) \notin Blanks \cup {":", "eof"}})
        value == Past(t, colon, Blanks \cup {":"})
    IN <<Slice(t, start, last), Slice(t, value, end - 1)>>

parseStyle[t \in Texts] ==
    LET from[i \in 1..(Len(t) + 1)] ==
            LET start == Past(t, i, Blanks)
                stop == Upto(t, start, {";"})
                end == 1 + Max({j \in start..stop : j = start \/ Peek(t, j) \notin Blanks \cup {";", "eof"}})
            IN IF i > Len(t) THEN <<>>
               ELSE <<parseNameValue(t, start, end)>> \o from[Min({stop, Len(t)}) + 1]
    IN from[1]

(* the name of a gradient; url(#a) and url(a) are the same *)
parseUrl(t) == LET i == IF Peek(t, 2) = "#" THEN 3 ELSE 2 IN SubSeq(t, i, Upto(t, i, {")"}) - 1)

-------------------------------------------------------------------------------
(* Tags: the events the rest of the reader is called with *)

Quotes == {"\"", "'"}
XmlEvent(what, name, attrs) == [event |-> what, name |-> name, attrs |-> attrs]

(* the attributes from position i on, and whether a / ends them *)
Attributes(t, first) ==
    LET from[i \in 1..(Len(t) + 1)] ==
            LET at == Past(t, i, Blanks)
                eq == Upto(t, at, Blanks \cup {"="})
                open == Upto(t, Min({eq, Len(t)}) + 1, Quotes)
                close == Upto(t, open + 1, {t[open]})
                rest == from[Min({close, Len(t)}) + 1]
            IN IF at > Len(t) THEN [attrs |-> <<>>, ends |-> FALSE]
               ELSE IF t[at] = "/" THEN [attrs |-> <<>>, ends |-> TRUE]
               ELSE IF open > Len(t) THEN [attrs |-> <<>>, ends |-> FALSE]
               ELSE [rest EXCEPT !.attrs = <<<<SubSeq(t, at, eq - 1), SubSeq(t, open + 1, close - 1)>>>> \o @]
    IN from[first]

parseElement(t) ==
    LET at == Past(t, 1, Blanks)
        closing == Peek(t, at) = "/"
        first == IF closing THEN at + 1 ELSE at
        last == Upto(t, first, Blanks)
        name == SubSeq(t, first, last - 1)
        rest == Attributes(t, Min({last, Len(t)}) + 1)
    IN CASE Peek(t, first) \in {"eof", "?", "!"} -> <<>>
         [] closing /\ Peek(t, first) \notin {"eof", "?", "!"} -> <<XmlEvent("end", name, <<>>)>>
         [] OTHER -> <<XmlEvent("start", name, rest.attrs)>>
                     \o (IF rest.ends THEN <<XmlEvent("end", name, <<>>)>> ELSE <<>>)

parseContent(t) ==
    IF Past(t, 1, Blanks) > Len(t) THEN <<>>
    ELSE <<XmlEvent("content", SubSeq(t, Past(t, 1, Blanks), Len(t)), <<>>)>>

(* what is behind the last tag is read by nobody *)
parseXML[t \in Texts] ==
    LET from[i \in 1..(Len(t) + 1)] ==
            LET open == Upto(t, i, {"<"})
                close == Upto(t, open + 1, {">"})
            IN IF open > Len(t) THEN <<>>
               ELSE parseContent(SubSeq(t, i, open - 1))
                    \o (IF close > Len(t) THEN <<>>
                        ELSE parseElement(SubSeq(t, open + 1, close - 1)) \o from[close + 1])
    IN from[1]

-------------------------------------------------------------------------------
(* The author *)

TextInit == kind \in DOMAIN Pieces /\ pieces = <<>>
WritePiece(p) == Len(pieces) < MaxPieces[kind] /\ pieces' = Append(pieces, p) /\ UNCHANGED kind
TextNext == \E p \in Pieces[kind] : WritePiece(p)
TextSpec == TextInit /\ [][TextNext]_text_vars

-------------------------------------------------------------------------------
(* What the author meant: by a piece a number, a unit, a call, ...         *)

WrittenText == FlattenSeq([i \in DOMAIN pieces |-> pieces[i].text])
Meant == [i \in DOMAIN pieces |-> pieces[i].means]

Equal(v, w) == \/ v.n = 0 /\ w.n = 0
               \/ \E k \in 0..4 : \/ v.e = w.e + k /\ v.n * 10 ^ k = w.n
                                  \/ w.e = v.e + k /\ w.n * 10 ^ k = v.n

(* Numbers, commands and what separates them: a number may follow another  *)
(* without a separator when it has a sign, or when it begins with a point  *)
(* and the one before has one                                              *)
IsNumber(p) == p.is = "number"
Apart(i) == \/ ~(IsNumber(pieces[i - 1]) /\ IsNumber(pieces[i]))
            \/ Head(pieces[i].text) \in Sign
            \/ Head(pieces[i].text) = "." /\ ToSet(pieces[i - 1].text) \cap {".", "e"} # {}
ItemsRead ==
    LET items == PathItems[WrittenText]
        meant == SelectSeq(pieces, LAMBDA p : p.is # "blank")
    IN (\A i \in 2..Len(pieces) : Apart(i)) <=>
       /\ Len(items) = Len(meant)
       /\ \A i \in DOMAIN meant : IF IsNumber(meant[i]) THEN Equal(atof[items[i]], meant[i].means)
                                  ELSE items[i] = meant[i].text

(* a number and its unit; and as an opacity it is cut                      *)
LengthRead ==
    (pieces # <<>> /\ IsNumber(pieces[1]) /\ \A i \in 2..Len(pieces) : ~IsNumber(pieces[i])) =>
    LET read == parseCoordinateRaw[WrittenText]
        v == pieces[1].means
        zero == [n |-> 0, e |-> 0]
    IN /\ Equal(read.value, v)
       /\ read.units = IF Len(pieces) > 1 THEN pieces[2].text ELSE <<"u", "s", "e", "r">>
       /\ Equal(parseOpacity[WrittenText], IF v.n < 0 THEN zero ELSE IF v.e > 0 THEN [zero EXCEPT !.n = 1] ELSE v)
       /\ Equal(parseMiterLimit[WrittenText], IF v.n < 0 THEN zero ELSE v)

DashesRead ==
    LET dashes == parseStrokeDashArray[WrittenText]
        eight == SubSeq(Meant, 1, Min({MAX_DASHES, Len(Meant)}))
    IN [i \in DOMAIN dashes |-> dashes[i].value.n] = IF ToSet(eight) \subseteq {0} THEN <<>> ELSE eight

(* six digits are a number in base 256, three are those of six in pairs    *)
Base(b, s) == FoldLeft(LAMBDA n, d : b * n + d, 0, s)
HexRead ==
    LET digits == Tail(Meant)
    IN (Len(pieces) \in {4, 7} /\ WrittenText[1] = "#" /\ "#" \notin ToSet(Tail(WrittenText))) =>
       Base(256, parseColor[WrittenText]) =
           Base(16, IF Len(digits) = 6 THEN digits ELSE [i \in 1..6 |-> digits[(i + 1) \div 2]])

(* of three numbers all have a percent sign, or none has                   *)
RGBRead ==
    (/\ Len(pieces) = 4
     /\ \A i \in 1..4 : (pieces[i].is = "rgb(") = (i = 1)
     /\ Cardinality({Meant[i].of : i \in 2..4}) = 1) =>
    parseColor[WrittenText] = [i \in 1..3 |-> (Meant[i + 1].n * 255) \div Meant[i + 1].of]

(* A call moves a point, and the first call moves it last.  A number too   *)
(* many and the text is read for ever, unless a call before it lacks its   *)
(* brackets; a number too few, and what the transform does is unknown.     *)
CallMeant == [call : STRING, args : Seq(Int)]
MovedBy[p \in Seq(Int), c \in CallMeant] ==
    LET x == p[1]    y == p[2]    a == c.args
    IN CASE c.call = "translate" -> <<x + a[1], y + a[2]>>
         [] c.call = "scale" -> <<x * a[1], y * a[2]>>
         [] c.call = "quarter" -> <<a[1] - (y - a[2]), a[2] + (x - a[1])>>
         [] c.call = "slant" -> <<x + y * a[1], y + x * a[2]>>
         [] c.call = "matrix" -> <<a[1] * x + a[3] * y + a[5], a[2] * x + a[4] * y + a[6]>>
Image[p \in Seq(Int), calls \in Seq(CallMeant)] ==
    IF calls = <<>> THEN p ELSE MovedBy[Image[p, Tail(calls)], Head(calls)]
Moves[t \in Transforms, calls \in Seq(CallMeant)] ==
    \A p \in {<<0, 0>>, <<1, 0>>, <<0, 1>>} : xformPoint(p, t) = Image[p, calls]
Undone[t \in Transforms, inverse \in [adjugate : Transforms, det : Int, given : Transforms]] ==
    inverse.det # 0 => xformMultiply[t, inverse.adjugate] = <<inverse.det, 0, 0, inverse.det, 0, 0>>
ReadAs[read \in Reading, calls \in Seq(CallMeant)] ==
    LET wrong == {i \in DOMAIN calls : calls[i].call \in {"many", "few", "bare"}}
        first == calls[Min(wrong)].call
    IN IF wrong = {}
       THEN ~read.spins /\ Moves[read.xform, calls] /\ Undone[read.xform, xformInverse[read.xform]]
       ELSE CASE first = "many" -> read.spins
              [] first = "few" -> read.xform = Unwritten
              [] OTHER -> TRUE
TransformRead ==
    ReadAs[parseTransform[WrittenText], SelectSeq(Meant, LAMBDA c : c.call # "blank")]

(* the declarations, without those that lack a name, a colon or a value    *)
Trim(t) == SubSeq(t, Past(t, 1, Blanks), Max({j \in DOMAIN t : t[j] \notin Blanks} \cup {0}))
Declaration(t) == <<Trim(SubSeq(t, 1, Upto(t, 1, {":"}) - 1)), Trim(SubSeq(t, Upto(t, 1, {":"}) + 1, Len(t)))>>
Declared[t \in Texts] ==
    LET from[i \in 1..(Len(t) + 2)] ==
            IF i > Len(t) + 1 THEN <<>>
            ELSE <<Declaration(SubSeq(t, i, Upto(t, i, {";"}) - 1))>> \o from[Upto(t, i, {";"}) + 1]
    IN from[1]
Complete(d) == d[1] # <<>> /\ ":" \notin ToSet(d[1]) /\ d[2] # <<>>
StyleRead ==
    LET declared == Declared[WrittenText]
    IN (\A i \in DOMAIN declared : ":" \notin ToSet(declared[i][2])) =>
       SelectSeq(parseStyle[WrittenText], Complete) = SelectSeq(declared, Complete)

(* Tags.  Those that are not read as they are meant: one closed right      *)
(* behind its name, one with a > in a value, an attribute without a value, *)
(* and a comment around tags.                                              *)
FileRead ==
    LET events == SelectSeq(parseXML[WrittenText], LAMBDA e : e.event # "content")
    IN (events = FlattenSeq(Meant)) <=> \A i \in DOMAIN pieces : pieces[i].is # "odd"

(* A text that is written as it should be is read as it was meant,         *)
(* whatever stands before and behind a piece of it: a number ends where    *)
(* the next one begins, calls are put together in their order, tags and    *)
(* declarations end where they end.                                        *)
TextsRead ==
    CASE kind = "items" -> ItemsRead
      [] kind = "length" -> LengthRead
      [] kind = "dashes" -> DashesRead
      [] kind = "hex" -> HexRead
      [] kind = "rgb" -> RGBRead
      [] kind = "transform" -> TransformRead
      [] kind = "style" -> StyleRead
      [] kind = "file" -> FileRead
===============================================================================
