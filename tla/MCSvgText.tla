------------------------------- MODULE MCSvgText -------------------------------
(***************************************************************************)
(* Values of SvgText's constants for TLC: for each kind of text the pieces *)
(* that come close to each other's ends.                                   *)
(***************************************************************************)
EXTENDS SvgText

P(is, text, means) == [is |-> is, text |-> text, means |-> means]
N(text, n, e) == P("number", text, [n |-> n, e |-> e])
Unit(text) == P("unit", text, 0)
Call(text, name, args) == P("call", text, [call |-> name, args |-> args])
Markup(is, text, events) == P(is, text, events)

ItemPieces == {N(<<"1">>, 1, 0), N(<<"-", "2">>, -2, 0), N(<<".", "5">>, 5, -1), N(<<"+", "1", ".">>, 1, 0),
          N(<<"3", "e", "-", "1">>, 3, -1), N(<<"7", ".", "2">>, 72, -1),
          P("blank", <<",">>, 0), P("blank", <<" ", "\n">>, 0), P("command", <<"m">>, 0)}
Lengths == {N(<<"1">>, 1, 0), N(<<"-", "2", ".", "5">>, -25, -1), N(<<".", "5">>, 5, -1), N(<<"1", "e", "2">>, 1, 2),
            Unit(<<"e", "m">>), Unit(<<"e", "x">>), Unit(<<"%">>), Unit(<<"p", "c">>), Unit(<<"m", "m">>)}
Dashes == {P("dash", <<"-", "2", "p", "x", ",">>, 2), P("dash", <<"0", " ">>, 0)}
HexDigits == {P("digit", <<"#">>, 0), P("digit", <<"3">>, 3), P("digit", <<"f">>, 15)}
Component(text, n, of) == P("component", text, [n |-> n, of |-> of])
Components == {P("rgb(", <<"r", "g", "b", "(">>, "rgb("), Component(<<"2", "5", "5", ",">>, 255, 255),
               Component(<<" ", "7", " ", ",">>, 7, 255), Component(<<"5", "0", "%", ",">>, 50, 100),
               Component(<<"1", "%", " ">>, 1, 100)}
Calls == {
    Call(<<"translate", "(", "3", ")">>, "translate", <<3, 0>>),
    Call(<<"translate", " ", "(", "1", ",", "-", "2", ")">>, "translate", <<1, -2>>),
    Call(<<"scale", "(", "2", ")">>, "scale", <<2, 2>>),
    Call(<<"scale", "(", "0", "-", "3", " ", ")">>, "scale", <<0, -3>>),
    Call(<<"rotate", "(", "9", "0", ")">>, "quarter", <<0, 0>>),
    Call(<<"rotate", "(", "9", "0", " ", "1", " ", "2", ")">>, "quarter", <<1, 2>>),
    Call(<<"skewX", "(", "4", "5", ")">>, "slant", <<1, 0>>),
    Call(<<"skewY", "(", "-", "4", "5", ")">>, "slant", <<0, -1>>),
    Call(<<"matrix", "(", "1", " ", "2", " ", "3", " ", "4", " ", "5", " ", "6", ")">>, "matrix", <<1, 2, 3, 4, 5, 6>>),
    Call(<<"scale", "(", "1", " ", "1", " ", "1", ")">>, "many", <<>>),
    Call(<<"rotate", "(", "9", "0", " ", "1", ")">>, "few", <<>>),
    Call(<<"translate", ",">>, "bare", <<>>),
    Call(<<",", " ">>, "blank", <<>>)}
Declarations == {P("name", <<"fill">>, 0), P("name", <<"red">>, 0), P("colon", <<":">>, 0),
                 P("semicolon", <<";">>, 0), P("blank", <<" ">>, 0)}
StartOf(name, attrs) == <<XmlEvent("start", <<name>>, attrs)>>
EndEvent(name) == <<XmlEvent("end", <<name>>, <<>>)>>
Tags == {
    Markup("plain", <<"<", "g", ">">>, StartOf("g", <<>>)),
    Markup("plain", <<"<", "/", "g", ">">>, EndEvent("g")),
    Markup("plain", <<"<", "g", " ", "a", "=", "'", "\"", "'", "b", "=", "\"", "/", "\"", "/", ">">>,
        StartOf("g", <<<<<<"a">>, <<"\"">>>>, <<<<"b">>, <<"/">>>>>>) \o EndEvent("g")),
    Markup("plain", <<" ", "x">>, <<>>),
    Markup("plain", <<"<", "!", "-", "-", "x", "-", "-", ">">>, <<>>),
    Markup("odd", <<"<", "g", "/", ">">>, StartOf("g", <<>>) \o EndEvent("g")),
    Markup("odd", <<"<", "g", " ", "a", "=", "\"", ">", "\"", ">">>, StartOf("g", <<<<<<"a">>, <<">">>>>>>)),
    Markup("odd", <<"<", "g", " ", "a", " ", "b", "=", "'", "c", "'", ">">>, StartOf("g", <<<<<<"b">>, <<"c">>>>>>)),
    Markup("odd", <<"<", "!", "-", "-", "<", "g", ">", "<", "g", ">", "-", "-", ">">>, <<>>)}

MCPieces == [items |-> ItemPieces, length |-> Lengths, dashes |-> Dashes, hex |-> HexDigits, rgb |-> Components,
             transform |-> Calls, style |-> Declarations, file |-> Tags]
MCMaxPieces == [items |-> 4, length |-> 2, dashes |-> 9, hex |-> 7, rgb |-> 4, transform |-> 3, style |-> 6, file |-> 3]
===============================================================================
