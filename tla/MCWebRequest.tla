----------------------------- MODULE MCWebRequest -----------------------------
(***************************************************************************)
(* WebRequest with the grammars of RequestGrammar: requests with and       *)
(* without segments, query, headers and bodies, the last of two            *)
(* characters, one of which may end a line; and every request line of GET  *)
(* and up to four characters that mean something in it.                    *)
(***************************************************************************)
EXTENDS WebRequest, SequencesExt

G == INSTANCE RequestGrammar

MCEndLine == "\n"
Text(lines, body) == FoldLeft(LAMBDA t, l : t \o l \o <<MCEndLine>>, <<>>, lines) \o body

root == <<"GET", " ", "/", " ", "HTTP", "/", "1.1">>
bare == <<"GET", " ", "/">>
segment == <<"POST", " ", "/", "a">>
pair == <<"GET", "?", "a", "=">>
refused == <<"GET", "?", "a", "=", " ", "HTTP">>
host == <<"Host", ":", " ", "a">>
length == <<"Content-Length", ":", " ", "2">>
type(name) == <<"Content-Type", ":", " ", name>>
form == type("form")
multipart == type("multipart") \o <<";", " ", "boundary", " ", "=", " ", "a">>

Requests == {
    Text(<<root, <<>>>>, <<>>),
    Text(<<segment, host, <<>>>>, <<>>),
    Text(<<bare, host, <<>>>>, <<>>),
    Text(<<pair, form, <<>>>>, <<>>),
    Text(<<pair, form, length, <<>>>>, <<"a", "b">>),
    Text(<<segment, length, form, <<>>>>, <<"a", "=">>),
    Text(<<segment, length, form, <<>>>>, <<"a", MCEndLine>>),
    Text(<<segment, multipart, length, <<>>>>, <<MCEndLine, "a">>),
    Text(<<refused, length, multipart, <<>>>>, <<"a", "a">>),
    \* not well-formed: no method, no value in a header, content of another
    \* type, with a boundary that is not found or of no type, too much
    \* content, a second request behind the first
    Text(<<host, <<>>>>, <<>>),
    Text(<<segment, <<"Host">>, <<>>>>, <<>>),
    Text(<<segment, length, type("text"), <<>>>>, <<"a", "a">>),
    Text(<<bare, length, type("multipart") \o <<";", "boundary", "=", "a">>, <<>>>>, <<"a", "a">>),
    Text(<<bare, length, <<>>>>, <<"a", "a">>),
    Text(<<bare, length, form, <<>>>>, <<"a", "=", "a">>),
    Text(<<segment, <<>>, segment>>, <<>>) }

RequestLines ==
    {<<"GET">> \o t : t \in BoundedSeq({"/", " ", "?", "a", "=", "&"}, 4)}
    \cup {<<" ", m, " ", "/">> : m \in {"GET", "POST"}}
    \cup {<<m, "?">> \o t : m \in {"GET", "DELETE"},
                            t \in {<<"a", "=", "%", " ", "=">>, <<"a", "%", "=", "a">>}}

AllStreams == Requests \cup {Text(<<l>>, <<>>) : l \in RequestLines}

(* What the grammars make of the lines there are.  TLC works a definition   *)
(* out once, but not one that a configuration names, and a function only   *)
(* when it is combined (@@) with another.                                  *)
Table(texts, read(_)) == [t \in texts |-> read(t)] @@ <<>>
LinesOf(s) == {LineFrom(s, i) : i \in {1} \cup {j \in 2..Len(s) : s[j - 1] = EndLine}}
Requested == Table({LineFrom(s, 1) : s \in AllStreams}, G!RequestLineRead)
Headers == Table(UNION {LinesOf(s) : s \in Requests}, G!HeaderRead)
Pieces(t) == {SubSeq(t, i, j) : i, j \in 1..Len(t)} \cup {<<>>}
Forms == Table(UNION {Pieces(Body(s)) : s \in {r \in Requests : HeadEnds(r) # {}}}, G!FormTaken)

MCStreams == AllStreams
MCRequests == Requests
MCAsRequest == Requested
MCAsHeader == Headers
MCAsForm == Forms

(* A request line is taken when it starts with a method, and then the      *)
(* handler hears of its segments, of the end of the path and of a query    *)
(* that it asked for, by the positions of the separators in the line       *)
(* (server.cpp:226 to 260): whatever stands between them, and however the  *)
(* combinators back out of what they tried.  The content it is given later *)
(* is the body of the request, all of it, although readcb takes it from a  *)
(* buffer that its other states share.                                     *)
RequestRead ==
    pc = "lines" /\ req.pstate = "RequestLine" /\ Ends # {} /\ input' # input =>
        IF G!MethodsEnd(Line) = {} THEN pc' = "error" /\ calls' = calls
        ELSE calls' = calls \o [i \in 1..G!SegmentsOf(Line) |-> "segment"] \o <<"path">>
                \o (IF req'.read_content /\ G!QueryOf(Line) THEN <<"content">> ELSE <<>>)
HandlerHears == [][RequestRead /\ BodyExact]_vars
===============================================================================
