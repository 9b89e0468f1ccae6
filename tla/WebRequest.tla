------------------------------ MODULE WebRequest ------------------------------
(***************************************************************************)
(* The life of one Request of server/server.cpp, from accept() to its      *)
(* destructor: the callbacks that libevent makes on its bufferevent, the   *)
(* line by line parsing in readcb, the calls it makes on the handler, and  *)
(* the answer.  Requests share nothing but their factories, so one stands  *)
(* for all.                                                                *)
(*                                                                         *)
(* The client's bytes are a sequence of characters that reach the input    *)
(* buffer in pieces of any size; readcb runs once for each piece.  What    *)
(* the grammars make of a line is a parameter here and the subject of      *)
(* RequestGrammar.  libevent is external: it calls back from one thread,   *)
(* never after bufferevent_free, readcb when bytes arrived and writecb     *)
(* when the output buffer has drained.                                     *)
(***************************************************************************)
EXTENDS Integers, Sequences, FiniteSets, FiniteSetsExt

CONSTANTS
    Handlers,      \* the handlers the server's factory may make
    Routed,        \* the handlers a Router's routes and not_found may make
    Streams,       \* what a client may send
    EndLine,       \* the character that ends a line
    AsRequest,     \* what a line is as the request line,
    AsHeader,      \* and as a header
    AsForm         \* whether a body is a query string

NoContent == -1
ContentTypes == {"form", "multipart", "unbounded", "other"}

(* A request line is in error, or so many segments and perhaps a query; a  *)
(* header may be in error, hold a length, or a content type ("unbounded"   *)
(* is multipart data without a boundary).                                  *)
ASSUME RequestAssumption ==
    /\ Handlers \cup Routed \subseteq {"static", "file", "form", "router"}
    /\ \A t \in DOMAIN AsRequest :
           AsRequest[t] \in [err : BOOLEAN, segments : Nat, query : BOOLEAN]
    /\ \A t \in DOMAIN AsHeader :
           AsHeader[t] \in [err : BOOLEAN, length : Nat \cup {NoContent},
                           ctype : ContentTypes \cup {"none"}]
    /\ \A t \in DOMAIN AsForm : AsForm[t] \in BOOLEAN

(* the line of a text that starts at a position, to its end or that of the *)
(* text                                                                    *)
LineFrom(s, i) == SubSeq(s, i, Min({j \in i..Len(s) : s[j] = EndLine} \cup {Len(s) + 1}) - 1)

(* What comes may be anything, and whatever its first complete line and the *)
(* others are, the grammars say something of it.  A header is a length or   *)
(* a type.                                                                 *)
ASSUME StreamAssumption ==
    \A s \in Streams :
        /\ s \in Seq({s[i] : i \in 1..Len(s)})
        /\ \A i, j \in 1..Len(s) :
               i <= j /\ s[j] = EndLine =>
                   /\ i = 1 => LineFrom(s, i) \in DOMAIN AsRequest
                   /\ i > 1 /\ s[i - 1] = EndLine => LineFrom(s, i) \in DOMAIN AsHeader
ASSUME HeaderAssumption ==
    \A t \in DOMAIN AsHeader : AsHeader[t].length = NoContent \/ AsHeader[t].ctype = "none"

VARIABLES
    obj,       \* "none", "live" or "deleted"
    req,       \* the fields of Request, and the bytes waiting in its output
    stream,    \* what the client sends, from the first byte to the last
    got,       \* how much of it has reached the input buffer
    input,     \* the bufferevent's input buffer
    pc,        \* "idle", "read" (readcb), "lines" (its loop), "error" (parse_err)
    calls,     \* history: the calls made on the handler
    frees,     \* history: how many times bufferevent_free was called
    deletes    \* history: how many times the destructor ran

client == <<stream, got>>
vars == <<obj, req, stream, got, input, pc, calls, frees, deletes>>

Blank == [pstate |-> "RequestLine", content |-> NoContent, ctype |-> "none",
          read_content |-> FALSE, to_close |-> FALSE, closed |-> FALSE,
          handler |-> "none", output |-> "empty"]

-------------------------------------------------------------------------------
(* The parts of Request *)

(* respond: the first answer is queued, any other dropped *)
respond(r, what) ==
    IF r.to_close THEN r ELSE [r EXCEPT !.to_close = TRUE, !.output = what]

(* StaticContent's handler answers when it is made *)
ContentHandler(r) == respond(r, "answer")

(* handle: the factory makes a handler.  A form handler asks for the        *)
(* content in its constructor.                                             *)
handle(r, h) ==
    LET made == [r EXCEPT !.handler = h, !.read_content = @ \/ h = "form"]
    IN IF h = "static" THEN ContentHandler(made) ELSE made

Tell(s) == calls' = calls \o s

-------------------------------------------------------------------------------
Init ==
    /\ obj = "none"
    /\ req = Blank
    /\ stream \in Streams
    /\ got = 0
    /\ input = <<>>
    /\ pc = "idle"
    /\ calls = <<>>
    /\ frees = 0
    /\ deletes = 0

(* WebServer::accept *)
Accept(h) ==
    /\ obj = "none"
    /\ obj' = "live"
    /\ req' = handle(Blank, h)
    /\ UNCHANGED <<client, input, pc, calls, frees, deletes>>

-------------------------------------------------------------------------------
(* Reading *)

Open == obj = "live" /\ frees = 0

Arrive(k) ==
    /\ Open /\ pc = "idle"
    /\ k \in 1..(Len(stream) - got)
    /\ got' = got + k
    /\ input' = input \o SubSeq(stream, got + 1, got + k)
    /\ pc' = "read"
    /\ UNCHANGED <<obj, req, stream, calls, frees, deletes>>

(* the callback is over *)
Return == pc' = "idle"

Drain ==
    /\ pc = "read" /\ req.pstate = "Done"
    /\ input' = <<>>
    /\ Return
    /\ UNCHANGED <<obj, req, client, calls, frees, deletes>>

(* in state Content *)
ReadContent == pc = "read" /\ req.pstate = "Content"

AwaitContent ==
    /\ ReadContent /\ Len(input) < req.content
    /\ Return
    /\ UNCHANGED <<obj, req, client, input, calls, frees, deletes>>

(* mutant of ContentTooLong: content of the right length is too long *)
ContentTooLong_Equal ==
    /\ ReadContent /\ Len(input) >= req.content
    /\ pc' = "error"
    /\ UNCHANGED <<obj, req, client, input, calls, frees, deletes>>

ContentTooLong ==
    /\ ReadContent /\ Len(input) > req.content
    /\ pc' = "error"
    /\ UNCHANGED <<obj, req, client, input, calls, frees, deletes>>

(* mutant of TakeContent: what has arrived so far is taken *)
TakeContent_Early ==
    /\ ReadContent /\ Len(input) <= req.content
    /\ input' = <<>>

TakeContent ==
    /\ ReadContent /\ Len(input) = req.content
    /\ input' = <<>>

(* a urlencoded form: the handler hears of it when it parses, and only     *)
(* then; multipart data: what is wrong in it is no error                   *)
FormContent ==
    /\ TakeContent /\ req.ctype = "form"
    /\ req' = [req EXCEPT !.pstate = "Done"]
    /\ Return
    /\ Tell(IF req.read_content /\ AsForm[input] THEN <<"content">> ELSE <<>>)
    /\ UNCHANGED <<obj, client, frees, deletes>>

MultipartContent ==
    /\ TakeContent /\ req.ctype = "multipart"
    /\ req' = [req EXCEPT !.pstate = "Done"]
    /\ Return
    /\ Tell(<<"content">>)
    /\ UNCHANGED <<obj, client, frees, deletes>>

BadContent ==
    /\ TakeContent /\ req.ctype \notin {"form", "multipart"}
    /\ pc' = "error"
    /\ UNCHANGED <<obj, req, client, calls, frees, deletes>>

(* in the states RequestLine and Headers: evbuffer_readln until there is   *)
(* no complete line left                                                   *)
StartLines ==
    /\ pc = "read" /\ req.pstate \in {"RequestLine", "Headers"}
    /\ pc' = "lines"
    /\ UNCHANGED <<obj, req, client, input, calls, frees, deletes>>

Ends == {i \in 1..Len(input) : input[i] = EndLine}
Line == SubSeq(input, 1, Min(Ends) - 1)

(* the line is taken off the buffer *)
TakeLine ==
    /\ pc = "lines" /\ Ends # {}
    /\ input' = SubSeq(input, Min(Ends) + 1, Len(input))

(* mutant of NoLine: the loop runs until the buffer is empty *)
NoLine_Empty ==
    /\ pc = "lines"
    /\ input = <<>>
    /\ Return
    /\ UNCHANGED <<obj, req, client, input, calls, frees, deletes>>

NoLine ==
    /\ pc = "lines"
    /\ Ends = {}
    /\ Return
    /\ UNCHANGED <<obj, req, client, input, calls, frees, deletes>>

(* Content-Length is looked for only when the content is read *)
IsLength == req.read_content /\ AsHeader[Line].length # NoContent

LineError ==
    /\ TakeLine
    /\ \/ req.pstate = "RequestLine" /\ AsRequest[Line].err
       \/ req.pstate = "Headers" /\ Line # <<>> /\ ~IsLength /\ AsHeader[Line].err
    /\ pc' = "error"
    /\ UNCHANGED <<obj, req, client, calls, frees, deletes>>

(* what n segments make of the request: on_segment_recv of a Router makes   *)
(* another handler, which replaces it and gets the next segment.  Of a      *)
(* Router in between nothing stays, so the last handler made is as if it    *)
(* were the only one.                                                      *)
AfterSegments(r, n) ==
    IF n = 0 \/ r.handler # "router" THEN {r} ELSE {handle(r, h) : h \in Routed}

(* on_path_recv: a FileServer answers *)
AfterPath(r) == IF r.handler = "file" THEN respond(r, "answer") ELSE r

(* mutant of RequestLine: the query is handed over before the path *)
RequestLine_QueryFirst ==
    /\ req.pstate = "RequestLine" /\ TakeLine /\ ~AsRequest[Line].err
    /\ \E r \in AfterSegments(req, AsRequest[Line].segments) :
        LET asked == AsRequest[Line].query /\ r.read_content
        IN /\ req' = [AfterPath(r) EXCEPT !.pstate = "Headers",
                                          !.content = IF asked THEN 0 ELSE @]
           /\ Tell([i \in 1..AsRequest[Line].segments |-> "segment"]
                   \o (IF asked THEN <<"content">> ELSE <<>>) \o <<"path">>)
    /\ UNCHANGED <<obj, client, pc, frees, deletes>>

RequestLine ==
    /\ req.pstate = "RequestLine" /\ TakeLine /\ ~AsRequest[Line].err
    /\ \E r \in AfterSegments(req, AsRequest[Line].segments) :
        LET asked == AsRequest[Line].query /\ r.read_content
        IN /\ req' = [AfterPath(r) EXCEPT !.pstate = "Headers",
                                          !.content = IF asked THEN 0 ELSE @]
           /\ Tell([i \in 1..AsRequest[Line].segments |-> "segment"]
                   \o <<"path">> \o (IF asked THEN <<"content">> ELSE <<>>))
    /\ UNCHANGED <<obj, client, pc, frees, deletes>>

LengthLine ==
    /\ req.pstate = "Headers" /\ TakeLine
    /\ Line # <<>> /\ IsLength
    /\ req' = [req EXCEPT !.content = AsHeader[Line].length]
    /\ UNCHANGED <<obj, client, pc, calls, frees, deletes>>

HeaderLine ==
    /\ req.pstate = "Headers" /\ TakeLine
    /\ Line # <<>> /\ ~IsLength /\ ~AsHeader[Line].err
    /\ req' = [req EXCEPT !.ctype = IF AsHeader[Line].ctype = "none" THEN @ ELSE AsHeader[Line].ctype]
    /\ UNCHANGED <<obj, client, pc, calls, frees, deletes>>

EndOfHeaders ==
    /\ req.pstate = "Headers" /\ TakeLine /\ Line = <<>>
    /\ req' = [req EXCEPT !.pstate = IF req.content = NoContent THEN "Done" ELSE "Content"]
    /\ UNCHANGED <<obj, client, pc, calls, frees, deletes>>

(* the loop runs on behind the headers and drops the lines it finds *)
LineDropped ==
    /\ req.pstate \in {"Content", "Done"} /\ TakeLine
    /\ UNCHANGED <<obj, req, client, pc, calls, frees, deletes>>

-------------------------------------------------------------------------------
(* Ends *)

(* close() tells the handler and frees the bufferevent, the answer in its  *)
(* output buffer with it                                                   *)
Closed(r) == [r EXCEPT !.output = IF @ = "empty" THEN @ ELSE "lost"]

(* parse_err with the handler's request_parse_err as RequestHandler has    *)
(* it: the request is deleted there, and again by parse_err.  What the      *)
(* second destructor does with the memory of the first is not followed.     *)
ParseErrDefault ==
    /\ pc = "error" /\ req.handler # "form"
    /\ Tell(<<"close">>)
    /\ frees' = frees + 1
    /\ req' = Closed(req)
    /\ obj' = "deleted" /\ deletes' = deletes + 2
    /\ Return
    /\ UNCHANGED <<client, input>>

(* with one that answers with an error page instead *)
ParseErrPage ==
    /\ pc = "error" /\ req.handler = "form"
    /\ Tell(<<"parse_err", "close">>)
    /\ frees' = frees + 1
    /\ req' = Closed(respond(req, "error page"))
    /\ obj' = "deleted" /\ deletes' = deletes + 1
    /\ Return
    /\ UNCHANGED <<client, input>>

(* the output buffer drains, then writecb: with the answer on its way the  *)
(* request is closed, and its object is left to nobody                     *)
Write ==
    /\ Open /\ pc = "idle" /\ req.output # "empty"
    /\ IF req.to_close /\ ~req.closed
       THEN /\ req' = [req EXCEPT !.output = "empty", !.closed = TRUE]
            /\ frees' = frees + 1
            /\ Tell(<<"close">>)
       ELSE /\ req' = [req EXCEPT !.output = "empty"]
            /\ UNCHANGED <<calls, frees>>
    /\ UNCHANGED <<obj, client, input, pc, deletes>>

(* eventcb on the end of the stream, an error or the read timeout: close() *)
(* and the destructor, which finds closed unset and closes again           *)
Event ==
    /\ Open /\ pc = "idle"
    /\ Tell(<<"close", "close">>)
    /\ frees' = frees + 2
    /\ req' = Closed(req)
    /\ obj' = "deleted" /\ deletes' = deletes + 1
    /\ UNCHANGED <<client, input, pc>>

(* a form handler answers in any call after on_path_recv, or later from    *)
(* outside of them                                                         *)
Answer ==
    /\ Open /\ pc # "error" /\ req.handler = "form" /\ req.pstate # "RequestLine"
    /\ ~req.to_close
    /\ req' = respond(req, "answer")
    /\ UNCHANGED <<obj, client, input, pc, calls, frees, deletes>>

-------------------------------------------------------------------------------
Callback ==
    \/ Drain \/ AwaitContent \/ ContentTooLong
    \/ FormContent \/ MultipartContent \/ BadContent
    \/ StartLines \/ NoLine \/ LineError
    \/ RequestLine \/ LengthLine \/ HeaderLine \/ EndOfHeaders \/ LineDropped
    \/ ParseErrDefault \/ ParseErrPage

Next ==
    \/ \E h \in Handlers : Accept(h)
    \/ \E k \in 1..Len(stream) : Arrive(k)
    \/ Callback \/ Write \/ Event \/ Answer

Spec == Init /\ [][Next]_vars

(* a callback that started returns; the read timeout, which nothing        *)
(* disables, strikes when nothing else happens                             *)
FairSpec == Spec /\ WF_vars(Callback) /\ WF_vars(Event)

-------------------------------------------------------------------------------
(* Properties *)

TypeOK ==
    /\ obj \in {"none", "live", "deleted"}
    /\ req \in [pstate : {"RequestLine", "Headers", "Content", "Done"},
                content : Nat \cup {NoContent}, ctype : ContentTypes \cup {"none"},
                read_content : BOOLEAN, to_close : BOOLEAN, closed : BOOLEAN,
                handler : Handlers \cup Routed \cup {"none"},
                output : {"empty", "answer", "error page", "lost"}]
    /\ stream \in Streams /\ got \in 0..Len(stream)
    /\ Len(input) \in 0..got /\ input = SubSeq(stream, got - Len(input) + 1, got)
    /\ pc \in {"idle", "read", "lines", "error"}
    /\ calls \in Seq({"segment", "path", "content", "parse_err", "close"})
    /\ frees \in 0..2 /\ deletes \in 0..2

(* How often a handler was called. *)
Count(c) == Cardinality({i \in 1..Len(calls) : calls[i] = c})
Order == <<"segment", "path", "content", "parse_err", "close">>
Rank(c) == CHOOSE i \in 1..Len(Order) : Order[i] = c

(* The handlers of a request see its segments, the end of its path, its    *)
(* content (from the query and from the body, at most once each, when they *)
(* asked for it) and its close in this order, however the bytes came in    *)
(* and whichever handler replaced which.                                   *)
CallsInOrder ==
    /\ TypeOK
    /\ \A i, j \in 1..Len(calls) : i <= j => Rank(calls[i]) <= Rank(calls[j])
    /\ Count("path") = (IF req.pstate = "RequestLine" THEN 0 ELSE 1)
    /\ Count("content") <= 2
    /\ Count("content") > 0 => req.read_content

(* A well-formed request: its lines, an empty one, and the body its        *)
(* Content-Length says, of a type that the server takes.                   *)
HeadEnds(s) == {i \in 2..Len(s) : s[i] = EndLine /\ s[i - 1] = EndLine}
HeadersOf(s) == {AsHeader[LineFrom(s, i)] :
                     i \in {j \in 2..(Min(HeadEnds(s)) - 1) : s[j - 1] = EndLine}}
Body(s) == SubSeq(s, Min(HeadEnds(s)) + 1, Len(s))
WellFormed(s) ==
    /\ ~AsRequest[LineFrom(s, 1)].err
    /\ HeadEnds(s) # {}
    /\ \A h \in HeadersOf(s) : ~h.err
    /\ LET lengths == {h.length : h \in HeadersOf(s)} \ {NoContent}
           types == {h.ctype : h \in HeadersOf(s)} \ {"none"}
       IN IF lengths = {} THEN Body(s) = <<>>
          ELSE lengths = {Len(Body(s))} /\ types \in {{"form"}, {"multipart"}}

(* a step that gives the handler its content gives it the whole body *)
BodyExact ==
    ReadContent /\ Len(calls') > Len(calls) /\ calls'[Len(calls')] = "content"
        /\ WellFormed(stream)
    => input = Body(stream)

(* A well-formed request never runs into a parse error, wherever the       *)
(* stream was cut into pieces.                                             *)
WellFormedAccepted == pc = "error" => ~WellFormed(stream)

(* Every connection is closed: by its answer, by an error or by the read   *)
(* timeout.                                                                *)
Closes == (obj = "live") ~> (frees > 0)

(* server.hpp:152 "may be called multiple times eg. if url, formdata /     *)
(* multipart are given separately": once a request with multipart data has *)
(* arrived, the handler that asked was called for it, and for a query that *)
(* parsed.                                                                 *)
BodyDelivered ==
    (/\ Open /\ pc = "idle" /\ got = Len(stream) /\ req.read_content
     /\ WellFormed(stream) /\ "multipart" \in {h.ctype : h \in HeadersOf(stream)})
    => Count("content") = IF AsRequest[LineFrom(stream, 1)].query THEN 2 ELSE 1
===============================================================================
