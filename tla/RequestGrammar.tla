---------------------------- MODULE RequestGrammar ----------------------------
(***************************************************************************)
(* The grammars of server/server.cpp for the lines of a request: the       *)
(* request line, a header, and the query string that a path or the body of *)
(* a form brings.                                                          *)
(*                                                                         *)
(* A text is a sequence of characters, or of words that stand for several  *)
(* and are never taken apart: a method, the names and values of headers.   *)
(* Of a word the grammars see its first character only, in percent_decode. *)
(* A "%" has two characters behind it: of fewer Char reads one that nobody *)
(* wrote.                                                                  *)
(***************************************************************************)
EXTENDS Parser, FiniteSets, FiniteSetsExt, SequencesExt

Unlimited(min, n) == ManyFrom(min, NoMax, n)
Without(s, n) == Chain(Not(s), n)

-------------------------------------------------------------------------------
(* Query strings *)

querystring_terminator ==
    Chain(Not(ParseWS), Chain(Not(Match(<<"&">>)), Not(Match(<<"=">>))))

(* hexchar(x[0])*16 + hexchar(x[1]) is 0, for the two equal characters that *)
(* Char takes from the front of the text                                   *)
HexLetters == {"a", "b", "c", "d", "e", "f", "DELETE"}
ZeroByte(front) == front \notin HexLetters \cup (Digits \ {"0"})
ZeroBytes(t) == {<<c, c>> : c \in {d \in ToSet(t) : ZeroByte(d)}}

(* the characters of a name or a value.  What they decode to is pushed to   *)
(* a string of which a copy, still empty, is the result.                   *)
percent_decode(t, delim) ==
    Chain(Many(Chain(delim,
                     Or(Match(<<"+">>),
                        Or(Chain(Match(<<"%">>),
                                 Chain(ArrayMap(2, Char),
                                       Chain(ErrorMap(ZeroBytes(t)), Ignore))),
                           Chain(Char, Ignore))))),
          Const([type |-> "text", text |-> <<>>]))

querystring_parse(t) ==
    LET dec == percent_decode(t, querystring_terminator)
    IN MultipleFrom(1, SkipAfter(Tuple(dec, Chain(Ignore, Chain(Match(<<"=">>), dec))),
                                 querystring_terminator))

(* a text that is a query string and nothing more, as in the body of a form *)
FormTaken(t) == ~Run(querystring_parse(t), t, Start).err

-------------------------------------------------------------------------------
(* Request lines *)

method ==
    LET other(s, n) == Or(Match(<<s>>), n)
    IN Or(Chain(Many(ParseWS), Match(<<"GET">>)),
          other("POST", other("PATCH", other("DELETE", other("PUT", Match(<<"HEAD">>))))))

path_terminator == Or(Match(<<"/">>), Or(ParseWS, Match(<<"?">>)))

path ==
    LET segment == Chain(ParseString(Unlimited(1, Without(path_terminator, AnyChar))), Tell)
    IN Chain(Ignore, Chain(Many(Or(Match(<<"/">>), ParseWS)),
                           maybe(separated(segment, Match(<<"/">>)))))

query(t) == Chain(Match(<<"?">>), querystring_parse(t))

(* what a request line is taken for: an error, or so many segments for the *)
(* handler and a query for one that reads content                          *)
Taken(segments, q) == [err |-> FALSE, segments |-> segments, query |-> ~q.err]
AfterMethod(t, m, p) ==
    IF m.err THEN [err |-> TRUE, segments |-> 0, query |-> FALSE]
    ELSE Taken(Len(p.told), Run(query(t), t, p))
PathOf(t, m) == AfterMethod(t, m, Run(path, t, m))
RequestLineRead(t) == PathOf(t, Run(method, t, Start))

-------------------------------------------------------------------------------
(* Headers *)

val_sep == Or(ParseWS, Or(Match(<<",">>), Match(<<";">>)))
blanks == Many(Match(<<" ">>))

header_start ==
    Tuple(ParseString(Many(Without(Match(<<":">>), AnyChar))),
          Chain(Ignore, Chain(Match(<<":">>), Chain(ParseWS,
                ParseString(Many(Without(val_sep, AnyChar)))))))

parse_val ==
    LET quote == Match(<<"\"">>)
    IN Or(Chain(quote, SkipAfter(ParseString(Or(Many(Chain(Match(<<"\\">>), AnyChar)),
                                                Without(quote, AnyChar))), quote)),
          ParseString(Unlimited(1, Without(val_sep, AnyChar))))

parse_vals_sep == separated(Chain(TellWithKey(parse_val), blanks), Match(<<",">>))
parse_init_vals_sep(name) ==
    Many(Chain(blanks, Chain(Match(<<",">>), Chain(blanks,
         Chain(Const(name), TellWithKey(parse_val))))))

(* a name and values behind a semicolon; around the "=" there is a blank *)
extras(name) ==
    LET key == ParseString(Many(Chain(Not(ParseWS), Without(Match(<<"=">>), AnyChar))))
    IN Chain(maybe(parse_init_vals_sep(name)),
             Many(Chain(Match(<<";">>), Chain(blanks,
                  Chain(SkipAfter(key, Chain(ParseWS, Chain(Match(<<"=">>), ParseWS))),
                        parse_vals_sep)))))

(* what is wrong behind the first value is no error: the parser that is    *)
(* returned is made anew                                                   *)
HeaderOf(t, p) ==
    IF p.err THEN [err |-> TRUE]
    ELSE [err |-> FALSE, name |-> p.res[1][1].text, val |-> p.res[1][2].text,
          extra |-> {<<e[1].text, e[2].text>> :
              e \in ToSet(Run(extras(p.res[1][1]), t, [p EXCEPT !.res = <<>>]).told)}]
parse_header(t) == HeaderOf(t, Run(header_start, t, Start))

clength == Chain(Match(<<"Content-Length">>), Chain(Match(<<":">>), Chain(ParseWS, ParseInt)))
Value(digits) ==
    FoldLeft(LAMBDA n, d : 10 * n + (CHOOSE v \in 0..9 : ToString(v) = d), 0, digits)

(* what a header line says of the content: its length, if it is the header *)
(* for that, and its type                                                  *)
ContentType(h) ==
    CASE h.err \/ (~h.err /\ h.name # <<"Content-Type">>) -> "none"
      [] ~h.err /\ h.name = <<"Content-Type">> /\ h.val = <<"form">> -> "form"
      [] ~h.err /\ h.name = <<"Content-Type">> /\ h.val = <<"multipart">> ->
             IF \E e \in h.extra : e[1] = <<"boundary">> THEN "multipart" ELSE "unbounded"
      [] OTHER -> "other"
Length(c) == IF c.err THEN -1 ELSE Value(c.res[1].text)
Described(h, length) == [err |-> h.err, length |-> length, ctype |-> ContentType(h)]
HeaderRead(t) == Described(parse_header(t), Length(Run(clength, t, Start)))

-------------------------------------------------------------------------------
(* A reference for request lines: positions instead of combinators *)

(* the position behind a method, if a text starts with one.  Blanks may    *)
(* come before GET only (server.cpp:226: + binds before ||).               *)
MethodsEnd(t) ==
    LET get == Span(t, 1, Whitespace) + 1
    IN {i \in {get + 1} : CharAt(t, get) = "GET"}
       \cup {i \in {2} : CharAt(t, 1) \in {"POST", "PATCH", "DELETE", "PUT", "HEAD"}}

(* The path starts behind slashes and blanks and ends at a blank, a "?" or  *)
(* a slash with no segment behind it.                                      *)
PathStart(t) == LET m == Max(MethodsEnd(t)) IN m + Span(t, m, Whitespace \cup {"/"})
PathEnd(t) ==
    LET stops(i) == CharAt(t, i) \in Whitespace \cup {"?", "eof"}
    IN Min({i \in PathStart(t)..(Len(t) + 1) :
                stops(i) \/ (t[i] = "/" /\ (stops(i + 1) \/ t[i + 1] = "/"))})

SegmentsOf(t) ==
    IF PathEnd(t) = PathStart(t) THEN 0
    ELSE 1 + Cardinality({i \in PathStart(t)..(PathEnd(t) - 1) : t[i] = "/"})

(* the positions that a query string is read at: a "%" takes two more with *)
(* it when the first character of the whole text is a hexadecimal digit    *)
ReadAt(t, from) ==
    LET read[i \in from..(Len(t) + 3)] ==
            IF i > Len(t) THEN {}
            ELSE {i} \cup read[IF t[i] = "%" /\ ~ZeroByte(t[1]) THEN i + 3 ELSE i + 1]
    IN read[from]

(* one name and one value, and nothing behind them *)
OnePair(t, from) ==
    LET count(set) == Cardinality({i \in ReadAt(t, from) : t[i] \in set})
    IN count({"="}) = 1 /\ count({"&"} \cup Whitespace) = 0

QueryOf(t) == CharAt(t, PathEnd(t)) = "?" /\ OnePair(t, PathEnd(t) + 1)
===============================================================================
