-------------------------------- MODULE Parser --------------------------------
(***************************************************************************)
(* The parser combinators of src/src/parser.hpp.  A ParseMap is a node of  *)
(* a grammar; Run(n, t, p) is n.run(p) on the text t, where the parser p   *)
(* has a position, a result and an error flag.                             *)
(*                                                                         *)
(* A text is a sequence of characters.  A result is a sequence: empty for  *)
(* Unit, one element for anything else (a map to a constant or to a        *)
(* wrapper of what was captured is left out).  A loop that never ends       *)
(* returns a parser that hangs, and so does every map that waits for it.   *)
(* Some maps call a function that the grammar's owner gave them: told is   *)
(* what these heard, in order; nothing takes a call back.                  *)
(***************************************************************************)
EXTENDS Integers, Sequences

Whitespace == {"\r", "\n", " "}
Digits == {"0", "1", "2", "3", "4", "5", "6", "7", "8", "9"}

(* Parser(text), and what the maps make of one *)
Start == [at |-> 1, res |-> <<>>, told |-> <<>>, err |-> FALSE, hang |-> FALSE]
Moved(p, n, res) == [p EXCEPT !.at = @ + n, !.res = res]
Failed(p) == [p EXCEPT !.err = TRUE, !.res = <<>>]
Stopped(p) == p.err \/ p.hang

(* a character of the text, or what is behind its end *)
CharAt(t, at) == IF at <= Len(t) THEN t[at] ELSE "eof"

(* how many characters of a set stand at a position: strtol and strtof *)
Span(t, at, set) ==
    LET span[i \in at..(Len(t) + 1)] == IF CharAt(t, i) \in set THEN 1 + span[i + 1] ELSE 0
    IN span[at]

-------------------------------------------------------------------------------
(* The maps *)

Match(s) == [op |-> "match", chars |-> s]
ParseWS == [op |-> "ws"]
AnyChar == [op |-> "any"]
ParseEOF == [op |-> "eof"]
ParseInt == [op |-> "int"]
ParseFloat == [op |-> "float"]
ParseString(n) == [op |-> "string", inner |-> n]
Not(n) == [op |-> "not", inner |-> n]
LookAhead(n) == [op |-> "look", inner |-> n]
Chain(l, r) == [op |-> "chain", left |-> l, right |-> r]
Or(l, r) == [op |-> "or", left |-> l, right |-> r]
Tuple(l, r) == [op |-> "tuple", left |-> l, right |-> r]
Skip(n) == [op |-> "skip", inner |-> n]
Combine(n) == [op |-> "combine", inner |-> n]
Ignore == [op |-> "ignore"]
Char == [op |-> "char"]
ArrayMap(size, n) == [op |-> "array", size |-> size, inner |-> n]
ErrorMap(bad) == [op |-> "error", bad |-> bad]
ManyFrom(min, max, n) == [op |-> "many", min |-> min, max |-> max, inner |-> n]
MultipleFrom(min, n) == [op |-> "multiple", min |-> min, inner |-> n]
(* ResultMaps: to a constant; one that hands what was captured to a function *)
Const(value) == [op |-> "const", value |-> value]
Tell == [op |-> "tell"]
(* a LazyMap that runs a map behind the one that captured a key, and hands  *)
(* over both                                                               *)
TellWithKey(n) == [op |-> "lazy", inner |-> n]

(* a maximum that is never reached: an unsigned counter wraps before it is  *)
(* numeric_limits<size_t>::max()                                           *)
NoMax == -1
ManyUpTo(max, n) == ManyFrom(0, max, n)
Many(n) == ManyUpTo(NoMax, n)
Multiple(n) == MultipleFrom(0, n)
SkipAfter(n, s) == Chain(n, Skip(s))
maybe(n) == ManyUpTo(1, n)
separated(n, s) == Chain(Combine(n), Many(Chain(Skip(s), n)))

RECURSIVE Run(_, _, _)

(* the characters of a match, one by one *)
Matches(t, at, s) == at + Len(s) - 1 <= Len(t) /\ SubSeq(t, at, at + Len(s) - 1) = s

(* a map of n characters that captures them under a type, or fails *)
Number(t, p, n, type) ==
    IF n = 0 THEN Failed(p)
    ELSE Moved(p, n, <<[type |-> type, text |-> SubSeq(t, p.at, p.at + n - 1)]>>)

(* strtof, where strtol found no digit: a point and digits *)
Fraction(t, at) ==
    IF CharAt(t, at) = "." /\ Span(t, at + 1, Digits) > 0 THEN 1 + Span(t, at + 1, Digits) ELSE 0

(* Not inverts the error and leaves the position where its inner map did *)
RunNot(n, t, p) == LET q == Run(n.inner, t, p) IN [q EXCEPT !.err = ~@, !.res = <<>>]

RunLook(n, t, p) == [Run(n.inner, t, p) EXCEPT !.at = p.at]

RunChain(n, t, p) ==
    LET q == Run(n.left, t, p)
    IN IF Stopped(q) THEN q ELSE Run(n.right, t, q)

RunOr(n, t, p) ==
    LET q == Run(n.left, t, p)
    IN IF q.err /\ ~q.hang THEN Run(n.right, t, [p EXCEPT !.told = q.told]) ELSE q

RunTuple(n, t, p) ==
    LET q == Run(n.left, t, p)
        r == Run(n.right, t, q)
    IN IF Stopped(q) THEN q ELSE IF Stopped(r) THEN r
       ELSE [r EXCEPT !.res = <<q.res \o r.res>>]

RunSkip(n, t, p) ==
    LET q == Run(n.inner, t, [p EXCEPT !.res = <<>>])
    IN IF Stopped(q) THEN q ELSE [q EXCEPT !.res = p.res]

RunString(n, t, p) ==
    LET q == Run(n.inner, t, p)
    IN IF Stopped(q) THEN Failed(q)
       ELSE [q EXCEPT !.res = <<[type |-> "text", text |-> SubSeq(t, p.at, q.at - 1)]>>]

RunCombine(n, t, p) ==
    LET q == Run(n.inner, t, p)
    IN IF Stopped(q) THEN q ELSE [q EXCEPT !.res = p.res]

(* an error in it goes unnoticed *)
RunArray(n, t, p) ==
    LET array[i \in 0..n.size] ==
            IF i = 0 THEN [p EXCEPT !.res = <<>>]
            ELSE LET q == Run(n.inner, t, [array[i - 1] EXCEPT !.res = p.res])
                 IN [q EXCEPT !.err = FALSE, !.res = array[i - 1].res \o q.res]
    IN array[n.size]

RunLazy(n, t, p) ==
    LET q == Run(n.inner, t, [p EXCEPT !.res = <<>>])
    IN IF Stopped(q) THEN q ELSE [q EXCEPT !.told = @ \o <<p.res \o q.res>>, !.res = <<>>]

(* The loop of Many and Multiple from round i on: what it captured, told,   *)
(* and where it ended.  A round that succeeds where it stands is the same   *)
(* the next time.                                                           *)
Loop(n, t, p, min, max) ==
    LET end(at, told, err) == [at |-> at, res |-> <<>>, told |-> told, err |-> err, hang |-> FALSE]
        loop[q \in [at : 1..(Len(t) + 1), i : 0..(Len(t) + 1)]] ==
            LET r == Run(n, t, [p EXCEPT !.at = q.at, !.told = <<>>])
                rest == loop[[at |-> r.at, i |-> q.i + 1]]
            IN CASE q.i = max -> end(q.at, <<>>, FALSE)
                 [] q.i # max /\ r.hang -> r
                 [] q.i # max /\ ~r.hang /\ r.err ->
                        end(IF q.i < min THEN r.at ELSE q.at, r.told, q.i < min)
                 [] q.i # max /\ ~Stopped(r) /\ r.at = q.at /\ max = NoMax /\ q.i >= min ->
                        [r EXCEPT !.hang = TRUE]
                 [] OTHER -> [rest EXCEPT !.res = r.res \o @, !.told = r.told \o @]
        looped == loop[[at |-> p.at, i |-> 0]]
    IN [looped EXCEPT !.told = p.told \o @]

RunMany(n, t, p) == [Loop(n.inner, t, p, n.min, n.max) EXCEPT !.res = <<>>]

(* a vector of min elements to begin with, and what was captured behind them *)
Default == "default"
RunMultiple(n, t, p) ==
    LET q == Loop(n.inner, t, p, n.min, NoMax)
    IN IF Stopped(q) THEN q ELSE [q EXCEPT !.res = [i \in 1..n.min |-> Default] \o @]

Run(n, t, p) ==
    CASE n.op = "match"  -> IF Matches(t, p.at, n.chars) THEN Moved(p, Len(n.chars), <<>>)
                            ELSE Failed(p)
      [] n.op = "ws"     -> IF CharAt(t, p.at) \in Whitespace THEN Moved(p, 1, <<>>) ELSE Failed(p)
      [] n.op = "any"    -> IF p.at <= Len(t) THEN Moved(p, 1, <<>>) ELSE Failed(p)
      [] n.op = "eof"    -> IF p.at > Len(t) THEN Moved(p, 0, <<>>) ELSE Failed(p)
      [] n.op = "int"    -> Number(t, p, Span(t, p.at, Digits), "long")
      [] n.op = "float"  -> Number(t, p, Fraction(t, p.at), "float")
      [] n.op = "string" -> RunString(n, t, p)
      [] n.op = "not"    -> RunNot(n, t, p)
      [] n.op = "look"   -> RunLook(n, t, p)
      [] n.op = "chain"  -> RunChain(n, t, p)
      [] n.op = "or"     -> RunOr(n, t, p)
      [] n.op = "tuple"  -> RunTuple(n, t, p)
      [] n.op = "skip"   -> RunSkip(n, t, p)
      [] n.op = "combine" -> RunCombine(n, t, p)
      [] n.op = "array"  -> RunArray(n, t, p)
      [] n.op = "error"  -> IF p.res \in n.bad THEN Failed(p) ELSE p
      [] n.op = "lazy"   -> RunLazy(n, t, p)
      [] n.op = "tell"   -> [p EXCEPT !.told = @ \o p.res, !.res = <<>>]
      \* the first character of the text, wherever the parser is
      [] n.op = "char"   -> IF p.at <= Len(t) THEN Moved(p, 1, <<t[1]>>) ELSE Failed(p)
      [] n.op = "ignore" -> Moved(p, 0, <<>>)
      [] n.op = "many"   -> RunMany(n, t, p)
      [] n.op = "multiple" -> RunMultiple(n, t, p)
      [] n.op = "const"  -> Moved(p, 0, <<n.value>>)
===============================================================================
