------------------------------ MODULE MCTemplate ------------------------------
(***************************************************************************)
(* Values of Template's constants for TLC: a token of each kind, and        *)
(* arguments that go round a loop up to twice, and round one in it.         *)
(***************************************************************************)
EXTENDS Template

T(kind, idx, text) == [kind |-> kind, idx |-> idx, text |-> text, means |-> text, noescape |-> FALSE]
MCTokens == {
    T("text", 0, <<"a">>), T("text", 0, <<"!">>),
    [T("text", 0, <<"!", "!", "%">>) EXCEPT !.means = <<"!", "%">>],
    T("arg", 0, <<"%", "0">>),
    [T("arg", 1, <<"%", "#", "1">>) EXCEPT !.noescape = TRUE],
    T("cond", 0, <<"%", "!", "0">>), T("inverted", 0, <<"%", "!", "!", "0">>),
    T("loop", 0, <<"%", "!", "*", "0">>), T("end", 0, <<"!", "%">>) }

(* a vector's identity is its place among the arguments *)
Args(c, x, id, rows) == [cond |-> <<c>>, sub |-> <<x, <<"&">>>>, loop |-> <<[id |-> id, rows |-> rows]>>]
Inner(id) == Args(1, <<"b">>, id, <<>>)
Row(id, c, n) == Args(c, <<"<">>, id, [i \in 1..n |-> Inner(id \o <<i, 0>>)])
MCArguments == {Args(c, <<"<", "b">>, <<0>>, [i \in 1..n |-> Row(<<0, i, 0>>, 1 - c, i)]) :
                    c \in {0, 1}, n \in 0..2}
===============================================================================
