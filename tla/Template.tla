------------------------------- MODULE Template -------------------------------
(***************************************************************************)
(* The templates of src/src/template.c: a text with substitutions (%0, or  *)
(* %#0 for one that is not escaped), conditions (%!0 ... !% and inverted   *)
(* %!!0 ... !%) and loops (%!*0 ... !%), which template_new compiles and   *)
(* do_template_va fills in, in two passes: one counts the characters, one  *)
(* writes them into a block of that size.                                  *)
(*                                                                         *)
(* A client writes a template token by token.  A text is a sequence of     *)
(* characters; of a vector of arguments its identity is kept, because it   *)
(* is freed when it has been used.                                         *)
(***************************************************************************)
EXTENDS Integers, Sequences, FiniteSetsExt, SequencesExt

CONSTANTS Tokens,       \* what a template is written of: [kind, idx, text]
          Arguments,    \* what it may be filled in with
          MaxTokens     \* bound: tokens of a template

VARIABLE tokens

Joined(field, s) == FlattenSeq([i \in DOMAIN s |-> s[i][field]])
Text == Joined("text", tokens)
CharOf(t, i) == IF i <= Len(t) THEN t[i] ELSE "eof"
From(t, i) == SubSeq(t, i, Len(t))
DigitOf(c) == CHOOSE d \in 0..9 : ToString(d) = c

-------------------------------------------------------------------------------
(* Compilation *)

RECURSIVE Scan(_, _, _)

Blank == [str |-> <<>>, skip |-> 0, max_args |-> 0, max_cond |-> 0, max_loop |-> 0,
          substitutions |-> <<>>]
template_new(data) == Scan(data, 1, Blank)

Copied(m, c) == [m EXCEPT !.str = Append(@, c)]
Larger(n, m) == IF n > m THEN n ELSE m

(* mutant of End: the two characters of the end are read again *)
End_Again(t, i, m) == [m EXCEPT !.skip = i - 1]

(* "!%" ends the text of a condition, "!!%" stands for itself *)
End(t, i, m) == [m EXCEPT !.skip = i + 1]

Substitution(m, idx, noescape) ==
    [m EXCEPT !.max_args = Larger(@, idx + 1),
              !.substitutions = Append(@, [kind |-> "arg", idx |-> idx, offset |-> Len(m.str),
                                           noescape |-> noescape])]

(* a loop that was counted before counts as a condition *)
Counted(m, idx, loop) ==
    IF loop /\ idx >= m.max_loop THEN [m EXCEPT !.max_loop = idx + 1]
    ELSE [m EXCEPT !.max_cond = Larger(@, idx + 1)]

Nested(m, idx, kind, insertion) ==
    [m EXCEPT !.max_args = Larger(@, insertion.max_args),
              !.max_cond = Larger(@, insertion.max_cond),
              !.max_loop = Larger(@, insertion.max_loop),
              !.substitutions = Append(@, [kind |-> kind, idx |-> idx, offset |-> Len(m.str),
                                           insertion |-> insertion])]

(* the text behind the index, from position i on, is the insertion's *)
Compiled(t, i, m, idx, kind, insertion) ==
    Scan(t, i + insertion.skip, Nested(Counted(m, idx, kind = "loop"), idx, kind, insertion))

Condition(t, i, m) ==
    LET kind == CASE CharOf(t, i) = "*" -> "loop" [] CharOf(t, i) = "!" -> "inverted"
                  [] OTHER -> "cond"
        at == IF kind = "cond" THEN i ELSE i + 1
    IN Compiled(t, at + 1, m, DigitOf(CharOf(t, at)), kind, template_new(From(t, at + 1)))

Scan(t, i, m) ==
    CASE i > Len(t) -> m
      [] CharOf(t, i) = "!" /\ CharOf(t, i + 1) = "%" ->
            IF i > 1 /\ CharOf(t, i - 1) = "!" THEN Scan(t, i + 2, Copied(m, "%")) ELSE End(t, i, m)
      [] CharOf(t, i) = "%" /\ CharOf(t, i + 1) = "%" -> Scan(t, i + 2, Copied(m, "%"))
      [] CharOf(t, i) = "%" /\ CharOf(t, i + 1) = "!" -> Condition(t, i + 2, m)
      [] CharOf(t, i) = "%" /\ CharOf(t, i + 1) = "#" ->
            Scan(t, i + 3, Substitution(m, DigitOf(CharOf(t, i + 2)), TRUE))
      [] CharOf(t, i) = "%" /\ CharOf(t, i + 1) \notin {"%", "!", "#"} ->
            Scan(t, i + 2, Substitution(m, DigitOf(CharOf(t, i + 1)), FALSE))
      [] OTHER -> Scan(t, i + 1, Copied(m, CharOf(t, i)))

-------------------------------------------------------------------------------
(* Substitution: args has cond and sub, and loop, for each a vector with    *)
(* the arguments of every time round                                        *)

Escape == [c \in {"<", ">", "&", "'", "\""} |->
              CASE c = "<" -> <<"&", "l", "t", ";">>
                [] c = ">" -> <<"&", "g", "t", ";">>
                [] c = "&" -> <<"&", "a", "m", "p", ";">>
                [] c = "'" -> <<"&", "#", "3", "9", ";">>
                [] c = "\"" -> <<"&", "q", "u", "o", "t", ";">>]
Escaped(c) == IF c \in DOMAIN Escape THEN Escape[c] ELSE <<c>>
EscapedText(s) == FlattenSeq([i \in DOMAIN s |-> Escaped(s[i])])

Taken(sub, args) == (sub.kind = "inverted") = (args.cond[sub.idx + 1] = 0)

Total(s) == FoldLeft(LAMBDA n, m : n + m, 0, s)

RECURSIVE template_length(_, _)
SubLength(sub, args) ==
    CASE sub.kind = "loop" ->
            Total([i \in DOMAIN args.loop[sub.idx + 1].rows |->
                      template_length(sub.insertion, args.loop[sub.idx + 1].rows[i])])
      [] sub.kind \in {"cond", "inverted"} ->
            IF Taken(sub, args) THEN template_length(sub.insertion, args) ELSE 0
      [] sub.kind = "arg" ->
            IF sub.noescape THEN Len(args.sub[sub.idx + 1]) ELSE Len(EscapedText(args.sub[sub.idx + 1]))
template_length(m, args) ==
    Len(m.str) + Total([i \in DOMAIN m.substitutions |-> SubLength(m.substitutions[i], args)])

(* what is written, and what is freed, in order: a vector when the loop is  *)
(* over, and the arguments of each time round after it                      *)
Both(parts) == [out |-> Joined("out", parts), freed |-> Joined("freed", parts)]
Only(text) == [out |-> text, freed |-> <<>>]
AndFree(part, id) == [part EXCEPT !.freed = Append(@, id)]

(* the template's own text before its i-th substitution, and behind the last *)
Between(m, i) ==
    SubSeq(m.str, 1 + (IF i > 1 THEN m.substitutions[i - 1].offset ELSE 0),
           IF i <= Len(m.substitutions) THEN m.substitutions[i].offset ELSE Len(m.str))

RECURSIVE template_substitute(_, _)
Substituted(sub, args) ==
    CASE sub.kind = "loop" ->
            LET loop == args.loop[sub.idx + 1]
            IN Both(Append([i \in DOMAIN loop.rows |->
                               AndFree(template_substitute(sub.insertion, loop.rows[i]), Append(loop.id, i))],
                           [out |-> <<>>, freed |-> <<loop.id>>]))
      [] sub.kind \in {"cond", "inverted"} ->
            IF Taken(sub, args) THEN template_substitute(sub.insertion, args) ELSE Only(<<>>)
      [] sub.kind = "arg" ->
            Only(IF sub.noescape THEN args.sub[sub.idx + 1] ELSE EscapedText(args.sub[sub.idx + 1]))
template_substitute(m, args) ==
    Both([i \in 1..(Len(m.substitutions) + 1) |->
            Both(<<Only(Between(m, i)),
                   IF i <= Len(m.substitutions) THEN Substituted(m.substitutions[i], args)
                   ELSE Only(<<>>)>>)])

(* do_template_va takes max_cond, max_loop and max_args arguments off its   *)
(* list, in this order                                                      *)
do_template_va(m, args) ==
    [written |-> template_substitute(m, args), len |-> template_length(m, args)]

-------------------------------------------------------------------------------
(* The client *)

TemplateInit == tokens = <<>>
WriteToken(k) == Len(tokens) < MaxTokens /\ tokens' = Append(tokens, k)
(* it writes another *)
Anew == tokens # <<>> /\ tokens' = <<>>
TemplateNext == (\E k \in Tokens : WriteToken(k)) \/ Anew

-------------------------------------------------------------------------------
(* What a template stands for, by its tokens *)

Opening == {"cond", "inverted", "loop"}
Count(s, kinds) == Len(SelectSeq(s, LAMBDA k : k.kind \in kinds))
(* where the text of the condition that s starts with ends *)
Ends(s) == {i \in DOMAIN s : s[i].kind = "end"
                /\ Count(SubSeq(s, 1, i), Opening) = Count(SubSeq(s, 1, i), {"end"})}

RECURSIVE Means(_, _)
Meaning(k, inner, a) ==
    CASE k.kind = "text" -> k.means
      [] k.kind = "arg" -> IF k.noescape THEN a.sub[k.idx + 1] ELSE EscapedText(a.sub[k.idx + 1])
      [] k.kind = "loop" -> FlattenSeq([i \in DOMAIN a.loop[k.idx + 1].rows |->
                                            Means(inner, a.loop[k.idx + 1].rows[i])])
      [] k.kind = "cond" -> IF a.cond[k.idx + 1] # 0 THEN Means(inner, a) ELSE <<>>
      [] k.kind = "inverted" -> IF a.cond[k.idx + 1] = 0 THEN Means(inner, a) ELSE <<>>
Means(s, a) ==
    IF s = <<>> THEN <<>>
    ELSE LET end == IF s[1].kind \in Opening THEN Min(Ends(s)) ELSE 1
         IN Meaning(s[1], SubSeq(s, 2, end - 1), a) \o Means(From(s, end + 1), a)

(* Every condition ends, and no "!" stands where it would be read together  *)
(* with a "%" behind it.                                                    *)
Readable ==
    /\ \A i \in DOMAIN tokens :
          /\ tokens[i].kind \in Opening => Ends(From(tokens, i)) # {}
          /\ Count(SubSeq(tokens, 1, i), {"end"}) <= Count(SubSeq(tokens, 1, i), Opening)
    /\ \A i \in 1..(Len(tokens) - 1) :
          ~(tokens[i].text = <<"!">> /\ (tokens[i + 1].text[1] = "%" \/ tokens[i + 1].kind = "end"))

(* a loop stands twice, and not within itself, where the vector is another *)
Loops == {i \in DOMAIN tokens : tokens[i].kind = "loop"}
Within(j, i) == j - i < Min(Ends(From(tokens, i)))
Twice == \E i, j \in Loops : i < j /\ tokens[i].idx = tokens[j].idx /\ ~Within(j, i)
Indexes(kinds) == {-1} \cup {tokens[i].idx : i \in {j \in DOMAIN tokens : tokens[j].kind \in kinds}}

(* A template is filled in as its tokens say, conditions and loops in one   *)
(* another, and the block that is allocated by the first pass holds exactly *)
(* what the second writes.  Unless a loop stands twice, as many arguments   *)
(* are taken as there are indexes, and nothing is freed twice; a loop     *)
(* that stands a second time is counted as a condition (template.c:87) and  *)
(* has been freed by the first (template.c:208).                            *)
TemplateRenders ==
    Readable =>
    \A m \in {template_new(Text)} :
        /\ \A a \in Arguments : \A done \in {do_template_va(m, a)} :
              /\ done.written.out = Means(tokens, a)
              /\ done.len = Len(done.written.out)
              /\ ~Twice => IsInjective(done.written.freed)
        /\ ~Twice =>
              /\ m.max_args = 1 + Max(Indexes({"arg"}))
              /\ m.max_cond = 1 + Max(Indexes({"cond", "inverted"}))
              /\ m.max_loop = 1 + Max(Indexes({"loop"}))
===============================================================================
