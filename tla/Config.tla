-------------------------------- MODULE Config --------------------------------
(***************************************************************************)
(* src/src/config.cpp: a program's settings, a Map of names to values some *)
(* of which are defaults, the file they are parsed from, and the file that *)
(* save() writes.  The grammar is config.cpp's, as a node of Parser.       *)
(*                                                                         *)
(* The map is the Dictionary that map.hpp promises (HashMap): an insert    *)
(* replaces, and the order of an iteration is any.  A program is off, on,  *)
(* or hung in a parse that does not end.  While it is off anybody may      *)
(* write to the file.                                                      *)
(***************************************************************************)
EXTENDS Parser, FiniteSetsExt, SequencesExt

CONSTANTS Written,      \* the characters and words somebody writes into the file
          Names,        \* the names the program puts values under
          Settings,     \* the values it puts
          MaxText,      \* how long a text anybody writes; what is longer was saved
          MaxBeside,    \* how long a text the program puts values beside, unless
                        \* what it has saved before was parsed
          MaxFile       \* how long a file the program saves

VARIABLES pc, map, file, saved
vars == <<pc, map, file, saved>>

(* saved holds what the file was saved from, until somebody writes to it or  *)
(* a program opens it                                                        *)
NotSaved == {}

-------------------------------------------------------------------------------
(* Config::parse *)

newline == ManyUpTo(1, Or(Match(<<"\r">>), Match(<<"\n">>)))

sep == Chain(Many(ParseWS), Chain(Match(<<"=">>), Many(ParseWS)))

(* !Match consumes nothing: the loop only leaves a body made of escapes *)
parse_string ==
    SkipAfter(Chain(Match(<<"\"">>),
                    ParseString(Many(Or(Chain(Match(<<"\\">>), AnyChar), Not(Match(<<"\"">>)))))),
              Chain(Match(<<"\"">>), newline))

parse_name ==
    Chain(Many(ParseWS), SkipAfter(ParseString(Many(Chain(Not(LookAhead(sep)), AnyChar))), sep))

True == <<"t", "r", "u", "e">>
False == <<"f", "a", "l", "s", "e">>
bool(x) == Chain(Match(x), Const([type |-> "bool", text |-> x]))

parse_value ==
    Or(Or(Or(SkipAfter(ParseInt, newline), SkipAfter(ParseFloat, newline)),
          SkipAfter(Or(bool(True), bool(False)), newline)),
       parse_string)

(* mutant of grammar: what is left of the file may be anything *)
grammar_Partial ==
    SkipAfter(Multiple(Tuple(parse_name, Chain(Ignore, parse_value))), Many(ParseWS))

grammar ==
    SkipAfter(Multiple(Tuple(parse_name, Chain(Ignore, parse_value))),
              Chain(Many(ParseWS), ParseEOF))

(* what a text is parsed to: names with values, an error, or no end *)
Parsed(text) ==
    LET p == Run(grammar, text, Start)
    IN [hang |-> p.hang, err |-> p.err,
        entries |-> IF Stopped(p) THEN <<>>
                    ELSE [i \in DOMAIN p.res |-> [name |-> p.res[i][1].text, value |-> p.res[i][2]]]]

(* Map::insert, for one entry and for all in turn *)
Inserted(m, name, value) == [k \in DOMAIN m \cup {name} |-> IF k = name THEN value ELSE m[k]]
AllInserted(m, entries) ==
    FoldLeft(LAMBDA acc, e : Inserted(acc, e.name, [is_default |-> FALSE, var |-> e.value]),
             m, entries)

-------------------------------------------------------------------------------
(* Config::save *)

(* a value as the stream prints it: a number below one with its zero *)
Printed(var) ==
    CASE var.type = "float" -> <<"0">> \o var.text
      [] var.type = "text"  -> <<"\"">> \o var.text \o <<"\"">>
      [] OTHER              -> var.text

(* mutant of Line: the lines run together *)
Line_NoNewline(name, var) == name \o <<" ", "=", " ">> \o Printed(var)

Line(name, var) == name \o <<" ", "=", " ">> \o Printed(var) \o <<"\n">>

(* what is not a default *)
Chosen(m) == [k \in {j \in DOMAIN m : ~m[j].is_default} |-> m[k].var]

Saved(chosen, order) == FlattenSeq([i \in DOMAIN order |-> Line(order[i], chosen[order[i]])])

-------------------------------------------------------------------------------
(* The program and its file *)

NoEntries == [k \in {} |-> k]

Init == pc = "off" /\ map = NoEntries /\ file = <<>> /\ saved = NotSaved

(* somebody writes some more *)
Write(s) ==
    /\ pc = "off"
    /\ Len(file) + Len(s) <= MaxText
    /\ file' = file \o s
    /\ saved' = NotSaved
    /\ UNCHANGED <<pc, map>>

Open ==
    /\ pc = "off"
    /\ pc' = "on"
    /\ map' = NoEntries
    /\ saved' = NotSaved
    /\ UNCHANGED file

parse ==
    /\ pc = "on"
    /\ \E p \in {Parsed(file)} :
           IF p.hang THEN pc' = "hung" /\ UNCHANGED map
           ELSE pc' = pc /\ map' = IF p.err THEN map ELSE AllInserted(map, p.entries)
    /\ UNCHANGED <<file, saved>>

(* cfg.map.insert, as Window's destructor does *)
Put(name, var, is_default) ==
    /\ pc = "on"
    /\ DOMAIN map \subseteq Names
    /\ Len(file) <= MaxBeside \/ (Len(file) > MaxText /\ map # NoEntries)
    /\ map' = Inserted(map, name, [is_default |-> is_default, var |-> var])
    /\ UNCHANGED <<pc, file, saved>>

save ==
    /\ pc = "on"
    /\ saved' = {Chosen(map)}
    /\ \E order \in SetToSeqs(DOMAIN Chosen(map)) : file' = Saved(Chosen(map), order)
    /\ Len(file') <= MaxFile
    /\ UNCHANGED <<pc, map>>

Close ==
    /\ pc \in {"on", "hung"}
    /\ pc' = "off"
    /\ map' = NoEntries
    /\ UNCHANGED <<file, saved>>

Next ==
    \/ \E s \in Written : Write(s)
    \/ Open
    \/ parse
    \/ \E name \in Names, var \in Settings, is_default \in BOOLEAN : Put(name, var, is_default)
    \/ save
    \/ Close

Spec == Init /\ [][Next]_vars

-------------------------------------------------------------------------------
(* A reference for the files: positions and cuts instead of combinators *)

(* the first position from `at' on where a text has a character, if any *)
Find(t, at, c) == Min({i \in at..Len(t) : t[i] = c} \cup {Len(t) + 1})

(* a stretch of a text without the blanks at its ends *)
Stripped(t, from, to) ==
    LET solid == {i \in from..to : t[i] \notin Whitespace}
    IN IF solid = {} THEN <<>> ELSE SubSeq(t, Min(solid), Max(solid))

(* how many escaped characters follow an opening quote *)
Escapes(t, at) ==
    Max({n \in 0..Len(t) : at + 2 * n <= Len(t) /\ \A i \in 0..(n - 1) : t[at + 1 + 2 * i] = "\\"})

(* a quote whose closing one follows after escapes only can be read *)
Closed(t, at) == CharAt(t, at + 1 + 2 * Escapes(t, at)) = "\""

(* the value that starts at a position: how long it is and what it says *)
ValueAt(t, at) ==
    LET cut(type, n) == {[type |-> type, text |-> SubSeq(t, at, at + n - 1), size |-> n]}
        quoted == 2 * Escapes(t, at)
    IN CASE CharAt(t, at) \in Digits -> cut("long", Span(t, at, Digits))
         [] CharAt(t, at) = "." /\ CharAt(t, at + 1) \in Digits -> cut("float", 1 + Span(t, at + 1, Digits))
         [] Matches(t, at, True) -> cut("bool", 4)
         [] Matches(t, at, False) -> cut("bool", 5)
         [] CharAt(t, at) = "\"" /\ Closed(t, at) ->
                {[type |-> "text", text |-> SubSeq(t, at + 1, at + quoted), size |-> quoted + 2]}
         [] OTHER -> {}

(* a text is names and values: a name ends at "=", a value where it stops   *)
(* being one, and one end of line may follow it                            *)
Reference(t) ==
    LET read[at \in 1..(Len(t) + 2)] ==
            LET eq == Find(t, at, "=")
                start == eq + 1 + Span(t, eq + 1, Whitespace)
                value == ValueAt(t, start)
                v == CHOOSE x \in value : TRUE
                behind == start + v.size
                rest == read[IF CharAt(t, behind) \in {"\r", "\n"} THEN behind + 1 ELSE behind]
            IN CASE eq > Len(t) \/ (value = {} /\ CharAt(t, start) # "\"") ->
                        [hang |-> FALSE, entries |-> <<>>, err |-> Stripped(t, at, Len(t)) # <<>>]
                 [] eq <= Len(t) /\ value = {} /\ CharAt(t, start) = "\"" ->
                        [hang |-> TRUE, entries |-> <<>>, err |-> FALSE]
                 [] OTHER ->
                        [rest EXCEPT !.entries =
                            IF rest.hang \/ rest.err THEN <<>>
                            ELSE <<[name |-> Stripped(t, at, eq - 1),
                                    value |-> [type |-> v.type, text |-> v.text]]>> \o @]
    IN read[1]

-------------------------------------------------------------------------------
(* Properties *)

Types == {"long", "float", "bool", "text"}

(* The program's state has its types, and no name in its map holds a "="    *)
(* or begins or ends with a blank, so that it is found under what the file  *)
(* seems to say (config.cpp:9 and :13).                                     *)
TypeOK ==
    /\ pc \in {"off", "on", "hung"}
    /\ \A k \in DOMAIN map :
           /\ map[k].is_default \in BOOLEAN /\ map[k].var.type \in Types
           /\ Find(k, 1, "=") > Len(k) /\ Stripped(k, 1, Len(k)) = k

(* parse() reads a file as the reference does: every name up to its "=",    *)
(* every value as far as it goes, one wrong entry and nothing is loaded.    *)
(* A quote is left again only when escapes alone are in it (config.cpp:8).  *)
ReadsReference ==
    /\ TypeOK
    /\ pc = "off" =>
          LET p == Parsed(file)
              r == Reference(file)
          IN /\ p.hang = r.hang
             /\ ~p.hang => p.err = r.err /\ p.entries = r.entries

(* What is saved is restored by the next start, defaults left to the        *)
(* program, when it is integers and truth values: save() and parse() are    *)
(* inverse for these, whatever the names and the order of the map.          *)
SavedIsRestored ==
    pc = "off" =>
        \A m \in saved : (\A k \in DOMAIN m : m[k].type \in {"long", "bool"}) =>
            LET p == Parsed(file)
            IN ~p.hang /\ ~p.err /\ Chosen(AllInserted(NoEntries, p.entries)) = m
===============================================================================
