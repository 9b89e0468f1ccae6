------------------------------ MODULE Dictionary ------------------------------
(***************************************************************************)
(* What a hash table promises its client: a partial function from keys to  *)
(* values.  A call takes effect, and hands back its result, at one instant *)
(* between its start and its end; the calls of an iterator have one such   *)
(* instant a position.  HashMap (the translation of src/src/map.hpp) is    *)
(* shown to implement it as long as the table does not grow.               *)
(***************************************************************************)

CONSTANTS
    Keys,      \* the keys a client uses
    Values,    \* the values it stores
    NoValue    \* std::nullopt, or the null pointer of operator[]

VARIABLES
    dict,      \* what each key is bound to, NoValue when unbound
    call,      \* the call in progress: op, key and val
    ret        \* what the last call, or position, handed back

vars == <<dict, call, ret>>

Idle == call.op = "none"
Bound == {k \in Keys : dict[k] # NoValue}
Iterating == call.op \in {"find", "iterate", "clear"}

Init == /\ dict = [k \in Keys |-> NoValue]
        /\ Idle
        /\ ret = NoValue

(* a call starts; an iteration starts on its first entry *)
Begin == /\ Idle
         /\ \/ call'.op \in {"lookup", "insert", "upsert", "remove", "find"} /\ UNCHANGED ret
            \/ call'.op = "iterate" /\ ret' \in {dict[k] : k \in Bound}
            \/ call'.op = "clear" /\ UNCHANGED ret
         /\ UNCHANGED dict

End == call'.op = "none"

(* operator[], and find_begin() of a key that is not there *)
Lookup == /\ call.op \in {"lookup", "find"} /\ End
          /\ ret' = dict[call.key]
          /\ UNCHANGED dict

(* insert hands back the value it replaces *)
Insert == /\ call.op = "insert" /\ End
          /\ ret' = dict[call.key]
          /\ dict' = [dict EXCEPT ![call.key] = call.val]

(* upsert leaves a bound key alone; the value a fresh binding starts with *)
(* is whatever its bucket held, so a client may not rely on it            *)
Upsert == /\ call.op = "upsert" /\ End
          /\ ret' \in Values
          /\ dict[call.key] # NoValue => ret' = dict[call.key]
          /\ dict' = [dict EXCEPT ![call.key] = ret']

Remove == /\ call.op = "remove" /\ End
          /\ ret' = dict[call.key]
          /\ dict' = [dict EXCEPT ![call.key] = NoValue]

(* a position of find_begin or of begin *)
Position == /\ UNCHANGED <<dict, call>>
            /\ \/ call.op = "find" /\ call.key \in Bound /\ ret' = dict[call.key]
               \/ call.op = "iterate" /\ ret' \in {dict[k] : k \in Bound}

(* Iterator::remove, FindIterator::remove and the steps of clear(), the last *)
(* of which leaves no key                                                    *)
Erase == /\ Iterating
         /\ \E k \in Bound :
              /\ dict' = [dict EXCEPT ![k] = NoValue]
              /\ call.op = "find" => k = call.key
              /\ \/ UNCHANGED call
                 \/ call.op = "clear" /\ Bound = {k} /\ End
         /\ UNCHANGED ret

(* the client leaves the loop, or there are no more positions *)
Leave == call.op \in {"find", "iterate"} /\ End /\ UNCHANGED <<dict, ret>>

Next == \/ Begin \/ Lookup \/ Insert \/ Upsert \/ Remove
        \/ Position \/ Erase \/ Leave

Spec == Init /\ [][Next]_vars
===============================================================================
