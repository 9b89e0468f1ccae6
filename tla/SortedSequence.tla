---------------------------- MODULE SortedSequence ----------------------------
(***************************************************************************)
(* What a search tree promises its client: a sequence of items in the      *)
(* order of their keys, equal keys in no particular order.  SearchTree     *)
(* (the translation of src/src/btree.hpp) is shown to implement it.        *)
(***************************************************************************)
EXTENDS Naturals, Sequences

CONSTANTS
    Nodes,     \* the items, by identity: the client keeps pointers to them
    Key        \* the keys the items start with

VARIABLES
    items,     \* the items from begin() to end()
    key        \* the key the comparator sees in each item

vars == <<items, key>>

Stored == {items[i] : i \in 1..Len(items)}

Init == items = <<>> /\ key = Key

(* the item goes to some place that keeps the sequence sorted *)
Insert(n) ==
    /\ n \notin Stored
    /\ \E i \in 0..Len(items) :
        /\ \A j \in 1..i : key[items[j]] <= key[n]
        /\ \A j \in (i + 1)..Len(items) : key[n] <= key[items[j]]
        /\ items' = SubSeq(items, 1, i) \o <<n>> \o SubSeq(items, i + 1, Len(items))
    /\ UNCHANGED key

Remove(i) ==
    /\ items' = SubSeq(items, 1, i - 1) \o SubSeq(items, i + 1, Len(items))
    /\ UNCHANGED key

(* two items change places, because the order the client compares by did *)
Exchange(i, j) ==
    /\ items' = [items EXCEPT ![i] = items[j], ![j] = items[i]]
    /\ key' = [key EXCEPT ![items[i]] = key[items[j]], ![items[j]] = key[items[i]]]

Next ==
    \/ \E n \in Nodes : Insert(n)
    \/ \E i \in 1..Len(items) : Remove(i)
    \/ \E i, j \in 1..Len(items) : i < j /\ Exchange(i, j)

Spec == Init /\ [][Next]_vars
===============================================================================
