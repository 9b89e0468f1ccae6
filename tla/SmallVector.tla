------------------------------ MODULE SmallVector ------------------------------
(***************************************************************************)
(* SmallVector<T, MinCapacity> of src/src/smallvector.hpp: the first       *)
(* MinCapacity elements are in the object, the others in a block of the    *)
(* heap.  Digital (src/src/numeric.hpp:17) keeps its digits in one.        *)
(*                                                                         *)
(* The heap is modelled by blocks with an identity, so that a block that   *)
(* is freed twice, lost, or read by another vector is seen.  What has      *)
(* never been written is Junk.                                             *)
(***************************************************************************)
EXTENDS Integers, Sequences, FiniteSets

CONSTANTS
    Names,         \* the vectors of a client
    Values,        \* what it stores in them
    Junk,          \* an element that was never written
    Blocks, Null,  \* what new T[n] may return; a pointer that was never set
    MinCapacity,
    MaxLen         \* bound on the length a vector is given

ASSUME VectorAssumption ==
    /\ MinCapacity \in Nat \ {0} /\ MaxLen \in Nat
    /\ Null \notin Blocks

VARIABLES
    vec,           \* arr, data, cap and len of each vector
    heap,          \* the elements in each block, none: not allocated
    expected       \* history: the elements as the client knows them

vars == <<vec, heap, expected>>

Elem == Values \cup {Junk}
InlineAt == 0..(MinCapacity - 1)

-------------------------------------------------------------------------------
(* One vector v and the heap h, together m *)

At(v) == [v |-> vec[v], h |-> heap]

(* operator[]: element i, from 0 *)
Get(m, i) == IF i < MinCapacity THEN m.v.arr[i] ELSE m.h[m.v.data][i - MinCapacity + 1]
Contents(m) == [i \in 1..m.v.len |-> Get(m, i - 1)]

(* the elements of f are stored at its indices *)
Write(m, f) ==
    [v |-> [m.v EXCEPT !.arr = [i \in InlineAt |-> IF i \in DOMAIN f THEN f[i] ELSE @[i]]],
     h |-> IF m.v.cap = 0 THEN m.h
           ELSE [m.h EXCEPT ![m.v.data] = [i \in DOMAIN @ |->
                    IF i - 1 + MinCapacity \in DOMAIN f THEN f[i - 1 + MinCapacity] ELSE @[i]]]]

(* std::move and std::move_backward of n elements *)
Shift(m, from, to, n) == Write(m, [i \in to..(to + n - 1) |-> Get(m, i - to + from)])

Fill(m, i, s) == Write(m, [j \in i..(i + Len(s) - 1) |-> s[j - i + 1]])

(* a block of the heap with room for n elements, and its release *)
Unused(h) == {b \in Blocks : h[b] = <<>>}
Free(m) == IF m.v.cap > 0 THEN [m.h EXCEPT ![m.v.data] = <<>>] ELSE m.h

reserve(m, n, b) ==
    IF n <= m.v.cap + MinCapacity THEN m
    ELSE [v |-> [m.v EXCEPT !.data = b, !.cap = n - MinCapacity],
          h |-> [Free(m) EXCEPT ![b] = [i \in 1..(n - MinCapacity) |->
                    IF i <= m.v.cap THEN m.h[m.v.data][i] ELSE Junk]]]

(* room for n elements at i; in the heap it moves n elements out of the way *)
(* however many follow                                                     *)
make_space(m, i, n, b) ==
    LET grown == reserve([m EXCEPT !.v.len = @ + n], m.v.len + n, b)
    IN CASE i < MinCapacity -> Shift(grown, i, i + n, m.v.len - i)
         [] i >= MinCapacity /\ i = m.v.len -> grown
         [] i >= MinCapacity /\ i < m.v.len -> Shift(grown, i, i + n, n)

(* a new object: from a list, as a copy *)
Made(h, s, b) ==
    LET room == IF Len(s) <= MinCapacity THEN 0 ELSE Len(s) - MinCapacity
    IN [v |-> [arr |-> [i \in InlineAt |-> IF i < Len(s) THEN s[i + 1] ELSE Junk],
               data |-> IF room = 0 THEN Null ELSE b, cap |-> room, len |-> Len(s)],
        h |-> IF room = 0 THEN h
              ELSE [h EXCEPT ![b] = SubSeq(s, MinCapacity + 1, Len(s))]]

-------------------------------------------------------------------------------
Init ==
    /\ vec = [v \in Names |-> [arr |-> [i \in InlineAt |-> Junk], data |-> Null,
                               cap |-> 0, len |-> 0]]
    /\ heap = [b \in Blocks |-> <<>>]
    /\ expected = [v \in Names |-> <<>>]

Becomes(v, m) == vec' = [vec EXCEPT ![v] = m.v] /\ heap' = m.h

(* operator=: the temporary is swapped with v and destroyed with what v had *)
Replace(v, m) == /\ vec' = [vec EXCEPT ![v] = m.v]
                 /\ heap' = Free([v |-> vec[v], h |-> m.h])

Expect(v, s) == expected' = [expected EXCEPT ![v] = s]
First(v, i) == SubSeq(expected[v], 1, i)
From(s, i) == SubSeq(s, i + 1, Len(s))

(* assignment of SmallVector(n, x) or of a list *)
Assign(v, s) ==
    /\ Len(s) <= MaxLen
    /\ \E b \in Unused(heap) : Replace(v, Made(heap, s, b))
    /\ Expect(v, s)

(* insert, emplace and push_back, at one of the first positions or the end  *)
Insert(v, i, s) ==
    /\ vec[v].len + Len(s) <= MaxLen
    /\ i \in 0..vec[v].len
    /\ i < MinCapacity \/ i = vec[v].len
    /\ \E b \in Unused(heap) : Becomes(v, Fill(make_space(At(v), i, Len(s), b), i, s))
    /\ Expect(v, First(v, i) \o s \o From(expected[v], i))

(* the same in the heap part, before the end: what follows is not promised. *)
(* An insertion of more elements than follow writes behind the block, and   *)
(* is not followed.                                                         *)
InsertInHeap(v, i, s) ==
    /\ vec[v].len + Len(s) <= MaxLen
    /\ i >= MinCapacity /\ i + Len(s) <= vec[v].len
    /\ \E b \in Unused(heap) :
        LET m == Fill(make_space(At(v), i, Len(s), b), i, s)
        IN /\ Becomes(v, m)
           /\ Expect(v, First(v, i) \o s \o From(Contents(m), i + Len(s)))

(* mutant of Erase: the rest is moved one place too few *)
Erase_Short(v, i, j) ==
    /\ i \in 0..vec[v].len /\ j \in i..vec[v].len
    /\ LET m == Shift(At(v), j, i, vec[v].len - j - 1)
       IN Becomes(v, [m EXCEPT !.v.len = @ - (j - i)])
    /\ Expect(v, First(v, i) \o From(expected[v], j))

(* erase(start, end), and with it pop_back and a resize to less *)
Erase(v, i, j) ==
    /\ i \in 0..vec[v].len /\ j \in i..vec[v].len
    /\ LET m == Shift(At(v), j, i, vec[v].len - j)
       IN Becomes(v, [m EXCEPT !.v.len = @ - (j - i)])
    /\ Expect(v, First(v, i) \o From(expected[v], j))

clear(v) == Becomes(v, [At(v) EXCEPT !.v.len = 0]) /\ Expect(v, <<>>)

(* resize to more: the new elements are what the memory holds *)
Resize(v, n) ==
    /\ vec[v].len < n /\ n <= MaxLen
    /\ \E b \in Unused(heap) :
        LET m == [reserve(At(v), n, b) EXCEPT !.v.len = n]
        IN Becomes(v, m) /\ Expect(v, expected[v] \o From(Contents(m), vec[v].len))

Reserve(v, n) ==
    /\ vec[v].cap + MinCapacity < n /\ n <= MaxLen
    /\ \E b \in Unused(heap) : Becomes(v, reserve(At(v), n, b))
    /\ UNCHANGED expected

Copy(v, w) == /\ \E b \in Unused(heap) : Replace(v, Made(heap, Contents(At(w)), b))
              /\ Expect(v, expected[w])

(* mutant of Emptied: both vectors own the block *)
Emptied_Keeps(r) == [r EXCEPT !.len = MinCapacity]

(* what the move constructor leaves: the elements in the object, and the    *)
(* pointer to a block that is no longer its own                             *)
Emptied(r) == [r EXCEPT !.cap = 0, !.len = MinCapacity]

Move(v, w) ==
    /\ v # w
    /\ vec' = [vec EXCEPT ![v] = vec[w], ![w] = Emptied(vec[w])]
    /\ heap' = Free(At(v))
    /\ expected' = [expected EXCEPT ![v] = expected[w],
                                    ![w] = [i \in 1..MinCapacity |-> vec[w].arr[i - 1]]]

swap(v, w) ==
    /\ v # w
    /\ vec' = [vec EXCEPT ![v] = vec[w], ![w] = vec[v]]
    /\ expected' = [expected EXCEPT ![v] = expected[w], ![w] = expected[v]]
    /\ UNCHANGED heap

-------------------------------------------------------------------------------
Inserted == UNION {{<<x>>, <<x, x>>} : x \in Values}

Next == \E v \in Names :
    \/ \E s \in Inserted : Assign(v, s)
    \/ \E i \in 0..MaxLen, s \in Inserted : Insert(v, i, s) \/ InsertInHeap(v, i, s)
    \/ \E i, j \in 0..MaxLen : Erase(v, i, j)
    \/ clear(v)
    \/ \E n \in 1..MaxLen : Resize(v, n) \/ Reserve(v, n)
    \/ \E w \in Names : Copy(v, w) \/ Move(v, w) \/ swap(v, w)

Spec == Init /\ [][Next]_vars

-------------------------------------------------------------------------------
(* Iterators: a pointer into arr, or into data *)

InArr(i) == [small |-> TRUE, at |-> i]
InData(i) == [small |-> FALSE, at |-> i]

(* begin() + i, and end() of a vector of i elements *)
Position(i) == IF i < MinCapacity THEN InArr(i) ELSE InData(i - MinCapacity)

(* mutant of Plus: the end of arr is in arr *)
Plus_Late(p, d) ==
    IF p.small /\ MinCapacity - p.at < d THEN InData(d - (MinCapacity - p.at))
    ELSE [p EXCEPT !.at = @ + d]

(* operator+= and operator-= *)
Plus(p, d) ==
    IF p.small /\ MinCapacity - p.at <= d THEN InData(d - (MinCapacity - p.at))
    ELSE [p EXCEPT !.at = @ + d]
Minus(p, d) ==
    IF ~p.small /\ p.at < d THEN InArr((MinCapacity - d) + p.at)
    ELSE [p EXCEPT !.at = @ - d]

(* operator++ and operator-- *)
Increment(p) == IF p.small /\ p.at + 1 = MinCapacity THEN InData(0) ELSE [p EXCEPT !.at = @ + 1]
Decrement(p) == IF p = InData(0) THEN InArr(MinCapacity - 1) ELSE [p EXCEPT !.at = @ - 1]

(* operator- of two iterators, operator>= and operator> *)
Distance(p, q) ==
    CASE p.small = q.small   -> p.at - q.at
      [] p.small /\ ~q.small -> -((MinCapacity - p.at) + q.at)
      [] ~p.small /\ q.small -> p.at + (MinCapacity - q.at)
Geq(p, q) == IF p.small = q.small THEN p.at >= q.at ELSE q.small
Greater(p, q) == IF p.small = q.small THEN p.at > q.at ELSE q.small

-------------------------------------------------------------------------------
(* Properties *)

(* The elements are where cap and len say: a vector that is longer than its *)
(* array has a block, and the block has room for the rest.                  *)
Room(r, h) == /\ r.len <= MinCapacity + r.cap
              /\ r.cap > 0 => r.data # Null /\ Len(h[r.data]) = r.cap
TypeOK ==
    /\ vec \in [Names -> [arr : [InlineAt -> Elem], data : Blocks \cup {Null},
                          cap : Nat, len : Nat]]
    /\ heap \in [Blocks -> Seq(Elem)]
    /\ \A v \in Names : Room(vec[v], heap)

(* Every block that is allocated belongs to exactly one vector, also after  *)
(* moves, swaps and assignments: none is lost, freed twice or shared.       *)
Owners(b) == {v \in Names : vec[v].cap > 0 /\ vec[v].data = b}
BlocksOwned ==
    /\ TypeOK
    /\ \A b \in Blocks :
          IF heap[b] = <<>> THEN Owners(b) = {} ELSE Cardinality(Owners(b)) = 1

(* Iterators count as one array does, across the step from arr to data:     *)
(* the standard algorithms that move the elements rely on it.               *)
IteratorsCount == \A v \in Names : \A i, j \in 0..vec[v].len :
    LET p == Position(i)
        q == Position(j)
    IN /\ Distance(p, q) = i - j
       /\ Geq(p, q) = (i >= j) /\ Greater(p, q) = (i > j)
       /\ i < j => Plus(p, j - i) = q /\ Minus(q, j - i) = p
       /\ i < vec[v].len => Increment(p) = Position(i + 1) /\ Decrement(Position(i + 1)) = p

(* A vector holds what its client put there, in its order, through all      *)
(* changes of place, growth and moves; only an insertion into the heap part *)
(* may lose elements behind it.                                             *)
ContentsExpected == \A v \in Names : Contents(At(v)) = expected[v]
===============================================================================
