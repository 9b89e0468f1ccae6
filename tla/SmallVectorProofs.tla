--------------------------- MODULE SmallVectorProofs ---------------------------
(***************************************************************************)
(* Proofs about SmallVector for every MinCapacity, any number of vectors   *)
(* and blocks and any lengths.                                             *)
(***************************************************************************)
EXTENDS SmallVector, TLAPS, SequenceTheorems, FiniteSetTheorems

Vector == [arr : [InlineAt -> Elem], data : Blocks \cup {Null}, cap : Nat, len : Nat]
Memory == [Blocks -> Seq(Elem)]

(* The block that a vector has to free, and the indices it has room for.   *)
Own(r) == IF r.cap > 0 THEN {r.data} ELSE {}
Places(m) == 0..(MinCapacity + m.v.cap - 1)

Length(m) == m.v.len
RoomFor(m, l) == l <= MinCapacity + m.v.cap

(* A block that is free beside the vector m.                               *)
Spare(m, b) == b \in Blocks /\ m.h[b] = <<>>

(* A vector whose block, if it has one, is as long as cap says.            *)
Whole(m) ==
    /\ m \in [v : Vector, h : Memory]
    /\ m.v.cap > 0 => m.v.data \in Blocks /\ Len(m.h[m.v.data]) = m.v.cap

(* It has the elements of e, and room for them.                            *)
Holds(m, e) ==
    /\ Len(e) = m.v.len /\ m.v.len <= MinCapacity + m.v.cap
    /\ \A k \in 1..Len(e) : e[k] = Get(m, k - 1)

(* What holds of all vectors vs, the heap h and the expectations es.       *)
Sound(vs, h, es) ==
    /\ vs \in [Names -> Vector] /\ h \in Memory /\ es \in [Names -> Seq(Elem)]
    /\ \A v \in Names : Whole([v |-> vs[v], h |-> h]) /\ Holds([v |-> vs[v], h |-> h], es[v])
    /\ \A v, w \in Names : v # w => Own(vs[v]) \cap Own(vs[w]) = {}
    /\ \A b \in Blocks : h[b] # <<>> => \E v \in Names : b \in Own(vs[v])

(* The inductive invariant.                                                *)
Inv == Sound(vec, heap, expected)

(* From m to n the vector has changed no more of the heap than its own     *)
(* block and the free ones in B, and what it no longer owns is free.       *)
Local(m, n, B) ==
    /\ Own(n.v) \subseteq Own(m.v) \cup B
    /\ \A c \in Blocks \ (Own(m.v) \cup B) : n.h[c] = m.h[c]
    /\ \A c \in (Own(m.v) \cup B) \ Own(n.v) : n.h[c] = <<>>

(* The same vector in the same place, with other elements.                 *)
Rewritten(m, n) ==
    /\ n.v.cap = m.v.cap /\ n.v.data = m.v.data /\ n.v.len = m.v.len
    /\ \A c \in Blocks \ Own(m.v) : n.h[c] = m.h[c]

-------------------------------------------------------------------------------
(* Sequences *)

LEMMA RowIsSeq ==
    ASSUME NEW S, NEW n \in Nat, NEW f \in [1..n -> S]
    PROVE  f \in Seq(S) /\ Len(f) = n
<1>1. f \in Seq(S)
    BY SeqDef
<1>2. DOMAIN f = 1..Len(f) /\ Len(f) \in Nat
    BY <1>1, LenProperties
<1>. QED BY <1>1, <1>2

LEMMA FirstPart ==
    ASSUME NEW S, NEW d \in Seq(S), NEW i \in 0..Len(d)
    PROVE  /\ SubSeq(d, 1, i) \in Seq(S) /\ Len(SubSeq(d, 1, i)) = i
           /\ \A k \in 1..i : SubSeq(d, 1, i)[k] = d[k]
<1> DEFINE a == SubSeq(d, 1, i)
<1>0. Len(d) \in Nat /\ i \in Int /\ 1 \in Int
    BY LenProperties
<1>1. \A k \in 1..i : d[k] \in S
    BY <1>0, ElementOfSeq
<1>2. /\ a \in Seq(S) /\ Len(a) = (IF 1 <= i THEN i - 1 + 1 ELSE 0)
      /\ \A k \in 1..(i - 1 + 1) : a[k] = d[1 + k - 1]
    BY <1>0, <1>1, SubSeqProperties
<1>. QED BY <1>0, <1>2

LEMMA RestPart ==
    ASSUME NEW S, NEW e \in Seq(S), NEW j \in 0..Len(e)
    PROVE  /\ From(e, j) \in Seq(S) /\ Len(From(e, j)) = Len(e) - j
           /\ \A k \in 1..(Len(e) - j) : From(e, j)[k] = e[k + j]
<1> DEFINE c == From(e, j)
<1>0. Len(e) \in Nat /\ j + 1 \in Int /\ Len(e) \in Int
    BY LenProperties
<1>1. \A k \in (j + 1)..Len(e) : e[k] \in S
    BY <1>0, ElementOfSeq
<1>2. /\ c \in Seq(S)
      /\ Len(c) = (IF j + 1 <= Len(e) THEN Len(e) - (j + 1) + 1 ELSE 0)
      /\ \A k \in 1..(Len(e) - (j + 1) + 1) : c[k] = e[(j + 1) + k - 1]
    BY <1>0, <1>1, SubSeqProperties DEF From
<1>. QED BY <1>0, <1>2

(* What is between i in d and j in e becomes s.                            *)
Splice(f, d, i, s, e, j) ==
    /\ Len(f) = (i + Len(s)) + (Len(e) - j)
    /\ \A k \in 1..Len(f) :
          f[k] = IF k <= i THEN d[k]
                 ELSE IF k <= i + Len(s) THEN s[k - i]
                 ELSE e[(k - (i + Len(s))) + j]

LEMMA Spliced ==
    ASSUME NEW S, NEW d \in Seq(S), NEW s \in Seq(S), NEW e \in Seq(S),
           NEW i \in 0..Len(d), NEW j \in 0..Len(e),
           NEW f, f = SubSeq(d, 1, i) \o s \o From(e, j)
    PROVE  f \in Seq(S) /\ Splice(f, d, i, s, e, j)
<1> DEFINE a == SubSeq(d, 1, i)
           c == From(e, j)
           g == a \o s
<1>0. Len(d) \in Nat /\ Len(e) \in Nat /\ Len(s) \in Nat
    BY LenProperties
<1>1. a \in Seq(S) /\ Len(a) = i /\ \A k \in 1..i : a[k] = d[k]
    BY FirstPart
<1>2. c \in Seq(S) /\ Len(c) = Len(e) - j /\ \A k \in 1..(Len(e) - j) : c[k] = e[k + j]
    BY RestPart
<1> HIDE DEF a, c
<1>3. /\ g \in Seq(S) /\ Len(g) = i + Len(s)
      /\ \A k \in 1..(i + Len(s)) : g[k] = IF k <= i THEN a[k] ELSE s[k - i]
    BY <1>1, ConcatProperties
<1>f. f = g \o c
    BY DEF a, c
<1> HIDE DEF g
<1>4. /\ f \in Seq(S) /\ Len(f) = Len(g) + Len(c)
      /\ \A k \in 1..(Len(g) + Len(c)) :
            f[k] = IF k <= Len(g) THEN g[k] ELSE c[k - Len(g)]
    <2>1. g \in Seq(S) /\ c \in Seq(S)
        BY <1>2, <1>3
    <2>2. /\ g \o c \in Seq(S) /\ Len(g \o c) = Len(g) + Len(c)
          /\ \A k \in 1..(Len(g) + Len(c)) :
                (g \o c)[k] = IF k <= Len(g) THEN g[k] ELSE c[k - Len(g)]
        BY <2>1, ConcatProperties
    <2>. QED BY <1>f, <2>2, Zenon
<1>5. Len(f) = (i + Len(s)) + (Len(e) - j)
    BY <1>2, <1>3, <1>4
<1>6. ASSUME NEW k \in 1..Len(f)
      PROVE  f[k] = IF k <= i THEN d[k]
                    ELSE IF k <= i + Len(s) THEN s[k - i]
                    ELSE e[(k - (i + Len(s))) + j]
    <2>1. f[k] = IF k <= i + Len(s) THEN g[k] ELSE c[k - (i + Len(s))]
        BY <1>2, <1>3, <1>4
    <2>2. CASE k <= i + Len(s)
        BY <2>1, <2>2, <1>0, <1>1, <1>3
    <2>3. CASE ~(k <= i + Len(s))
        <3>1. k - (i + Len(s)) \in 1..(Len(e) - j)
            BY <2>3, <1>0, <1>5
        <3>. QED BY <2>1, <2>3, <3>1, <1>0, <1>2
    <2>. QED BY <2>2, <2>3
<1>. QED BY <1>4, <1>5, <1>6 DEF Splice

-------------------------------------------------------------------------------
(* One vector *)

LEMMA Capacity == MinCapacity \in Nat /\ MinCapacity > 0
BY VectorAssumption

LEMMA GetElem ==
    ASSUME NEW m, Whole(m), NEW i \in Places(m)
    PROVE  Get(m, i) \in Elem
<1>1. m.v.cap \in Nat /\ i \in Nat /\ i < MinCapacity + m.v.cap
    BY Capacity DEF Whole, Vector, Places
<1>2. CASE i < MinCapacity
    BY <1>1, <1>2, Capacity DEF Get, Whole, Vector, InlineAt
<1>3. CASE ~(i < MinCapacity)
    <2> DEFINE q == m.h[m.v.data]
    <2>1. q \in Seq(Elem) /\ i - MinCapacity + 1 \in 1..Len(q)
        BY <1>1, <1>3, Capacity DEF Whole, Memory
    <2>2. q[i - MinCapacity + 1] \in Elem
        BY <2>1, ElementOfSeq
    <2>. QED BY <2>2, <1>3 DEF Get
<1>. QED BY <1>2, <1>3

(* What Write() stores is read back, and nothing else is changed.          *)
LEMMA Written ==
    ASSUME NEW m, Whole(m), NEW f, \A i \in DOMAIN f : f[i] \in Elem,
           NEW n, n = Write(m, f)
    PROVE  /\ Whole(n) /\ Rewritten(m, n)
           /\ \A i \in Places(m) :
                Get(n, i) = IF i \in DOMAIN f THEN f[i] ELSE Get(m, i)
<1> DEFINE r == [i \in InlineAt |-> IF i \in DOMAIN f THEN f[i] ELSE m.v.arr[i]]
           q == m.h[m.v.data]
           g == [i \in DOMAIN q |->
                    IF i - 1 + MinCapacity \in DOMAIN f THEN f[i - 1 + MinCapacity] ELSE q[i]]
<1>1. /\ m.v \in Vector /\ m.h \in Memory /\ m.v.cap \in Nat
      /\ m.v.arr \in [InlineAt -> Elem]
    BY DEF Whole, Vector
<1>2. r \in [InlineAt -> Elem]
    BY <1>1
<1>3. /\ n.v = [m.v EXCEPT !.arr = r] /\ n = [v |-> n.v, h |-> n.h]
      /\ n.h = IF m.v.cap = 0 THEN m.h ELSE [m.h EXCEPT ![m.v.data] = g]
    BY DEF Write
<1>r. \A i \in InlineAt : r[i] = IF i \in DOMAIN f THEN f[i] ELSE m.v.arr[i]
    OBVIOUS
<1> HIDE DEF r
<1>4. /\ n.v \in Vector /\ n.v.arr = r
      /\ n.v.cap = m.v.cap /\ n.v.data = m.v.data /\ n.v.len = m.v.len
    BY <1>1, <1>2, <1>3 DEF Vector
<1>5. ASSUME m.v.cap > 0
      PROVE  /\ m.v.data \in Blocks /\ q \in Seq(Elem) /\ Len(q) = m.v.cap
             /\ g \in Seq(Elem) /\ Len(g) = m.v.cap
             /\ n.h[m.v.data] = g
             /\ \A k \in 1..m.v.cap :
                  g[k] = IF k - 1 + MinCapacity \in DOMAIN f
                         THEN f[k - 1 + MinCapacity] ELSE q[k]
    <2>1. m.v.data \in Blocks /\ q \in Seq(Elem) /\ Len(q) = m.v.cap
        BY <1>1, <1>5 DEF Whole, Memory
    <2>2. DOMAIN q = 1..m.v.cap /\ \A k \in 1..m.v.cap : q[k] \in Elem
        BY <2>1, LenProperties, ElementOfSeq
    <2>3. g \in [1..m.v.cap -> Elem]
        BY <2>2
    <2>5. \A k \in 1..m.v.cap : g[k] = IF k - 1 + MinCapacity \in DOMAIN f
                                       THEN f[k - 1 + MinCapacity] ELSE q[k]
        BY <2>2
    <2> HIDE DEF g, q
    <2>4. g \in Seq(Elem) /\ Len(g) = m.v.cap
        BY <1>1, <2>3, RowIsSeq
    <2>6. n.h[m.v.data] = g
        BY <1>1, <1>3, <1>5, <2>1 DEF Memory
    <2>. QED BY <2>1, <2>4, <2>5, <2>6
<1> HIDE DEF g, q
<1>6. n.h \in Memory /\ \A c \in Blocks \ Own(m.v) : n.h[c] = m.h[c]
    <2>1. CASE m.v.cap = 0
        BY <2>1, <1>1, <1>3
    <2>2. CASE m.v.cap # 0
        <3>1. m.v.cap > 0 /\ n.h = [m.h EXCEPT ![m.v.data] = g]
            BY <2>2, <1>1, <1>3
        <3>. QED BY <3>1, <1>1, <1>5 DEF Memory, Own
    <2>. QED BY <2>1, <2>2
<1>7. Whole(n) /\ Rewritten(m, n)
    BY <1>3, <1>4, <1>5, <1>6 DEF Whole, Rewritten
<1>8. ASSUME NEW i \in Places(m)
      PROVE  Get(n, i) = IF i \in DOMAIN f THEN f[i] ELSE Get(m, i)
    <2>0. i \in Nat /\ i < MinCapacity + m.v.cap
        BY <1>1, Capacity DEF Places
    <2>1. CASE i < MinCapacity
        <3>1. i \in InlineAt /\ Get(n, i) = r[i] /\ Get(m, i) = m.v.arr[i]
            BY <2>0, <2>1, <1>4, Capacity DEF InlineAt, Get
        <3>. QED BY <3>1, <1>r
    <2>2. CASE ~(i < MinCapacity)
        <3> DEFINE k == i - MinCapacity + 1
        <3>1. k \in 1..m.v.cap /\ k - 1 + MinCapacity = i /\ m.v.cap > 0
            BY <2>0, <2>2, <1>1, Capacity
        <3>2. Get(n, i) = g[k] /\ Get(m, i) = q[k]
            BY <2>2, <3>1, <1>4, <1>5 DEF Get, q
        <3> HIDE DEF k
        <3>3. g[k] = IF k - 1 + MinCapacity \in DOMAIN f
                     THEN f[k - 1 + MinCapacity] ELSE q[k]
            BY <3>1, <1>5
        <3>. QED BY <3>1, <3>2, <3>3
    <2>. QED BY <2>1, <2>2
<1>. QED BY <1>7, <1>8

(* std::move of k elements within the room of the vector.                  *)
Moved(m, n, from, to, k) ==
    /\ Whole(n) /\ Rewritten(m, n)
    /\ \A i \in Places(m) :
          Get(n, i) = IF to <= i /\ i < to + k THEN Get(m, (i - to) + from) ELSE Get(m, i)

LEMMA Shifted ==
    ASSUME NEW m, Whole(m), NEW from \in Nat, NEW to \in Nat, NEW k \in Nat,
           RoomFor(m, from + k),
           NEW n, n = Shift(m, from, to, k)
    PROVE  Moved(m, n, from, to, k)
<1> DEFINE f == [i \in to..(to + k - 1) |-> Get(m, i - to + from)]
<1>1. m.v.cap \in Nat
    BY DEF Whole, Vector
<1>2. ASSUME NEW i \in to..(to + k - 1)
      PROVE  f[i] = Get(m, (i - to) + from) /\ f[i] \in Elem
    <2>1. (i - to) + from \in Places(m)
        BY <1>1, Capacity DEF Places, RoomFor
    <2>. QED BY <2>1, GetElem
<1>3. DOMAIN f = to..(to + k - 1) /\ n = Write(m, f)
    BY DEF Shift
<1> HIDE DEF f
<1>4. /\ Whole(n) /\ Rewritten(m, n)
      /\ \A i \in Places(m) : Get(n, i) = IF i \in DOMAIN f THEN f[i] ELSE Get(m, i)
    BY <1>2, <1>3, Written
<1>5. \A i \in Places(m) : i \in to..(to + k - 1) <=> to <= i /\ i < to + k
    BY <1>1, Capacity DEF Places
<1>. QED BY <1>2, <1>3, <1>4, <1>5 DEF Moved

(* The elements of s are stored one after the other from i on.             *)
LEMMA Filled ==
    ASSUME NEW m, Whole(m), NEW s \in Seq(Elem), NEW i \in Nat,
           NEW n, n = Fill(m, i, s)
    PROVE  /\ Whole(n) /\ Rewritten(m, n)
           /\ \A j \in Places(m) :
                Get(n, j) = IF i <= j /\ j < i + Len(s) THEN s[(j - i) + 1] ELSE Get(m, j)
<1> DEFINE f == [j \in i..(i + Len(s) - 1) |-> s[j - i + 1]]
<1>1. m.v.cap \in Nat /\ Len(s) \in Nat
    BY LenProperties DEF Whole, Vector
<1>2. ASSUME NEW j \in i..(i + Len(s) - 1)
      PROVE  f[j] = s[(j - i) + 1] /\ f[j] \in Elem
    <2>1. (j - i) + 1 \in 1..Len(s)
        BY <1>1
    <2>. QED BY <2>1, ElementOfSeq
<1>3. DOMAIN f = i..(i + Len(s) - 1) /\ n = Write(m, f)
    BY DEF Fill
<1> HIDE DEF f
<1>4. /\ Whole(n) /\ Rewritten(m, n)
      /\ \A j \in Places(m) : Get(n, j) = IF j \in DOMAIN f THEN f[j] ELSE Get(m, j)
    BY <1>2, <1>3, Written
<1>5. \A j \in Places(m) : j \in i..(i + Len(s) - 1) <=> i <= j /\ j < i + Len(s)
    BY <1>1, Capacity DEF Places
<1>. QED BY <1>2, <1>3, <1>4, <1>5

LEMMA InRoom ==
    ASSUME NEW m, Whole(m), NEW l \in Nat, RoomFor(m, l)
    PROVE  \A j \in 0..(l - 1) : j \in Places(m)
<1>1. m.v.cap \in Nat
    BY DEF Whole, Vector
<1>. QED BY <1>1, Capacity DEF RoomFor, Places

LEMMA OwnOf ==
    ASSUME NEW m, Whole(m)
    PROVE  /\ Own(m.v) \subseteq Blocks
           /\ \A b \in Blocks : m.h[b] = <<>> => b \notin Own(m.v)
<1>1. m.v.cap \in Nat /\ m.v.cap > 0 => m.h[m.v.data] # <<>>
    BY EmptySeq DEF Whole, Vector
<1>. QED BY <1>1 DEF Whole, Own

(* What the vector had in its block is in the new one, and the old one is  *)
(* free.                                                                   *)
LEMMA Reserved ==
    ASSUME NEW m, Whole(m), NEW n \in Nat, NEW b, Spare(m, b),
           NEW r, r = reserve(m, n, b)
    PROVE  /\ Whole(r) /\ Local(m, r, {b}) /\ Length(r) = Length(m)
           /\ Places(m) \subseteq Places(r) /\ RoomFor(r, n)
           /\ \A i \in Places(m) : Get(r, i) = Get(m, i)
<1>0. /\ m.v \in Vector /\ m.h \in Memory /\ m.v.cap \in Nat /\ m.v.len \in Nat
      /\ b \in Blocks /\ m.h[b] = <<>> /\ b \notin Own(m.v)
    BY OwnOf DEF Whole, Vector, Spare
<1>1. CASE n <= m.v.cap + MinCapacity
    <2>1. r = m
        BY <1>1 DEF reserve
    <2>2. RoomFor(r, n)
        BY <2>1, <1>0, <1>1, Capacity DEF RoomFor
    <2>. QED BY <2>1, <2>2, <1>0 DEF Local
<1>2. CASE ~(n <= m.v.cap + MinCapacity)
    <2> DEFINE c == n - MinCapacity
               q == m.h[m.v.data]
               g == [i \in 1..c |-> IF i <= m.v.cap THEN q[i] ELSE Junk]
    <2>1. c \in Nat /\ m.v.cap < c
        BY <1>0, <1>2, Capacity
    <2>2. r = [v |-> [m.v EXCEPT !.data = b, !.cap = c], h |-> [Free(m) EXCEPT ![b] = g]]
        BY <1>2 DEF reserve
    <2>3. \A i \in 1..c : g[i] = IF i <= m.v.cap THEN q[i] ELSE Junk
        OBVIOUS
    <2>4. \A i \in 1..c : i <= m.v.cap => q[i] \in Elem
        <3>1. ASSUME m.v.cap > 0 PROVE q \in Seq(Elem) /\ Len(q) = m.v.cap
            BY <3>1 DEF Whole, Memory
        <3>. QED BY <1>0, <3>1, ElementOfSeq
    <2>5. g \in [1..c -> Elem]
        BY <2>4 DEF Elem
    <2> HIDE DEF g, c
    <2>6. g \in Seq(Elem) /\ Len(g) = c
        BY <2>1, <2>5, RowIsSeq
    <2>7. /\ r.v \in Vector /\ r.v.arr = m.v.arr /\ r.v.data = b /\ r.v.cap = c
          /\ r.v.len = m.v.len
        <3>1. r.v = [m.v EXCEPT !.data = b, !.cap = c]
            BY <2>2
        <3>. QED BY <1>0, <2>1, <3>1 DEF Vector
    <2>8. /\ Free(m) \in Memory
          /\ \A d \in Blocks \ Own(m.v) : Free(m)[d] = m.h[d]
          /\ \A d \in Own(m.v) : Free(m)[d] = <<>>
        BY <1>0, EmptySeq, OwnOf DEF Free, Own, Memory
    <2>9. r.h = [Free(m) EXCEPT ![b] = g] /\ r = [v |-> r.v, h |-> r.h]
        BY <2>2
    <2>10. /\ r.h \in Memory /\ r.h[b] = g
           /\ \A d \in Blocks \ {b} : r.h[d] = Free(m)[d]
        BY <1>0, <2>6, <2>8, <2>9 DEF Memory
    <2>11. Own(r.v) = {b}
        BY <1>0, <2>1, <2>7 DEF Own
    <2>12. Whole(r)
        BY <1>0, <2>6, <2>7, <2>9, <2>10 DEF Whole
    <2>13. Local(m, r, {b})
        BY <1>0, <2>8, <2>10, <2>11, OwnOf DEF Local
    <2>14. ASSUME NEW i \in Places(m)
           PROVE  Get(r, i) = Get(m, i)
        <3>0. i \in Nat /\ i < MinCapacity + m.v.cap
            BY <1>0, Capacity DEF Places
        <3>1. CASE i < MinCapacity
            BY <3>1, <2>7 DEF Get
        <3>2. CASE ~(i < MinCapacity)
            <4> DEFINE k == i - MinCapacity + 1
            <4>1. k \in 1..c /\ k <= m.v.cap
                BY <3>0, <3>2, <1>0, <2>1, Capacity
            <4>2. Get(r, i) = g[k] /\ Get(m, i) = q[k]
                BY <3>2, <2>7, <2>10 DEF Get
            <4> HIDE DEF k
            <4>. QED BY <4>1, <4>2, <2>3
        <3>. QED BY <3>1, <3>2
    <2>15. n = MinCapacity + r.v.cap /\ m.v.cap <= r.v.cap /\ r.v.cap \in Nat
        BY <1>0, <2>1, <2>7, Capacity DEF c
    <2>16. RoomFor(r, n) /\ Places(m) \subseteq Places(r)
        BY <2>15, <1>0, Capacity DEF RoomFor, Places
    <2>17. Length(r) = Length(m)
        BY <2>7 DEF Length
    <2>. QED BY <2>12, <2>13, <2>14, <2>16, <2>17
<1>. QED BY <1>1, <1>2

(* A new vector m with no more than the block b, in what was the heap h.   *)
Beside(h, m, b) ==
    Own(m.v) \subseteq {b} /\ \A c \in Blocks \ Own(m.v) : m.h[c] = h[c]

(* A new vector holds its list, in its own block if it needs one.          *)
LEMMA MadeHolds ==
    ASSUME NEW h \in Memory, NEW s \in Seq(Elem), NEW b \in Blocks, h[b] = <<>>,
           NEW m, m = Made(h, s, b)
    PROVE  Whole(m) /\ Holds(m, s) /\ Beside(h, m, b)
<1> DEFINE room == IF Len(s) <= MinCapacity THEN 0 ELSE Len(s) - MinCapacity
           a == [i \in InlineAt |-> IF i < Len(s) THEN s[i + 1] ELSE Junk]
           g == SubSeq(s, MinCapacity + 1, Len(s))
<1>0. Len(s) \in Nat /\ \A k \in 1..Len(s) : s[k] \in Elem
    BY LenProperties, ElementOfSeq
<1>1. /\ m.v = [arr |-> a, data |-> IF room = 0 THEN Null ELSE b, cap |-> room, len |-> Len(s)]
      /\ m.h = IF room = 0 THEN h ELSE [h EXCEPT ![b] = g]
      /\ m = [v |-> m.v, h |-> m.h]
    BY DEF Made
<1>2. a \in [InlineAt -> Elem] /\ \A i \in InlineAt : i < Len(s) => a[i] = s[i + 1]
    <2>1. ASSUME NEW i \in InlineAt, i < Len(s) PROVE s[i + 1] \in Elem
        BY <2>1, <1>0, Capacity DEF InlineAt
    <2>. QED BY <2>1 DEF Elem
<1>3. /\ g \in Seq(Elem)
      /\ Len(g) = (IF MinCapacity + 1 <= Len(s) THEN Len(s) - (MinCapacity + 1) + 1 ELSE 0)
      /\ \A i \in 1..(Len(s) - (MinCapacity + 1) + 1) : g[i] = s[(MinCapacity + 1) + i - 1]
    <2>1. \A k \in (MinCapacity + 1)..Len(s) : s[k] \in Elem
        BY <1>0, Capacity
    <2>2. MinCapacity + 1 \in Int /\ Len(s) \in Int
        BY <1>0, Capacity
    <2>. QED BY <2>1, <2>2, SubSeqProperties
<1>4. Len(g) = room /\ room \in Nat /\ Len(s) <= MinCapacity + room
    BY <1>0, <1>3, Capacity
<1>5. \A k \in 1..room : g[k] = s[k + MinCapacity]
    BY <1>0, <1>3, Capacity
<1>r. room > 0 => MinCapacity + room = Len(s)
    BY <1>0, Capacity
<1> HIDE DEF a, g, room
<1>6. /\ m.v \in Vector /\ m.v.arr = a /\ m.v.cap = room /\ m.v.len = Len(s)
      /\ room > 0 => m.v.data = b
    BY <1>0, <1>1, <1>2, <1>4 DEF Vector
<1>7. /\ m.h \in Memory /\ (room > 0 => m.h[b] = g)
      /\ \A c \in Blocks \ Own(m.v) : m.h[c] = h[c]
    BY <1>1, <1>3, <1>4, <1>6 DEF Memory, Own
<1>8. Whole(m)
    BY <1>1, <1>4, <1>6, <1>7 DEF Whole
<1>9. ASSUME NEW k \in 1..Len(s)
      PROVE  s[k] = Get(m, k - 1)
    <2>1. CASE k - 1 < MinCapacity
        <3>1. k - 1 \in InlineAt /\ k - 1 < Len(s)
            BY <2>1, <1>0, Capacity DEF InlineAt
        <3>2. a[k - 1] = s[(k - 1) + 1]
            BY <3>1, <1>2
        <3>3. Get(m, k - 1) = a[k - 1]
            BY <2>1, <1>6 DEF Get
        <3>. QED BY <3>2, <3>3, <1>0
    <2>2. CASE ~(k - 1 < MinCapacity)
        <3>1. (k - 1) - MinCapacity + 1 \in 1..room /\ room > 0
              /\ (k - 1) - MinCapacity + 1 + MinCapacity = k
            BY <2>2, <1>0, <1>4, <1>r, Capacity
        <3>2. Get(m, k - 1) = g[(k - 1) - MinCapacity + 1]
            BY <2>2, <3>1, <1>6, <1>7 DEF Get
        <3>3. g[(k - 1) - MinCapacity + 1] = s[(k - 1) - MinCapacity + 1 + MinCapacity]
            BY <3>1, <1>5
        <3>. QED BY <3>1, <3>2, <3>3
    <2>. QED BY <2>1, <2>2
<1>10. Holds(m, s)
    BY <1>4, <1>6, <1>9 DEF Holds
<1>11. Own(m.v) \subseteq {b}
    BY <1>6 DEF Own
<1>12. Beside(h, m, b)
    BY <1>7, <1>11 DEF Beside
<1>. QED BY <1>8, <1>10, <1>12

-------------------------------------------------------------------------------
(* One vector among the others *)

LEMMA Stays ==
    ASSUME NEW m, Whole(m), NEW n, Rewritten(m, n), NEW B \in SUBSET Blocks,
           \A b \in B : m.h[b] = <<>>
    PROVE  Local(m, n, B)
<1>1. Own(n.v) = Own(m.v)
    BY DEF Rewritten, Own
<1>2. \A b \in B : b \notin Own(m.v)
    BY OwnOf
<1>. QED BY <1>1, <1>2 DEF Local, Rewritten

LEMMA StaysAfter ==
    ASSUME NEW m, NEW r, NEW n, Whole(m), NEW B \in SUBSET Blocks,
           Local(m, r, B), Rewritten(r, n)
    PROVE  Local(m, n, B)
<1>1. Own(n.v) = Own(r.v) /\ Own(m.v) \subseteq Blocks
    BY OwnOf DEF Rewritten, Own
<1>2. \A c \in Blocks \ Own(r.v) : n.h[c] = r.h[c]
    BY DEF Rewritten
<1>. QED BY <1>1, <1>2 DEF Local

(* What a vector holds depends on no block but its own.                    *)
LEMMA HoldsStill ==
    ASSUME NEW m, Whole(m), NEW e, Holds(m, e), NEW h \in Memory,
           \A c \in Own(m.v) : h[c] = m.h[c]
    PROVE  Whole([v |-> m.v, h |-> h]) /\ Holds([v |-> m.v, h |-> h], e)
<1> DEFINE n == [v |-> m.v, h |-> h]
<1>1. n.v = m.v /\ n.h = h /\ n = [v |-> n.v, h |-> n.h]
    OBVIOUS
<1>2. m.v.cap \in Nat /\ m.v.len \in Nat /\ m.v \in Vector
    BY DEF Whole, Vector
<1> HIDE DEF n
<1>3. m.v.cap > 0 => h[m.v.data] = m.h[m.v.data]
    BY DEF Own
<1>4. Whole(n)
    BY <1>1, <1>2, <1>3 DEF Whole
<1>5. ASSUME NEW k \in 1..Len(e)
      PROVE  Get(n, k - 1) = Get(m, k - 1)
    <2>1. k - 1 < MinCapacity \/ m.v.cap > 0
        BY <1>2, Capacity DEF Holds
    <2>. QED BY <2>1, <1>1, <1>3 DEF Get
<1>6. Holds(n, e)
    BY <1>1, <1>5 DEF Holds
<1>. QED BY <1>4, <1>6 DEF n

(* Nothing but v, its block and free ones are touched: the others hold     *)
(* what they held, and every block has its owner.                          *)
LEMMA OneChanged ==
    ASSUME NEW vs, NEW h, NEW es, Sound(vs, h, es), NEW v \in Names,
           NEW n, Whole(n), NEW e \in Seq(Elem), Holds(n, e),
           NEW B \in SUBSET Blocks, \A b \in B : h[b] = <<>>,
           Local([v |-> vs[v], h |-> h], n, B)
    PROVE  Sound([vs EXCEPT ![v] = n.v], n.h, [es EXCEPT ![v] = e])
<1> DEFINE ws == [vs EXCEPT ![v] = n.v]
           ds == [es EXCEPT ![v] = e]
           m(w) == [v |-> vs[w], h |-> h]
<1>1. /\ vs \in [Names -> Vector] /\ h \in Memory /\ es \in [Names -> Seq(Elem)]
      /\ n.v \in Vector /\ n.h \in Memory
    BY DEF Sound, Whole
<1>2. /\ ws \in [Names -> Vector] /\ ds \in [Names -> Seq(Elem)]
      /\ ws[v] = n.v /\ ds[v] = e
      /\ \A w \in Names \ {v} : ws[w] = vs[w] /\ ds[w] = es[w]
    BY <1>1
<1> HIDE DEF ws, ds
<1>3. ASSUME NEW w \in Names
      PROVE  /\ Own(vs[w]) \subseteq Blocks
             /\ \A b \in Blocks : h[b] = <<>> => b \notin Own(vs[w])
    <2> DEFINE k == m(w)
    <2>1. Whole(k)
        BY DEF Sound
    <2>2. k.v = vs[w] /\ k.h = h
        OBVIOUS
    <2> HIDE DEF k
    <2>3. /\ Own(k.v) \subseteq Blocks
          /\ \A b \in Blocks : k.h[b] = <<>> => b \notin Own(k.v)
        BY <2>1, OwnOf
    <2>. QED BY <2>2, <2>3
<1>4. /\ Own(n.v) \subseteq Own(vs[v]) \cup B
      /\ \A c \in Blocks \ (Own(vs[v]) \cup B) : n.h[c] = h[c]
      /\ \A c \in (Own(vs[v]) \cup B) \ Own(n.v) : n.h[c] = <<>>
    BY DEF Local
<1>5. \A w \in Names : Own(vs[w]) \cap B = {}
    BY <1>3
<1>6. \A w, x \in Names : w # x => Own(vs[w]) \cap Own(vs[x]) = {}
    BY DEF Sound
<1>7. ASSUME NEW w \in Names
      PROVE  Whole([v |-> ws[w], h |-> n.h]) /\ Holds([v |-> ws[w], h |-> n.h], ds[w])
    <2>1. CASE w = v
        <3>1. n.v = ws[w]
            BY <2>1, <1>2
        <3>2. \A c \in Own(n.v) : n.h[c] = n.h[c]
            OBVIOUS
        <3>. QED BY <2>1, <3>1, <3>2, <1>1, <1>2, HoldsStill
    <2>2. CASE w # v
        <3> DEFINE k == m(w)
        <3>1. Whole(k) /\ Holds(k, es[w])
            BY DEF Sound
        <3>2. k.v = vs[w] /\ k.h = h
            OBVIOUS
        <3> HIDE DEF k
        <3>3. \A c \in Own(k.v) : n.h[c] = k.h[c]
            BY <2>2, <3>2, <1>3, <1>4, <1>5, <1>6
        <3>4. Whole([v |-> k.v, h |-> n.h]) /\ Holds([v |-> k.v, h |-> n.h], es[w])
            BY <3>1, <3>3, <1>1, HoldsStill
        <3>. QED BY <2>2, <3>2, <3>4, <1>2
    <2>. QED BY <2>1, <2>2
<1>8. ASSUME NEW w \in Names, NEW x \in Names, w # x
      PROVE  Own(ws[w]) \cap Own(ws[x]) = {}
    <2>1. CASE w = v
        BY <2>1, <1>2, <1>4, <1>5, <1>6, <1>8
    <2>2. CASE x = v
        BY <2>2, <1>2, <1>4, <1>5, <1>6, <1>8
    <2>3. CASE w # v /\ x # v
        BY <2>3, <1>2, <1>6, <1>8
    <2>. QED BY <2>1, <2>2, <2>3
<1>9. ASSUME NEW b \in Blocks, n.h[b] # <<>>
      PROVE  \E w \in Names : b \in Own(ws[w])
    <2>1. CASE b \in Own(n.v)
        BY <2>1, <1>2
    <2>2. CASE b \notin Own(n.v)
        <3>1. b \notin Own(vs[v]) \cup B
            BY <2>2, <1>4, <1>9
        <3>2. PICK w \in Names : b \in Own(vs[w])
            BY <3>1, <1>4, <1>9 DEF Sound
        <3>. QED BY <3>1, <3>2, <1>2
    <2>. QED BY <2>1, <2>2
<1>10. Sound(ws, n.h, ds)
    BY <1>1, <1>2, <1>7, <1>8, <1>9 DEF Sound
<1>. QED BY <1>10 DEF ws, ds

-------------------------------------------------------------------------------
(* Operations *)

(* A vector before the step, as its parts.                                 *)
LEMMA Before ==
    ASSUME Inv, NEW v \in Names
    PROVE  /\ Whole(At(v)) /\ Holds(At(v), expected[v])
           /\ At(v).v = vec[v] /\ At(v).h = heap
           /\ vec[v] \in Vector /\ heap \in Memory
           /\ vec[v].len \in Nat /\ Length(At(v)) = vec[v].len
           /\ expected[v] \in Seq(Elem) /\ Len(expected[v]) = vec[v].len
<1>1. Whole(At(v)) /\ Holds(At(v), expected[v]) /\ At(v).v = vec[v] /\ At(v).h = heap
    BY DEF Inv, Sound, At
<1>2. vec[v] \in Vector /\ heap \in Memory /\ expected[v] \in Seq(Elem)
    BY DEF Inv, Sound
<1>3. vec[v].len \in Nat
    BY <1>2 DEF Vector
<1>. QED BY <1>1, <1>2, <1>3 DEF Holds, Length

(* And after it, if nothing else was touched.                              *)
LEMMA Became ==
    ASSUME Inv, NEW v \in Names,
           NEW n, Whole(n), NEW e \in Seq(Elem), Holds(n, e),
           NEW B \in SUBSET Blocks, \A b \in B : heap[b] = <<>>, Local(At(v), n, B),
           vec' = [vec EXCEPT ![v] = n.v], heap' = n.h,
           expected' = [expected EXCEPT ![v] = e]
    PROVE  Inv'
<1>1. Sound([vec EXCEPT ![v] = n.v], n.h, [expected EXCEPT ![v] = e])
    BY OneChanged DEF Inv, At
<1>. QED BY <1>1 DEF Inv

LEMMA UnusedBlock ==
    ASSUME NEW v, NEW b \in Unused(heap)
    PROVE  b \in Blocks /\ heap[b] = <<>> /\ Spare(At(v), b)
BY DEF Unused, Spare, At

(* Contents() reads the elements one by one.                               *)
LEMMA ContentsRead ==
    ASSUME NEW m, Whole(m), m.v.len <= MinCapacity + m.v.cap
    PROVE  /\ Contents(m) \in Seq(Elem) /\ Len(Contents(m)) = m.v.len
           /\ \A k \in 1..m.v.len : Contents(m)[k] = Get(m, k - 1)
           /\ Holds(m, Contents(m))
<1> DEFINE c == Contents(m)
<1>1. m.v.len \in Nat /\ m.v.cap \in Nat
    BY DEF Whole, Vector
<1>2. ASSUME NEW k \in 1..m.v.len
      PROVE  c[k] = Get(m, k - 1) /\ c[k] \in Elem
    <2>1. k - 1 \in Places(m)
        BY <1>1, Capacity DEF Places
    <2>. QED BY <2>1, GetElem DEF Contents
<1>3. c = [k \in 1..m.v.len |-> c[k]]
    BY DEF Contents
<1> HIDE DEF c
<1>4. c \in [1..m.v.len -> Elem]
    BY <1>2, <1>3
<1>5. c \in Seq(Elem) /\ Len(c) = m.v.len
    BY <1>1, <1>4, RowIsSeq
<1>. QED BY <1>2, <1>5 DEF Holds, c

LEMMA ContentsHeld ==
    ASSUME NEW m, Whole(m), NEW e \in Seq(Elem), Holds(m, e)
    PROVE  Contents(m) = e
<1>1. /\ Contents(m) \in Seq(Elem) /\ Len(Contents(m)) = m.v.len
      /\ \A k \in 1..m.v.len : Contents(m)[k] = Get(m, k - 1)
    BY ContentsRead DEF Holds
<1>. QED BY <1>1, SeqEqual DEF Holds

(* The same with nothing between them.                                     *)
Join(f, d, i, e, j) ==
    /\ Len(f) = i + (Len(e) - j)
    /\ \A k \in 1..Len(f) : f[k] = IF k <= i THEN d[k] ELSE e[(k - i) + j]

LEMMA Joined ==
    ASSUME NEW S, NEW d \in Seq(S), NEW e \in Seq(S),
           NEW i \in 0..Len(d), NEW j \in 0..Len(e),
           NEW f, f = SubSeq(d, 1, i) \o From(e, j)
    PROVE  f \in Seq(S) /\ Join(f, d, i, e, j)
<1> DEFINE a == SubSeq(d, 1, i)
           c == From(e, j)
<1>0. Len(d) \in Nat /\ Len(e) \in Nat
    BY LenProperties
<1>1. a \in Seq(S) /\ Len(a) = i /\ \A k \in 1..i : a[k] = d[k]
    BY FirstPart
<1>2. c \in Seq(S) /\ Len(c) = Len(e) - j /\ \A k \in 1..(Len(e) - j) : c[k] = e[k + j]
    BY RestPart
<1>f. f = a \o c
    OBVIOUS
<1> HIDE DEF a, c
<1>3. /\ f \in Seq(S) /\ Len(f) = Len(a) + Len(c)
      /\ \A k \in 1..(Len(a) + Len(c)) :
            f[k] = IF k <= Len(a) THEN a[k] ELSE c[k - Len(a)]
    <2>1. /\ a \o c \in Seq(S) /\ Len(a \o c) = Len(a) + Len(c)
          /\ \A k \in 1..(Len(a) + Len(c)) :
                (a \o c)[k] = IF k <= Len(a) THEN a[k] ELSE c[k - Len(a)]
        BY <1>1, <1>2, ConcatProperties
    <2>. QED BY <1>f, <2>1, Zenon
<1>4. f \in Seq(S) /\ Len(f) = i + (Len(e) - j)
    BY <1>1, <1>2, <1>3
<1>5. ASSUME NEW k \in 1..Len(f)
      PROVE  f[k] = IF k <= i THEN d[k] ELSE e[(k - i) + j]
    <2>1. f[k] = IF k <= i THEN a[k] ELSE c[k - i]
        BY <1>1, <1>2, <1>3
    <2>2. CASE k <= i
        BY <2>1, <2>2, <1>0, <1>1
    <2>3. CASE ~(k <= i)
        <3>1. k - i \in 1..(Len(e) - j)
            BY <2>3, <1>0, <1>4
        <3>. QED BY <2>1, <2>3, <3>1, <1>2
    <2>. QED BY <2>2, <2>3
<1>. QED BY <1>4, <1>5 DEF Join

(* Only the length of a vector is changed.                                 *)
Sized(m, l) == [m EXCEPT !.v.len = l]
OfLength(m, l, n) ==
    /\ Whole(n)
    /\ n.v.len = l /\ n.v.cap = m.v.cap /\ n.v.data = m.v.data /\ n.h = m.h
    /\ \A i \in Nat : Get(n, i) = Get(m, i)

LEMMA Resized ==
    ASSUME NEW m, Whole(m), NEW l \in Nat, NEW n, n = Sized(m, l)
    PROVE  OfLength(m, l, n)
<1> DEFINE r == [m.v EXCEPT !.len = l]
<1>1. n = [m EXCEPT !.v = r] /\ m \in [v : Vector, h : Memory]
    BY DEF Whole, Sized
<1>2. /\ r \in Vector /\ r.len = l /\ r.cap = m.v.cap /\ r.data = m.v.data
      /\ r.arr = m.v.arr
    BY <1>1 DEF Vector
<1> HIDE DEF r
<1>3. n \in [v : Vector, h : Memory] /\ n.v = r /\ n.h = m.h
    BY <1>1, <1>2
<1>4. Whole(n)
    BY <1>2, <1>3 DEF Whole
<1>. QED BY <1>2, <1>3, <1>4 DEF OfLength, Get

LEMMA SameBlock ==
    ASSUME NEW m, NEW n, n.v.cap = m.v.cap, n.v.data = m.v.data, n.h = m.h,
           NEW o, NEW B, Local(o, m, B)
    PROVE  Local(o, n, B)
<1>1. Own(n.v) = Own(m.v)
    BY DEF Own
<1>. QED BY <1>1 DEF Local

(* make_space() first gives the vector its new length, then the room.       *)
LEMMA Grown ==
    ASSUME NEW m, Whole(m), NEW l \in Nat, NEW b, Spare(m, b),
           NEW g, g = reserve(Sized(m, l), l, b)
    PROVE  /\ Whole(g) /\ Local(m, g, {b}) /\ Length(g) = l
           /\ Places(m) \subseteq Places(g) /\ RoomFor(g, l)
           /\ \A j \in Places(m) : Get(g, j) = Get(m, j)
<1> DEFINE longer == Sized(m, l)
<1>0. longer = Sized(m, l) /\ g = reserve(longer, l, b)
    OBVIOUS
<1> HIDE DEF longer
<1>1. /\ Whole(longer) /\ longer.v.len = l /\ longer.v.cap = m.v.cap
      /\ longer.v.data = m.v.data /\ longer.h = m.h
      /\ \A j \in Nat : Get(longer, j) = Get(m, j)
    <2>1. OfLength(m, l, longer)
        BY <1>0, Resized
    <2>. QED BY <2>1 DEF OfLength
<1>s. Spare(longer, b)
    BY <1>1 DEF Spare
<1>2. /\ Whole(g) /\ Local(longer, g, {b}) /\ Length(g) = Length(longer)
      /\ Places(longer) \subseteq Places(g) /\ RoomFor(g, l)
      /\ \A j \in Places(longer) : Get(g, j) = Get(longer, j)
    BY <1>0, <1>1, <1>s, Reserved
<1>3. Local(m, g, {b})
    <2>1. Own(longer.v) = Own(m.v)
        BY <1>1 DEF Own
    <2>. QED BY <2>1, <1>1, <1>2 DEF Local
<1>4. Places(longer) = Places(m) /\ \A j \in Places(m) : j \in Nat
    <2>1. m.v.cap \in Nat
        BY DEF Whole, Vector
    <2>. QED BY <2>1, <1>1, Capacity DEF Places
<1>5. Length(g) = l
    BY <1>1, <1>2 DEF Length
<1>. QED BY <1>1, <1>2, <1>3, <1>4, <1>5

(* What make_space() promises: room, the elements before i, and, unless it *)
(* is in the heap part and before the end, those from i on, moved.         *)
Spaced(m, l, i, k, b, n) ==
    /\ Whole(n) /\ Local(m, n, {b}) /\ Length(n) = l + k /\ RoomFor(n, l + k)
    /\ \A j \in 0..(i - 1) : Get(n, j) = Get(m, j)
    /\ i < MinCapacity \/ i = l =>
        \A j \in (i + k)..(l + k - 1) : Get(n, j) = Get(m, j - k)

LEMMA SpaceMade ==
    ASSUME NEW m, Whole(m), NEW l \in Nat, Length(m) = l, RoomFor(m, l),
           NEW i \in Nat, i <= l, NEW k \in Nat,
           i < MinCapacity \/ i = l \/ i + k <= l,
           NEW b, Spare(m, b),
           NEW n, n = make_space(m, i, k, b)
    PROVE  Spaced(m, l, i, k, b, n)
<1> DEFINE more == l + k
           grown == reserve(Sized(m, more), more, b)
<1>1. more \in Nat /\ more = l + k
    OBVIOUS
<1>2. n = CASE i < MinCapacity -> Shift(grown, i, i + k, l - i)
            [] i >= MinCapacity /\ i = l -> grown
            [] i >= MinCapacity /\ i < l -> Shift(grown, i, i + k, k)
    BY DEF make_space, Sized, Length
<1>g. grown = reserve(Sized(m, more), more, b)
    OBVIOUS
<1> HIDE DEF grown, more
<1>3. /\ Whole(grown) /\ Local(m, grown, {b}) /\ Length(grown) = more
      /\ RoomFor(grown, more)
      /\ \A j \in Places(m) : Get(grown, j) = Get(m, j)
    BY <1>1, <1>g, Grown
<1>4. \A j \in 0..(more - 1) : j \in Places(grown)
    BY <1>1, <1>3, InRoom
<1>5. \A j \in 0..(l - 1) : Get(grown, j) = Get(m, j)
    BY <1>3, InRoom
<1>6. \A d \in Nat : i + d <= more => RoomFor(grown, i + d)
    <2>1. grown.v.cap \in Nat
        BY <1>3 DEF Whole, Vector
    <2>. QED BY <2>1, <1>1, <1>3, Capacity DEF RoomFor
<1>7. CASE i >= MinCapacity /\ i = l
    <2>1. n = grown
        BY <1>2, <1>7, Capacity
    <2>2. \A j \in (i + k)..(l + k - 1) : FALSE
        BY <1>7
    <2>3. \A j \in 0..(i - 1) : Get(n, j) = Get(m, j)
        BY <2>1, <1>5, <1>7
    <2>. QED BY <2>1, <2>2, <2>3, <1>1, <1>3 DEF Spaced
<1>8. ASSUME NEW d \in Nat, i + d <= more, n = Shift(grown, i, i + k, d)
      PROVE  /\ Whole(n) /\ Local(m, n, {b}) /\ Length(n) = more /\ RoomFor(n, more)
             /\ \A j \in 0..(i - 1) : Get(n, j) = Get(m, j)
             /\ \A j \in (i + k)..((i + k) + d - 1) :
                    j \in 0..(more - 1) => Get(n, j) = Get(grown, j - k)
    <2>1. i + k \in Nat /\ RoomFor(grown, i + d)
        BY <1>6, <1>8
    <2>2. /\ Whole(n) /\ Rewritten(grown, n)
          /\ \A j \in Places(grown) :
                Get(n, j) = IF i + k <= j /\ j < (i + k) + d
                            THEN Get(grown, (j - (i + k)) + i) ELSE Get(grown, j)
        <3>1. Moved(grown, n, i, i + k, d)
            BY <1>3, <1>8, <2>1, Shifted
        <3>. QED BY <3>1 DEF Moved
    <2>b. {b} \in SUBSET Blocks
        BY DEF Spare
    <2>3. Local(m, n, {b})
        BY <1>3, <2>2, <2>b, StaysAfter
    <2>4. Length(n) = more /\ RoomFor(n, more)
        BY <1>3, <2>2 DEF Rewritten, Length, RoomFor
    <2>5. ASSUME NEW j \in 0..(i - 1)
          PROVE  Get(n, j) = Get(m, j)
        <3>1. j \in 0..(l - 1) /\ j \in 0..(more - 1) /\ ~(i + k <= j)
            BY <1>1
        <3>. QED BY <3>1, <2>2, <1>4, <1>5
    <2>6. ASSUME NEW j \in (i + k)..((i + k) + d - 1), j \in 0..(more - 1)
          PROVE  Get(n, j) = Get(grown, j - k)
        <3>1. (j - (i + k)) + i = j - k /\ i + k <= j /\ j < (i + k) + d
            OBVIOUS
        <3>2. Get(n, j) = Get(grown, (j - (i + k)) + i)
            BY <3>1, <2>2, <2>6, <1>4
        <3>. QED BY <3>1, <3>2
    <2>. QED BY <2>2, <2>3, <2>4, <2>5, <2>6
<1>9. CASE i < MinCapacity
    <2>1. n = Shift(grown, i, i + k, l - i) /\ l - i \in Nat /\ i + (l - i) <= more
        BY <1>1, <1>2, <1>9, Capacity
    <2>2. /\ Whole(n) /\ Local(m, n, {b}) /\ Length(n) = more /\ RoomFor(n, more)
          /\ \A j \in 0..(i - 1) : Get(n, j) = Get(m, j)
          /\ \A j \in (i + k)..((i + k) + (l - i) - 1) :
                j \in 0..(more - 1) => Get(n, j) = Get(grown, j - k)
        BY <2>1, <1>8
    <2>3. ASSUME NEW j \in (i + k)..(l + k - 1)
          PROVE  Get(n, j) = Get(m, j - k)
        <3>1. /\ j \in (i + k)..((i + k) + (l - i) - 1) /\ j \in 0..(more - 1)
              /\ j - k \in 0..(l - 1)
            BY <1>1
        <3>. QED BY <3>1, <2>2, <1>5
    <2>. QED BY <2>2, <2>3, <1>1 DEF Spaced
<1>10. CASE i >= MinCapacity /\ i < l
    <2>1. n = Shift(grown, i, i + k, k) /\ i + k <= more
        BY <1>1, <1>2, <1>10, Capacity
    <2>2. /\ Whole(n) /\ Local(m, n, {b}) /\ Length(n) = more /\ RoomFor(n, more)
          /\ \A j \in 0..(i - 1) : Get(n, j) = Get(m, j)
        BY <2>1, <1>8
    <2>3. ~(i < MinCapacity \/ i = l)
        BY <1>10, Capacity
    <2>. QED BY <2>2, <2>3, <1>1 DEF Spaced
<1>. QED BY <1>7, <1>9, <1>10, Capacity

LEMMA Freed ==
    ASSUME NEW o, Own(o.v) \subseteq Blocks, o.h \in Memory, NEW f, f = Free(o)
    PROVE  /\ f \in Memory
           /\ \A c \in Own(o.v) : f[c] = <<>>
           /\ \A c \in Blocks \ Own(o.v) : f[c] = o.h[c]
<1>1. CASE o.v.cap > 0
    <2>1. o.v.data \in Blocks /\ Own(o.v) = {o.v.data} /\ f = [o.h EXCEPT ![o.v.data] = <<>>]
        BY <1>1 DEF Own, Free
    <2>2. <<>> \in Seq(Elem)
        BY EmptySeq
    <2>. QED BY <2>1, <2>2 DEF Memory
<1>2. CASE ~(o.v.cap > 0)
    BY <1>2 DEF Own, Free
<1>. QED BY <1>1, <1>2

(* An assignment: the new vector is made before the old block is freed.    *)
LEMMA Replaced ==
    ASSUME NEW o, Whole(o), NEW s \in Seq(Elem), NEW b, Spare(o, b),
           NEW n, n = [v |-> Made(o.h, s, b).v,
                       h |-> Free([v |-> o.v, h |-> Made(o.h, s, b).h])]
    PROVE  Whole(n) /\ Holds(n, s) /\ Local(o, n, {b})
<1> DEFINE h == o.h
           m == Made(h, s, b)
           p == [v |-> o.v, h |-> m.h]
           f == Free(p)
<1>1. h \in Memory /\ Own(o.v) \subseteq Blocks /\ b \notin Own(o.v)
      /\ b \in Blocks /\ h[b] = <<>> /\ h = o.h
    BY OwnOf DEF Whole, Spare
<1>n. n = [v |-> m.v, h |-> f] /\ n.v = m.v /\ n.h = f
    OBVIOUS
<1>p. p.v = o.v /\ p.h = m.h /\ f = Free(p) /\ m = Made(h, s, b)
    OBVIOUS
<1> HIDE DEF h, m, p, f
<1>2. Whole(m) /\ Holds(m, s) /\ Beside(h, m, b)
    BY <1>1, <1>p, MadeHolds
<1>3. m.h \in Memory
    BY <1>2 DEF Whole
<1>4. /\ f \in Memory
      /\ \A c \in Own(o.v) : f[c] = <<>>
      /\ \A c \in Blocks \ Own(o.v) : f[c] = m.h[c]
    BY <1>1, <1>3, <1>p, Freed
<1>5. \A c \in Own(m.v) : f[c] = m.h[c]
    BY <1>1, <1>2, <1>4 DEF Beside
<1>6. Whole([v |-> m.v, h |-> f]) /\ Holds([v |-> m.v, h |-> f], s)
    BY <1>2, <1>4, <1>5, HoldsStill
<1>7. Own(n.v) = Own(m.v)
    BY <1>n
<1>8. Local(o, n, {b})
    BY <1>1, <1>2, <1>4, <1>n, <1>7 DEF Local, Beside
<1>. QED BY <1>6, <1>8, <1>n

(* An insertion puts s at i, after what was there.                         *)
Put(m, l, i, s, k, b, n) ==
    /\ Whole(n) /\ Local(m, n, {b}) /\ Length(n) = l + k /\ RoomFor(n, l + k)
    /\ \A j \in 0..(i - 1) : Get(n, j) = Get(m, j)
    /\ \A j \in i..(i + k - 1) : Get(n, j) = s[(j - i) + 1]
    /\ i < MinCapacity \/ i = l =>
        \A j \in (i + k)..(l + k - 1) : Get(n, j) = Get(m, j - k)

LEMMA PutAt ==
    ASSUME NEW m, Whole(m), NEW l \in Nat, Length(m) = l, RoomFor(m, l),
           NEW s \in Seq(Elem), NEW k \in Nat, k = Len(s), NEW i \in Nat, i <= l,
           i < MinCapacity \/ i = l \/ i + k <= l,
           NEW b, Spare(m, b),
           NEW n, n = Fill(make_space(m, i, k, b), i, s)
    PROVE  Put(m, l, i, s, k, b, n)
<1> DEFINE g == make_space(m, i, k, b)
<1>0. l + k \in Nat
    OBVIOUS
<1>g. g = make_space(m, i, k, b) /\ n = Fill(g, i, s)
    OBVIOUS
<1> HIDE DEF g
<1>1. /\ Whole(g) /\ Local(m, g, {b}) /\ Length(g) = l + k
      /\ RoomFor(g, l + k)
      /\ \A j \in 0..(i - 1) : Get(g, j) = Get(m, j)
      /\ i < MinCapacity \/ i = l =>
            \A j \in (i + k)..(l + k - 1) : Get(g, j) = Get(m, j - k)
    <2>1. Spaced(m, l, i, k, b, g)
        BY <1>g, SpaceMade
    <2>. QED BY <2>1 DEF Spaced
<1>2. /\ Whole(n) /\ Rewritten(g, n)
      /\ \A j \in Places(g) :
            Get(n, j) = IF i <= j /\ j < i + k THEN s[(j - i) + 1] ELSE Get(g, j)
    BY <1>0, <1>1, <1>g, Filled
<1>3. Length(n) = l + k /\ RoomFor(n, l + k)
    BY <1>1, <1>2 DEF Rewritten, Length, RoomFor
<1>b. {b} \in SUBSET Blocks
    BY DEF Spare
<1>4. Local(m, n, {b})
    BY <1>1, <1>2, <1>b, StaysAfter
<1>5. \A j \in 0..(l + k - 1) : j \in Places(g)
    BY <1>0, <1>1, InRoom
<1>6. ASSUME NEW j \in 0..(i - 1)
      PROVE  Get(n, j) = Get(m, j)
    <2>1. j \in 0..(l + k - 1) /\ ~(i <= j)
        BY <1>0
    <2>. QED BY <2>1, <1>1, <1>2, <1>5
<1>7. ASSUME NEW j \in i..(i + k - 1)
      PROVE  Get(n, j) = s[(j - i) + 1]
    <2>1. j \in 0..(l + k - 1) /\ i <= j /\ j < i + k
        BY <1>0
    <2>. QED BY <2>1, <1>2, <1>5
<1>8. ASSUME i < MinCapacity \/ i = l, NEW j \in (i + k)..(l + k - 1)
      PROVE  Get(n, j) = Get(m, j - k)
    <2>1. j \in 0..(l + k - 1) /\ ~(j < i + k)
        BY <1>0
    <2>. QED BY <2>1, <1>1, <1>2, <1>5, <1>8
<1>. QED BY <1>2, <1>3, <1>4, <1>6, <1>7, <1>8 DEF Put

-------------------------------------------------------------------------------
(* Actions *)

LEMMA ReplaceSound ==
    ASSUME Inv, NEW v \in Names, NEW s \in Seq(Elem), NEW b \in Unused(heap),
           Replace(v, Made(heap, s, b)), expected' = [expected EXCEPT ![v] = s]
    PROVE  Inv'
<1> DEFINE o == At(v)
           n == [v |-> Made(o.h, s, b).v,
                 h |-> Free([v |-> o.v, h |-> Made(o.h, s, b).h])]
           B == {b}
<1>1. Whole(o) /\ o.v = vec[v] /\ o.h = heap /\ Spare(o, b)
    BY Before, UnusedBlock
<1>2. B \in SUBSET Blocks /\ \A c \in B : heap[c] = <<>>
    BY UnusedBlock
<1>3. vec' = [vec EXCEPT ![v] = n.v] /\ heap' = n.h
    BY <1>1 DEF Replace
<1>4. Whole(n) /\ Holds(n, s) /\ Local(o, n, B)
    <2> HIDE DEF o
    <2>. QED BY <1>1, Replaced
<1> HIDE DEF n, B
<1>. QED BY <1>2, <1>3, <1>4, Became

LEMMA AssignSound ==
    ASSUME Inv, NEW v \in Names, NEW s \in Seq(Elem), Assign(v, s)
    PROVE  Inv'
<1>1. PICK b \in Unused(heap) : Replace(v, Made(heap, s, b))
    BY DEF Assign
<1>2. expected' = [expected EXCEPT ![v] = s]
    BY DEF Assign, Expect
<1>. QED BY <1>1, <1>2, ReplaceSound

LEMMA CopySound ==
    ASSUME Inv, NEW v \in Names, NEW w \in Names, Copy(v, w)
    PROVE  Inv'
<1> DEFINE s == Contents(At(w))
<1>1. PICK b \in Unused(heap) : Replace(v, Made(heap, s, b))
    BY DEF Copy
<1>2. s = expected[w] /\ s \in Seq(Elem)
    BY Before, ContentsHeld
<1>3. expected' = [expected EXCEPT ![v] = s]
    BY <1>2 DEF Copy, Expect
<1> HIDE DEF s
<1>. QED BY <1>1, <1>2, <1>3, ReplaceSound

(* With s put in at i, and nothing taken out.                              *)
PutInto(f, e, l, i, s, k) ==
    /\ Len(f) = l + k
    /\ \A j \in 1..(l + k) :
          f[j] = IF j <= i THEN e[j] ELSE IF j <= i + k THEN s[j - i]
                 ELSE e[(j - (i + k)) + i]

LEMMA PutIn ==
    ASSUME NEW S, NEW e \in Seq(S), NEW s \in Seq(S), NEW l \in Nat, Len(e) = l,
           NEW i \in Nat, i <= l, NEW k \in Nat, Len(s) = k,
           NEW f, f = SubSeq(e, 1, i) \o s \o From(e, i)
    PROVE  f \in Seq(S) /\ PutInto(f, e, l, i, s, k)
<1>1. i \in 0..Len(e)
    OBVIOUS
<1>2. f \in Seq(S) /\ Splice(f, e, i, s, e, i)
    BY <1>1, Spliced
<1>3. Len(f) = (i + k) + (l - i)
    BY <1>2 DEF Splice
<1>4. (i + k) + (l - i) = l + k
    OBVIOUS
<1>. QED BY <1>2, <1>3, <1>4 DEF Splice, PutInto

(* At one of the first positions, or at the end, what follows is kept.     *)
LEMMA PutHolds ==
    ASSUME NEW m, Whole(m), NEW e \in Seq(Elem), Holds(m, e),
           NEW l \in Nat, Len(e) = l, Length(m) = l, RoomFor(m, l),
           NEW s \in Seq(Elem), NEW i \in Nat, i <= l, i < MinCapacity \/ i = l,
           NEW b, Spare(m, b),
           NEW n, n = Fill(make_space(m, i, Len(s), b), i, s),
           NEW f, f = SubSeq(e, 1, i) \o s \o From(e, i)
    PROVE  Whole(n) /\ Local(m, n, {b}) /\ f \in Seq(Elem) /\ Holds(n, f)
<1> DEFINE k == Len(s)
<1>0. k \in Nat /\ k = Len(s) /\ l + k \in Nat
    BY LenProperties
<1> HIDE DEF k
<1>1. /\ Whole(n) /\ Local(m, n, {b}) /\ Length(n) = l + k /\ RoomFor(n, l + k)
      /\ \A j \in 0..(i - 1) : Get(n, j) = Get(m, j)
      /\ \A j \in i..(i + k - 1) : Get(n, j) = s[(j - i) + 1]
      /\ \A j \in (i + k)..(l + k - 1) : Get(n, j) = Get(m, j - k)
    <2>1. n = Fill(make_space(m, i, k, b), i, s)
        BY <1>0
    <2>2. i < MinCapacity \/ i = l \/ i + k <= l
        OBVIOUS
    <2>3. Put(m, l, i, s, k, b, n)
        BY <1>0, <2>1, <2>2, PutAt
    <2>. QED BY <2>3 DEF Put
<1>2. /\ f \in Seq(Elem) /\ Len(f) = l + k
      /\ \A j \in 1..(l + k) :
            f[j] = IF j <= i THEN e[j] ELSE IF j <= i + k THEN s[j - i]
                   ELSE e[(j - (i + k)) + i]
    <2>1. f \in Seq(Elem) /\ PutInto(f, e, l, i, s, k)
        BY <1>0, PutIn
    <2>. QED BY <2>1 DEF PutInto
<1>3. \A j \in 1..l : e[j] = Get(m, j - 1)
    BY DEF Holds
<1>4. ASSUME NEW j \in 1..(l + k)
      PROVE  f[j] = Get(n, j - 1)
    <2>1. CASE j <= i
        <3>1. j - 1 \in 0..(i - 1) /\ j \in 1..l
            BY <2>1, <1>0
        <3>. QED BY <3>1, <2>1, <1>1, <1>2, <1>3
    <2>2. CASE ~(j <= i) /\ j <= i + k
        <3>1. j - 1 \in i..(i + k - 1) /\ ((j - 1) - i) + 1 = j - i
            BY <2>2, <1>0
        <3>. QED BY <3>1, <2>2, <1>1, <1>2
    <2>3. CASE ~(j <= i + k)
        <3>1. /\ j - 1 \in (i + k)..(l + k - 1) /\ (j - (i + k)) + i = j - k
              /\ (j - 1) - k = (j - k) - 1 /\ j - k \in 1..l /\ ~(j <= i)
            BY <2>3, <1>0
        <3>2. Get(n, j - 1) = Get(m, (j - 1) - k)
            BY <3>1, <1>1
        <3>3. f[j] = e[j - k]
            BY <3>1, <2>3, <1>2
        <3>4. e[j - k] = Get(m, (j - k) - 1)
            BY <3>1, <1>3
        <3>. QED BY <3>1, <3>2, <3>3, <3>4
    <2>. QED BY <2>1, <2>2, <2>3, <1>0
<1>5. Holds(n, f)
    BY <1>1, <1>2, <1>4 DEF Holds, Length, RoomFor
<1>. QED BY <1>1, <1>2, <1>5

LEMMA InsertSound ==
    ASSUME Inv, NEW v \in Names, NEW i \in Nat, NEW s \in Seq(Elem), Insert(v, i, s)
    PROVE  Inv'
<1> DEFINE o == At(v)
           e == expected[v]
           l == vec[v].len
           f == SubSeq(e, 1, i) \o s \o From(e, i)
<1>1. /\ Whole(o) /\ Holds(o, e) /\ l \in Nat /\ Length(o) = l
      /\ e \in Seq(Elem) /\ Len(e) = l
    BY Before
<1>2. RoomFor(o, l)
    BY <1>1 DEF Holds, RoomFor, Length
<1>3. i <= l /\ (i < MinCapacity \/ i = l)
    BY <1>1 DEF Insert
<1>4. PICK b \in Unused(heap) : Becomes(v, Fill(make_space(At(v), i, Len(s), b), i, s))
    BY DEF Insert
<1> DEFINE n == Fill(make_space(o, i, Len(s), b), i, s)
           B == {b}
<1>5. Spare(o, b) /\ B \in SUBSET Blocks /\ \A c \in B : heap[c] = <<>>
    BY UnusedBlock
<1>6. vec' = [vec EXCEPT ![v] = n.v] /\ heap' = n.h
    BY <1>4 DEF Becomes
<1>7. expected' = [expected EXCEPT ![v] = f]
    BY DEF Insert, Expect, First
<1>8. Whole(n) /\ Local(o, n, B) /\ f \in Seq(Elem) /\ Holds(n, f)
    <2> HIDE DEF o, e, l
    <2>. QED BY <1>1, <1>2, <1>3, <1>5, PutHolds
<1>9. Local(At(v), n, B)
    BY <1>8
<1> HIDE DEF n, B, f
<1>. QED BY <1>5, <1>6, <1>7, <1>8, <1>9, Became

(* In the heap part the elements that follow are what the memory has.      *)
LEMMA PutInHeapHolds ==
    ASSUME NEW m, Whole(m), NEW e \in Seq(Elem), Holds(m, e),
           NEW l \in Nat, Len(e) = l, Length(m) = l, RoomFor(m, l),
           NEW s \in Seq(Elem), NEW i \in Nat, i + Len(s) <= l,
           NEW b, Spare(m, b),
           NEW n, n = Fill(make_space(m, i, Len(s), b), i, s),
           NEW f, f = SubSeq(e, 1, i) \o s \o From(Contents(n), i + Len(s))
    PROVE  Whole(n) /\ Local(m, n, {b}) /\ f \in Seq(Elem) /\ Holds(n, f)
<1> DEFINE k == Len(s)
           c == Contents(n)
<1>0. k \in Nat /\ k = Len(s) /\ l + k \in Nat /\ i <= l /\ i + k <= l
    BY LenProperties
<1>f. f = SubSeq(e, 1, i) \o s \o From(c, i + k)
    OBVIOUS
<1> HIDE DEF k
<1>1. /\ Whole(n) /\ Local(m, n, {b}) /\ Length(n) = l + k /\ RoomFor(n, l + k)
      /\ \A j \in 0..(i - 1) : Get(n, j) = Get(m, j)
      /\ \A j \in i..(i + k - 1) : Get(n, j) = s[(j - i) + 1]
    <2>1. n = Fill(make_space(m, i, k, b), i, s)
        BY <1>0
    <2>2. i < MinCapacity \/ i = l \/ i + k <= l
        BY <1>0
    <2>3. Put(m, l, i, s, k, b, n)
        BY <1>0, <2>1, <2>2, PutAt
    <2>. QED BY <2>3 DEF Put
<1>2. /\ c \in Seq(Elem) /\ Len(c) = l + k
      /\ \A j \in 1..(l + k) : c[j] = Get(n, j - 1)
    <2>1. n.v.len = l + k /\ n.v.len <= MinCapacity + n.v.cap
        BY <1>1 DEF Length, RoomFor
    <2>. QED BY <1>1, <2>1, ContentsRead
<1> HIDE DEF c
<1>3. f \in Seq(Elem) /\ Splice(f, e, i, s, c, i + k)
    <2>1. i \in 0..Len(e) /\ i + k \in 0..Len(c)
        BY <1>0, <1>2
    <2>. QED BY <1>2, <1>f, <2>1, Spliced
<1>4. Len(f) = l + k
    <2>1. Len(f) = (i + k) + ((l + k) - (i + k))
        BY <1>0, <1>2, <1>3 DEF Splice
    <2>2. (i + k) + ((l + k) - (i + k)) = l + k
        BY <1>0
    <2>. QED BY <2>1, <2>2
<1>5. \A j \in 1..(l + k) :
        f[j] = IF j <= i THEN e[j] ELSE IF j <= i + k THEN s[j - i]
               ELSE c[(j - (i + k)) + (i + k)]
    BY <1>0, <1>3, <1>4 DEF Splice
<1>6. \A j \in 1..l : e[j] = Get(m, j - 1)
    BY DEF Holds
<1>7. ASSUME NEW j \in 1..(l + k)
      PROVE  f[j] = Get(n, j - 1)
    <2>1. CASE j <= i
        <3>1. j - 1 \in 0..(i - 1) /\ j \in 1..l
            BY <2>1, <1>0
        <3>. QED BY <3>1, <2>1, <1>1, <1>5, <1>6
    <2>2. CASE ~(j <= i) /\ j <= i + k
        <3>1. j - 1 \in i..(i + k - 1) /\ ((j - 1) - i) + 1 = j - i
            BY <2>2, <1>0
        <3>. QED BY <3>1, <2>2, <1>1, <1>5
    <2>3. CASE ~(j <= i + k)
        <3>1. (j - (i + k)) + (i + k) = j /\ ~(j <= i)
            BY <2>3, <1>0
        <3>. QED BY <3>1, <2>3, <1>2, <1>5
    <2>. QED BY <2>1, <2>2, <2>3, <1>0
<1>8. Holds(n, f)
    BY <1>1, <1>4, <1>7 DEF Holds, Length, RoomFor
<1>. QED BY <1>1, <1>3, <1>8

LEMMA InsertInHeapSound ==
    ASSUME Inv, NEW v \in Names, NEW i \in Nat, NEW s \in Seq(Elem), InsertInHeap(v, i, s)
    PROVE  Inv'
<1> DEFINE o == At(v)
           e == expected[v]
           l == vec[v].len
<1>1. /\ Whole(o) /\ Holds(o, e) /\ l \in Nat /\ Length(o) = l
      /\ e \in Seq(Elem) /\ Len(e) = l
    BY Before
<1>2. RoomFor(o, l)
    BY <1>1 DEF Holds, RoomFor, Length
<1>3. i + Len(s) <= l
    BY DEF InsertInHeap
<1>4. PICK b \in Unused(heap) :
        LET n == Fill(make_space(At(v), i, Len(s), b), i, s)
        IN /\ Becomes(v, n)
           /\ Expect(v, First(v, i) \o s \o From(Contents(n), i + Len(s)))
    BY DEF InsertInHeap
<1> DEFINE n == Fill(make_space(o, i, Len(s), b), i, s)
           f == SubSeq(e, 1, i) \o s \o From(Contents(n), i + Len(s))
           B == {b}
<1>5. Spare(o, b) /\ B \in SUBSET Blocks /\ \A c \in B : heap[c] = <<>>
    BY UnusedBlock
<1>6. vec' = [vec EXCEPT ![v] = n.v] /\ heap' = n.h
    BY <1>4 DEF Becomes
<1>7. expected' = [expected EXCEPT ![v] = f]
    BY <1>4 DEF Expect, First
<1>8. Whole(n) /\ Local(o, n, B) /\ f \in Seq(Elem) /\ Holds(n, f)
    <2> HIDE DEF o, e, l
    <2>. QED BY <1>1, <1>2, <1>3, <1>5, PutInHeapHolds
<1>9. Local(At(v), n, B)
    BY <1>8
<1> HIDE DEF n, B, f
<1>. QED BY <1>5, <1>6, <1>7, <1>8, <1>9, Became

(* The elements from j on are moved to i, and the vector is that shorter.  *)
LEMMA CutHolds ==
    ASSUME NEW m, Whole(m), NEW e \in Seq(Elem), Holds(m, e),
           NEW l \in Nat, Len(e) = l, Length(m) = l, RoomFor(m, l),
           NEW j \in 0..l, NEW i \in 0..j,
           NEW r, r = Shift(m, j, i, l - j),
           NEW n, n = Sized(r, l - (j - i)),
           NEW f, f = SubSeq(e, 1, i) \o From(e, j)
    PROVE  Whole(n) /\ Local(m, n, {}) /\ f \in Seq(Elem) /\ Holds(n, f)
<1> DEFINE k == l - j
<1>0. /\ k \in Nat /\ i \in Nat /\ j \in Nat /\ j + k = l /\ i + k \in Nat
      /\ l - (j - i) = i + k /\ i + k <= l
    OBVIOUS
<1>r. r = Shift(m, j, i, k) /\ n = Sized(r, i + k)
    BY <1>0
<1> HIDE DEF k
<1>1. /\ Whole(r) /\ Rewritten(m, r)
      /\ \A d \in Places(m) :
            Get(r, d) = IF i <= d /\ d < i + k THEN Get(m, (d - i) + j) ELSE Get(m, d)
    <2>1. RoomFor(m, j + k)
        BY <1>0
    <2>2. Moved(m, r, j, i, k)
        BY <1>0, <1>r, <2>1, Shifted
    <2>. QED BY <2>2 DEF Moved
<1>2. /\ Whole(n)
      /\ n.v.len = i + k /\ n.v.cap = r.v.cap /\ n.v.data = r.v.data /\ n.h = r.h
      /\ \A d \in Nat : Get(n, d) = Get(r, d)
    <2>1. OfLength(r, i + k, n)
        BY <1>0, <1>1, <1>r, Resized
    <2>. QED BY <2>1 DEF OfLength
<1>3. Local(m, n, {})
    <2>1. Rewritten(m, r)
        BY <1>1
    <2>2. Local(m, r, {})
        BY <2>1, Stays
    <2>. QED BY <2>2, <1>2, SameBlock
<1>4. \A d \in 0..(l - 1) : d \in Places(m)
    BY InRoom
<1>5. f \in Seq(Elem) /\ Join(f, e, i, e, j)
    <2>1. i \in 0..Len(e) /\ j \in 0..Len(e)
        BY <1>0
    <2>. QED BY <2>1, Joined
<1>6. Len(f) = i + k
    <2>1. Len(f) = i + (l - j)
        BY <1>5 DEF Join
    <2>. QED BY <2>1 DEF k
<1>7. \A d \in 1..(i + k) : f[d] = IF d <= i THEN e[d] ELSE e[(d - i) + j]
    BY <1>5, <1>6 DEF Join
<1>8. \A d \in 1..l : e[d] = Get(m, d - 1)
    BY DEF Holds
<1>9. ASSUME NEW d \in 1..(i + k)
      PROVE  f[d] = Get(n, d - 1)
    <2>0. d - 1 \in Nat /\ d - 1 \in 0..(l - 1)
        BY <1>0
    <2>1. Get(n, d - 1) = Get(r, d - 1)
        BY <2>0, <1>2
    <2>2. CASE d <= i
        <3>1. d \in 1..l /\ ~(i <= d - 1)
            BY <2>2, <1>0
        <3>. QED BY <3>1, <2>0, <2>1, <2>2, <1>1, <1>4, <1>7, <1>8
    <2>3. CASE ~(d <= i)
        <3>1. /\ (d - i) + j \in 1..l /\ ((d - 1) - i) + j = ((d - i) + j) - 1
              /\ i <= d - 1 /\ d - 1 < i + k
            BY <2>3, <1>0
        <3>2. Get(r, d - 1) = Get(m, ((d - 1) - i) + j)
            BY <3>1, <2>0, <1>1, <1>4
        <3>3. e[(d - i) + j] = Get(m, ((d - i) + j) - 1)
            BY <3>1, <1>8
        <3>. QED BY <3>1, <3>2, <3>3, <2>1, <2>3, <1>7
    <2>. QED BY <2>2, <2>3
<1>10. i + k <= MinCapacity + n.v.cap
    <2>1. l <= MinCapacity + n.v.cap /\ n.v.cap \in Nat
        BY <1>1, <1>2 DEF RoomFor, Rewritten, Whole, Vector
    <2>. QED BY <2>1, <1>0, Capacity
<1>11. Holds(n, f)
    BY <1>2, <1>6, <1>9, <1>10 DEF Holds
<1>. QED BY <1>2, <1>3, <1>5, <1>11

LEMMA EraseSound ==
    ASSUME Inv, NEW v \in Names, NEW i \in Nat, NEW j \in Nat, Erase(v, i, j)
    PROVE  Inv'
<1> DEFINE o == At(v)
           e == expected[v]
           l == vec[v].len
           r == Shift(o, j, i, l - j)
           n == Sized(r, l - (j - i))
           f == SubSeq(e, 1, i) \o From(e, j)
           B == {}
<1>1. /\ Whole(o) /\ Holds(o, e) /\ l \in Nat /\ Length(o) = l
      /\ e \in Seq(Elem) /\ Len(e) = l
    BY Before
<1>2. RoomFor(o, l)
    BY <1>1 DEF Holds, RoomFor, Length
<1>3. j \in 0..l /\ i \in 0..j
    BY DEF Erase
<1>4. r.v.len = l
    <2> DEFINE k == l - j
    <2>1. k \in Nat /\ j + k = l
        BY <1>1, <1>3
    <2>2. r = Shift(o, j, i, k) /\ RoomFor(o, j + k)
        BY <1>2, <2>1
    <2> HIDE DEF k, r, o
    <2>3. Moved(o, r, j, i, k)
        BY <1>1, <2>1, <2>2, Shifted
    <2>. QED BY <1>1, <2>3 DEF Moved, Rewritten, Length
<1>5. vec' = [vec EXCEPT ![v] = n.v] /\ heap' = n.h
    <2>1. Becomes(v, [r EXCEPT !.v.len = @ - (j - i)])
        BY DEF Erase
    <2>2. [r EXCEPT !.v.len = @ - (j - i)] = n
        <3> HIDE DEF r
        <3>. QED BY <1>4 DEF Sized
    <2>. QED BY <2>1, <2>2 DEF Becomes
<1>6. expected' = [expected EXCEPT ![v] = f]
    BY DEF Erase, Expect, First
<1>7. Whole(n) /\ Local(o, n, {}) /\ f \in Seq(Elem) /\ Holds(n, f)
    <2> HIDE DEF o, e, l
    <2>. QED BY <1>1, <1>2, <1>3, CutHolds
<1>8. Local(At(v), n, B) /\ B \in SUBSET Blocks /\ \A c \in B : heap[c] = <<>>
    BY <1>7
<1> HIDE DEF n, B, f
<1>. QED BY <1>5, <1>6, <1>7, <1>8, Became

LEMMA ClearSound ==
    ASSUME Inv, NEW v \in Names, clear(v)
    PROVE  Inv'
<1> DEFINE o == At(v)
           n == Sized(o, 0)
           f == <<>>
           B == {}
<1>1. Whole(o) /\ 0 \in Nat /\ o.v.cap \in Nat
    BY Before DEF Whole, Vector
<1>2. vec' = [vec EXCEPT ![v] = n.v] /\ heap' = n.h
    BY DEF clear, Becomes, Sized
<1>3. expected' = [expected EXCEPT ![v] = f]
    BY DEF clear, Expect
<1>4. n = Sized(o, 0)
    OBVIOUS
<1>5. B \in SUBSET Blocks /\ \A c \in B : heap[c] = <<>>
    OBVIOUS
<1>6. f \in Seq(Elem) /\ Len(f) = 0
    BY EmptySeq
<1>o. o = At(v)
    OBVIOUS
<1> HIDE DEF o, n, f, B
<1>7. OfLength(o, 0, n)
    BY <1>1, <1>4, Resized
<1>8. Whole(n) /\ Holds(n, f)
    BY <1>1, <1>6, <1>7, Capacity DEF OfLength, Holds
<1>9. Local(At(v), n, B)
    BY <1>5, <1>7, <1>o DEF OfLength, Local, Own, At
<1>. QED BY <1>2, <1>3, <1>5, <1>6, <1>8, <1>9, Became

(* The new elements of a longer vector are what the memory has.            *)
LEMMA LongerHolds ==
    ASSUME NEW m, Whole(m), NEW e \in Seq(Elem), Holds(m, e),
           NEW l \in Nat, Len(e) = l, RoomFor(m, l),
           NEW k \in Nat, l < k, NEW b, Spare(m, b),
           NEW r, r = reserve(m, k, b), NEW n, n = Sized(r, k),
           NEW f, f = e \o From(Contents(n), l)
    PROVE  Whole(n) /\ Local(m, n, {b}) /\ f \in Seq(Elem) /\ Holds(n, f)
<1> DEFINE c == Contents(n)
           a == SubSeq(e, 1, l)
<1>1. /\ Whole(r) /\ Local(m, r, {b})
      /\ Places(m) \subseteq Places(r) /\ RoomFor(r, k)
      /\ \A i \in Places(m) : Get(r, i) = Get(m, i)
    BY Reserved
<1>2. /\ Whole(n)
      /\ n.v.len = k /\ n.v.cap = r.v.cap /\ n.v.data = r.v.data /\ n.h = r.h
      /\ \A i \in Nat : Get(n, i) = Get(r, i)
    <2>1. OfLength(r, k, n)
        BY <1>1, Resized
    <2>. QED BY <2>1 DEF OfLength
<1>3. Local(m, n, {b})
    BY <1>1, <1>2, SameBlock
<1>4. n.v.len <= MinCapacity + n.v.cap
    BY <1>1, <1>2 DEF RoomFor
<1>5. c \in Seq(Elem) /\ Len(c) = k /\ \A i \in 1..k : c[i] = Get(n, i - 1)
    BY <1>2, <1>4, ContentsRead
<1>6. a = e
    <2>1. l \in 0..Len(e)
        OBVIOUS
    <2>2. a \in Seq(Elem) /\ Len(a) = l /\ \A i \in 1..l : a[i] = e[i]
        BY <2>1, FirstPart
    <2> HIDE DEF a
    <2>. QED BY <2>2, SeqEqual
<1>f. f = a \o From(c, l)
    BY <1>6
<1> HIDE DEF c
<1>7. f \in Seq(Elem) /\ Join(f, e, l, c, l)
    <2>1. l \in 0..Len(e) /\ l \in 0..Len(c)
        BY <1>5
    <2>. QED BY <1>5, <1>f, <2>1, Joined
<1>8. Len(f) = k
    <2>1. Len(f) = l + (k - l)
        BY <1>5, <1>7 DEF Join
    <2>. QED BY <2>1
<1>9. \A i \in 1..k : f[i] = IF i <= l THEN e[i] ELSE c[(i - l) + l]
    BY <1>7, <1>8 DEF Join
<1>10. \A i \in 1..l : e[i] = Get(m, i - 1)
    BY DEF Holds
<1>11. \A i \in 0..(l - 1) : i \in Places(m)
    BY InRoom
<1>12. ASSUME NEW i \in 1..k
       PROVE  f[i] = Get(n, i - 1)
    <2>1. i - 1 \in Nat /\ (i - l) + l = i
        OBVIOUS
    <2>2. CASE i <= l
        <3>1. i \in 1..l /\ i - 1 \in 0..(l - 1)
            BY <2>2
        <3>2. Get(r, i - 1) = Get(m, i - 1)
            BY <3>1, <1>1, <1>11
        <3>. QED BY <3>1, <3>2, <2>1, <2>2, <1>2, <1>9, <1>10
    <2>3. CASE ~(i <= l)
        BY <2>1, <2>3, <1>5, <1>9
    <2>. QED BY <2>2, <2>3
<1>13. Holds(n, f)
    BY <1>2, <1>4, <1>8, <1>12 DEF Holds
<1>. QED BY <1>2, <1>3, <1>7, <1>13

LEMMA ResizeSound ==
    ASSUME Inv, NEW v \in Names, NEW k \in Nat, Resize(v, k)
    PROVE  Inv'
<1> DEFINE o == At(v)
           e == expected[v]
           l == vec[v].len
<1>1. /\ Whole(o) /\ Holds(o, e) /\ l \in Nat /\ Length(o) = l
      /\ e \in Seq(Elem) /\ Len(e) = l
    BY Before
<1>2. RoomFor(o, l)
    BY <1>1 DEF Holds, RoomFor, Length
<1>3. l < k
    BY DEF Resize
<1>4. PICK b \in Unused(heap) :
        LET n == [reserve(At(v), k, b) EXCEPT !.v.len = k]
        IN Becomes(v, n) /\ Expect(v, expected[v] \o From(Contents(n), vec[v].len))
    BY DEF Resize
<1> DEFINE r == reserve(o, k, b)
           n == Sized(r, k)
           f == e \o From(Contents(n), l)
           B == {b}
<1>5. Spare(o, b) /\ B \in SUBSET Blocks /\ \A c \in B : heap[c] = <<>>
    BY UnusedBlock
<1>6. vec' = [vec EXCEPT ![v] = n.v] /\ heap' = n.h
    BY <1>4 DEF Becomes, Sized
<1>7. expected' = [expected EXCEPT ![v] = f]
    BY <1>4 DEF Expect, Sized
<1>8. Whole(n) /\ Local(o, n, B) /\ f \in Seq(Elem) /\ Holds(n, f)
    <2> HIDE DEF o, e, l
    <2>. QED BY <1>1, <1>2, <1>3, <1>5, LongerHolds
<1>9. Local(At(v), n, B)
    BY <1>8
<1> HIDE DEF n, B, f
<1>. QED BY <1>5, <1>6, <1>7, <1>8, <1>9, Became

(* More room, for what a vector has already.                               *)
LEMMA RoomierHolds ==
    ASSUME NEW m, Whole(m), NEW e \in Seq(Elem), Holds(m, e),
           NEW l \in Nat, Len(e) = l, Length(m) = l, RoomFor(m, l),
           NEW k \in Nat, NEW b, Spare(m, b), NEW n, n = reserve(m, k, b)
    PROVE  Whole(n) /\ Local(m, n, {b}) /\ Holds(n, e)
<1>1. /\ Whole(n) /\ Local(m, n, {b}) /\ Length(n) = Length(m)
      /\ Places(m) \subseteq Places(n)
      /\ \A i \in Places(m) : Get(n, i) = Get(m, i)
    BY Reserved
<1>2. \A i \in 0..(l - 1) : i \in Places(m)
    BY InRoom
<1>3. ASSUME NEW i \in 1..l
      PROVE  e[i] = Get(n, i - 1)
    <2>1. i - 1 \in 0..(l - 1)
        OBVIOUS
    <2>. QED BY <2>1, <1>1, <1>2 DEF Holds
<1>4. l <= MinCapacity + n.v.cap
    <2>0. n.v.cap \in Nat
        BY <1>1 DEF Whole, Vector
    <2>1. CASE l = 0
        BY <2>0, <2>1, Capacity
    <2>2. CASE l # 0
        <3>1. l - 1 \in 0..(l - 1)
            BY <2>2
        <3>2. l - 1 \in Places(n)
            BY <3>1, <1>1, <1>2
        <3>. QED BY <3>2, <2>0, Capacity DEF Places
    <2>. QED BY <2>1, <2>2
<1>. QED BY <1>1, <1>3, <1>4 DEF Holds, Length

LEMMA ReserveSound ==
    ASSUME Inv, NEW v \in Names, NEW k \in Nat, Reserve(v, k)
    PROVE  Inv'
<1> DEFINE o == At(v)
           e == expected[v]
           l == vec[v].len
<1>1. /\ Whole(o) /\ Holds(o, e) /\ l \in Nat /\ Length(o) = l
      /\ e \in Seq(Elem) /\ Len(e) = l /\ expected \in [Names -> Seq(Elem)]
    BY Before DEF Inv, Sound
<1>2. RoomFor(o, l)
    BY <1>1 DEF Holds, RoomFor, Length
<1>4. PICK b \in Unused(heap) : Becomes(v, reserve(At(v), k, b))
    BY DEF Reserve
<1> DEFINE n == reserve(o, k, b)
           B == {b}
<1>5. Spare(o, b) /\ B \in SUBSET Blocks /\ \A c \in B : heap[c] = <<>>
    BY UnusedBlock
<1>6. vec' = [vec EXCEPT ![v] = n.v] /\ heap' = n.h
    BY <1>4 DEF Becomes
<1>7. expected' = [expected EXCEPT ![v] = e]
    BY <1>1 DEF Reserve
<1>8. Whole(n) /\ Local(o, n, B) /\ Holds(n, e)
    <2> HIDE DEF o, e, l
    <2>. QED BY <1>1, <1>2, <1>5, RoomierHolds
<1>9. Local(At(v), n, B) /\ e \in Seq(Elem)
    BY <1>1, <1>8
<1> HIDE DEF n, B, e
<1>. QED BY <1>5, <1>6, <1>7, <1>8, <1>9, Became

(* A moved-from vector owns no block.                                      *)
LEMMA EmptiedHolds ==
    ASSUME NEW r \in Vector, NEW h \in Memory,
           NEW f, f = [i \in 1..MinCapacity |-> r.arr[i - 1]]
    PROVE  /\ Emptied(r) \in Vector /\ Own(Emptied(r)) = {} /\ f \in Seq(Elem)
           /\ Whole([v |-> Emptied(r), h |-> h]) /\ Holds([v |-> Emptied(r), h |-> h], f)
<1> DEFINE p == Emptied(r)
           n == [v |-> p, h |-> h]
<1>1. /\ p \in Vector /\ p.cap = 0 /\ p.len = MinCapacity /\ p.arr = r.arr
    BY Capacity DEF Emptied, Vector
<1>2. /\ n.v = p /\ n.h = h /\ n = [v |-> n.v, h |-> n.h]
    OBVIOUS
<1>p. p = Emptied(r)
    OBVIOUS
<1> HIDE DEF p, n
<1>3. \A i \in 1..MinCapacity : i - 1 \in InlineAt /\ i - 1 < MinCapacity
    BY Capacity DEF InlineAt
<1>4. r.arr \in [InlineAt -> Elem]
    BY DEF Vector
<1>5. f \in [1..MinCapacity -> Elem]
    BY <1>3, <1>4
<1>6. f \in Seq(Elem) /\ Len(f) = MinCapacity
    BY <1>5, RowIsSeq, Capacity
<1>7. Whole(n) /\ Own(p) = {}
    BY <1>1, <1>2 DEF Whole, Own
<1>8. \A k \in 1..MinCapacity : f[k] = Get(n, k - 1)
    BY <1>1, <1>2, <1>3 DEF Get
<1>9. Holds(n, f)
    BY <1>1, <1>2, <1>6, <1>8, Capacity DEF Holds
<1>. QED BY <1>1, <1>6, <1>7, <1>9, <1>p DEF n

LEMMA MoveSound ==
    ASSUME Inv, NEW v \in Names, NEW w \in Names, Move(v, w)
    PROVE  Inv'
<1> DEFINE o == At(v)
           g == Free(o)
           p == Emptied(vec[w])
           f == [i \in 1..MinCapacity |-> vec[w].arr[i - 1]]
           ws == [vec EXCEPT ![v] = vec[w], ![w] = p]
           ds == [expected EXCEPT ![v] = expected[w], ![w] = f]
<1>0. /\ v # w /\ vec' = ws /\ heap' = g /\ expected' = ds
    BY DEF Move
<1>1. /\ vec \in [Names -> Vector] /\ heap \in Memory /\ expected \in [Names -> Seq(Elem)]
      /\ \A x, y \in Names : x # y => Own(vec[x]) \cap Own(vec[y]) = {}
      /\ \A b \in Blocks : heap[b] # <<>> => \E x \in Names : b \in Own(vec[x])
    BY DEF Inv, Sound
<1>2. \A x \in Names : /\ Whole(At(x)) /\ Holds(At(x), expected[x])
                       /\ At(x).v = vec[x] /\ At(x).h = heap /\ Own(vec[x]) \subseteq Blocks
    <2> TAKE x \in Names
    <2>1. Whole(At(x)) /\ Holds(At(x), expected[x]) /\ At(x).v = vec[x] /\ At(x).h = heap
        BY Before
    <2>2. Own(At(x).v) \subseteq Blocks
        BY <2>1, OwnOf
    <2>. QED BY <2>1, <2>2
<1>3. /\ g \in Memory
      /\ \A c \in Own(vec[v]) : g[c] = <<>>
      /\ \A c \in Blocks \ Own(vec[v]) : g[c] = heap[c]
    <2>1. Own(o.v) \subseteq Blocks /\ o.h \in Memory /\ o.v = vec[v] /\ o.h = heap
        BY <1>1, <1>2
    <2> HIDE DEF o
    <2>2. /\ g \in Memory
          /\ \A c \in Own(o.v) : g[c] = <<>>
          /\ \A c \in Blocks \ Own(o.v) : g[c] = o.h[c]
        BY <2>1, Freed
    <2>. QED BY <2>1, <2>2
<1> HIDE DEF g
<1>4. /\ p \in Vector /\ Own(p) = {} /\ f \in Seq(Elem)
      /\ Whole([v |-> p, h |-> g]) /\ Holds([v |-> p, h |-> g], f)
    BY <1>1, <1>3, EmptiedHolds
<1> HIDE DEF p, f
<1>5. /\ ws \in [Names -> Vector] /\ ds \in [Names -> Seq(Elem)]
      /\ ws[v] = vec[w] /\ ds[v] = expected[w] /\ ws[w] = p /\ ds[w] = f
      /\ \A x \in Names \ {v, w} : ws[x] = vec[x] /\ ds[x] = expected[x]
    BY <1>0, <1>1, <1>4
<1> HIDE DEF ws, ds
<1>6. ASSUME NEW x \in Names, x # v
      PROVE  /\ Whole([v |-> vec[x], h |-> g])
             /\ Holds([v |-> vec[x], h |-> g], expected[x])
    <2> DEFINE m == At(x)
    <2>1. Whole(m) /\ Holds(m, expected[x]) /\ m.v = vec[x] /\ m.h = heap
        BY <1>2
    <2>2. \A c \in Own(m.v) : g[c] = m.h[c]
        BY <2>1, <1>1, <1>2, <1>3, <1>6
    <2> HIDE DEF m
    <2>3. /\ Whole([v |-> m.v, h |-> g])
          /\ Holds([v |-> m.v, h |-> g], expected[x])
        BY <2>1, <2>2, <1>3, HoldsStill
    <2>. QED BY <2>1, <2>3
<1>7. ASSUME NEW x \in Names
      PROVE  Whole([v |-> ws[x], h |-> g]) /\ Holds([v |-> ws[x], h |-> g], ds[x])
    <2>1. CASE x = v
        <3>1. /\ Whole([v |-> vec[w], h |-> g])
              /\ Holds([v |-> vec[w], h |-> g], expected[w])
            BY <1>0, <1>6
        <3>. QED BY <3>1, <2>1, <1>5
    <2>2. CASE x = w
        BY <2>2, <1>4, <1>5
    <2>3. CASE x # v /\ x # w
        <3>1. /\ Whole([v |-> vec[x], h |-> g])
              /\ Holds([v |-> vec[x], h |-> g], expected[x])
            BY <2>3, <1>6
        <3>2. ws[x] = vec[x] /\ ds[x] = expected[x]
            BY <2>3, <1>5
        <3>. QED BY <3>1, <3>2
    <2>. QED BY <2>1, <2>2, <2>3
<1>8. ASSUME NEW x \in Names, NEW y \in Names, x # y
      PROVE  Own(ws[x]) \cap Own(ws[y]) = {}
    BY <1>1, <1>4, <1>5, <1>8
<1>9. ASSUME NEW b \in Blocks, g[b] # <<>>
      PROVE  \E x \in Names : b \in Own(ws[x])
    <2>1. b \notin Own(vec[v]) /\ heap[b] # <<>>
        BY <1>3, <1>9
    <2>2. PICK x \in Names : b \in Own(vec[x])
        BY <2>1, <1>1
    <2>. QED BY <2>1, <2>2, <1>5
<1>10. Sound(ws, g, ds)
    BY <1>3, <1>5, <1>7, <1>8, <1>9 DEF Sound
<1>. QED BY <1>0, <1>10 DEF Inv

LEMMA SwapSound ==
    ASSUME Inv, NEW v \in Names, NEW w \in Names, swap(v, w)
    PROVE  Inv'
<1> DEFINE ws == [vec EXCEPT ![v] = vec[w], ![w] = vec[v]]
           ds == [expected EXCEPT ![v] = expected[w], ![w] = expected[v]]
<1>0. v # w /\ vec' = ws /\ heap' = heap /\ expected' = ds
    BY DEF swap
<1>1. /\ vec \in [Names -> Vector] /\ heap \in Memory /\ expected \in [Names -> Seq(Elem)]
      /\ \A x, y \in Names : x # y => Own(vec[x]) \cap Own(vec[y]) = {}
      /\ \A b \in Blocks : heap[b] # <<>> => \E x \in Names : b \in Own(vec[x])
      /\ \A x \in Names : /\ Whole([v |-> vec[x], h |-> heap])
                          /\ Holds([v |-> vec[x], h |-> heap], expected[x])
    BY DEF Inv, Sound
<1>2. /\ ws \in [Names -> Vector] /\ ds \in [Names -> Seq(Elem)]
      /\ ws[v] = vec[w] /\ ds[v] = expected[w] /\ ws[w] = vec[v] /\ ds[w] = expected[v]
      /\ \A x \in Names \ {v, w} : ws[x] = vec[x] /\ ds[x] = expected[x]
    BY <1>0, <1>1
<1> HIDE DEF ws, ds
<1>3. \A x \in Names : \E y \in Names :
        ws[x] = vec[y] /\ ds[x] = expected[y] /\ (y = IF x = v THEN w ELSE IF x = w THEN v ELSE x)
    BY <1>2
<1>4. ASSUME NEW x \in Names
      PROVE  Whole([v |-> ws[x], h |-> heap]) /\ Holds([v |-> ws[x], h |-> heap], ds[x])
    <2>1. PICK y \in Names : ws[x] = vec[y] /\ ds[x] = expected[y]
        BY <1>3
    <2>2. Whole([v |-> vec[y], h |-> heap]) /\ Holds([v |-> vec[y], h |-> heap], expected[y])
        BY <1>1
    <2>. QED BY <2>1, <2>2
<1>5. ASSUME NEW x \in Names, NEW y \in Names, x # y
      PROVE  Own(ws[x]) \cap Own(ws[y]) = {}
    <2>1. PICK x1 \in Names : ws[x] = vec[x1] /\ (x1 = IF x = v THEN w ELSE IF x = w THEN v ELSE x)
        BY <1>3
    <2>2. PICK y1 \in Names : ws[y] = vec[y1] /\ (y1 = IF y = v THEN w ELSE IF y = w THEN v ELSE y)
        BY <1>3
    <2>3. x1 # y1
        BY <2>1, <2>2, <1>5
    <2>. QED BY <2>1, <2>2, <2>3, <1>1
<1>6. \A b \in Blocks : heap[b] # <<>> => \E x \in Names : b \in Own(ws[x])
    BY <1>1, <1>2
<1>7. Sound(ws, heap, ds)
    BY <1>1, <1>2, <1>4, <1>5, <1>6 DEF Sound
<1>. QED BY <1>0, <1>7 DEF Inv

-------------------------------------------------------------------------------
(* The invariant, and the theorems *)

LEMMA InitInv == Init => Inv
<1> SUFFICES ASSUME Init PROVE Inv
    OBVIOUS
<1> DEFINE fresh == [arr |-> [i \in InlineAt |-> Junk], data |-> Null, cap |-> 0, len |-> 0]
<1>1. fresh \in Vector
    BY DEF Vector, Elem
<1>2. /\ fresh.cap = 0 /\ fresh.len = 0
    OBVIOUS
<1>3. <<>> \in Seq(Elem) /\ Len(<<>>) = 0
    BY EmptySeq
<1>4. /\ vec \in [Names -> Vector] /\ heap \in Memory /\ expected \in [Names -> Seq(Elem)]
      /\ \A v \in Names : vec[v] = fresh /\ expected[v] = <<>>
      /\ \A b \in Blocks : heap[b] = <<>>
    BY <1>1, <1>3 DEF Init, Memory
<1> HIDE DEF fresh
<1>5. \A v \in Names : Whole([v |-> vec[v], h |-> heap])
    BY <1>1, <1>2, <1>4 DEF Whole
<1>6. \A v \in Names : Holds([v |-> vec[v], h |-> heap], expected[v])
    BY <1>2, <1>3, <1>4, Capacity DEF Holds
<1>7. \A v \in Names : Own(vec[v]) = {}
    BY <1>2, <1>4 DEF Own
<1>. QED BY <1>4, <1>5, <1>6, <1>7 DEF Inv, Sound

LEMMA NextInv == Inv /\ [Next]_vars => Inv'
<1> SUFFICES ASSUME Inv, [Next]_vars PROVE Inv'
    OBVIOUS
<1>1. CASE UNCHANGED vars
    BY <1>1 DEF Inv, vars
<1>2. \A s \in Inserted : s \in Seq(Elem)
    <2> TAKE s \in Inserted
    <2>1. PICK x \in Values : s = <<x>> \/ s = <<x, x>>
        BY DEF Inserted
    <2>2. x \in Elem
        BY DEF Elem
    <2>3. <<x>> \in Seq(Elem) /\ <<x, x>> \in Seq(Elem)
        BY <2>2
    <2>. QED BY <2>1, <2>3
<1>3. \A i \in 0..MaxLen : i \in Nat
    BY VectorAssumption
<1>4. CASE Next
    <2>1. PICK v \in Names :
            \/ \E s \in Inserted : Assign(v, s)
            \/ \E i \in 0..MaxLen, s \in Inserted : Insert(v, i, s) \/ InsertInHeap(v, i, s)
            \/ \E i, j \in 0..MaxLen : Erase(v, i, j)
            \/ clear(v)
            \/ \E n \in 1..MaxLen : Resize(v, n) \/ Reserve(v, n)
            \/ \E w \in Names : Copy(v, w) \/ Move(v, w) \/ swap(v, w)
        BY <1>4 DEF Next
    <2>2. CASE \E s \in Inserted : Assign(v, s)
        BY <2>2, <1>2, AssignSound
    <2>3. ASSUME NEW i \in 0..MaxLen, NEW s \in Inserted,
                 Insert(v, i, s) \/ InsertInHeap(v, i, s)
          PROVE  Inv'
        BY <2>3, <1>2, <1>3, InsertSound, InsertInHeapSound
    <2>4. ASSUME NEW i \in 0..MaxLen, NEW j \in 0..MaxLen, Erase(v, i, j)
          PROVE  Inv'
        BY <2>4, <1>3, EraseSound
    <2>5. CASE clear(v)
        BY <2>5, ClearSound
    <2>6. ASSUME NEW n \in 1..MaxLen, Resize(v, n) \/ Reserve(v, n)
          PROVE  Inv'
        <3>1. n \in Nat
            OBVIOUS
        <3>. QED BY <2>6, <3>1, ResizeSound, ReserveSound
    <2>7. ASSUME NEW w \in Names, Copy(v, w) \/ Move(v, w) \/ swap(v, w)
          PROVE  Inv'
        BY <2>7, CopySound, MoveSound, SwapSound
    <2>. QED BY <2>1, <2>2, <2>3, <2>4, <2>5, <2>6, <2>7
<1>. QED BY <1>1, <1>4

LEMMA InvAlways == Spec => []Inv
<1>. QED BY InitInv, NextInv, PTL DEF Spec

LEMMA TypesHold == Inv => TypeOK
<1> SUFFICES ASSUME Inv PROVE TypeOK
    OBVIOUS
<1>1. vec \in [Names -> Vector] /\ heap \in Memory
    BY DEF Inv, Sound
<1>2. ASSUME NEW v \in Names PROVE Room(vec[v], heap)
    <2>1. Whole(At(v)) /\ Holds(At(v), expected[v]) /\ At(v).v = vec[v] /\ At(v).h = heap
        BY Before
    <2>. QED BY <2>1, VectorAssumption DEF Whole, Holds, Room
<1>. QED BY <1>1, <1>2 DEF TypeOK, Vector, Memory

(* Every block that is allocated belongs to exactly one vector, also after *)
(* moves, swaps and assignments: none is lost, freed twice or shared       *)
(* (smallvector.hpp: the destructor, operator= and the move constructor).  *)
THEOREM BlocksAlwaysOwned == Spec => []BlocksOwned
<1>1. Inv => BlocksOwned
    <2> SUFFICES ASSUME Inv PROVE BlocksOwned
        OBVIOUS
    <2>1. \A v \in Names : \A b \in Blocks : v \in Owners(b) <=> b \in Own(vec[v])
        BY DEF Owners, Own
    <2>2. \A b \in Blocks : Owners(b) \subseteq Names
        BY DEF Owners
    <2>3. ASSUME NEW b \in Blocks, heap[b] = <<>>
          PROVE  Owners(b) = {}
        <3>1. \A v \in Names : b \notin Own(vec[v])
            <4> TAKE v \in Names
            <4> DEFINE m == At(v)
            <4>1. Whole(m) /\ m.v = vec[v] /\ m.h = heap
                BY Before
            <4> HIDE DEF m
            <4>2. \A c \in Blocks : m.h[c] = <<>> => c \notin Own(m.v)
                BY <4>1, OwnOf
            <4>. QED BY <4>1, <4>2, <2>3
        <3>. QED BY <3>1, <2>1, <2>2
    <2>4. ASSUME NEW b \in Blocks, heap[b] # <<>>
          PROVE  Cardinality(Owners(b)) = 1
        <3>1. PICK v \in Names : b \in Own(vec[v])
            BY <2>4 DEF Inv, Sound
        <3>2. \A w \in Names : w # v => b \notin Own(vec[w])
            BY <3>1 DEF Inv, Sound
        <3>3. Owners(b) = {v}
            BY <3>1, <3>2, <2>1, <2>2
        <3>. QED BY <3>3, FS_Singleton
    <2>. QED BY <2>3, <2>4, TypesHold DEF BlocksOwned
<1>. QED BY <1>1, InvAlways, PTL

(* A vector holds what its client put there, in its order, through all     *)
(* changes of place, growth and moves (insert, erase, resize, operator=).  *)
THEOREM ContentsAlwaysExpected == Spec => []ContentsExpected
<1>1. Inv => ContentsExpected
    BY Before, ContentsHeld DEF ContentsExpected
<1>. QED BY <1>1, InvAlways, PTL

(* A position is an index of arr or of data, and either is told from the   *)
(* other by small.                                                         *)
LEMMA PositionIs ==
    /\ \A i \in Nat : Position(i) = IF i < MinCapacity THEN InArr(i) ELSE InData(i - MinCapacity)
    /\ \A a, c : /\ InArr(a).small = TRUE /\ InArr(a).at = a
                 /\ InData(a).small = FALSE /\ InData(a).at = a
                 /\ [InArr(a) EXCEPT !.at = c] = InArr(c)
                 /\ [InData(a) EXCEPT !.at = c] = InData(c)
                 /\ InArr(a) # InData(c)
                 /\ InData(a) = InData(c) => a = c
<1>1. \A i \in Nat : Position(i) = IF i < MinCapacity THEN InArr(i) ELSE InData(i - MinCapacity)
    BY DEF Position
<1>2. \A a : /\ InArr(a).small = TRUE /\ InArr(a).at = a
             /\ InData(a).small = FALSE /\ InData(a).at = a
    BY DEF InArr, InData
<1>x. \A x, a, c : [[small |-> x, at |-> a] EXCEPT !.at = c] = [small |-> x, at |-> c]
    OBVIOUS
<1>3. ASSUME NEW a, NEW c
      PROVE  [InArr(a) EXCEPT !.at = c] = InArr(c) /\ [InData(a) EXCEPT !.at = c] = InData(c)
    <2> DEFINE x == TRUE
               y == FALSE
    <2>1. /\ InArr(a) = [small |-> x, at |-> a] /\ InArr(c) = [small |-> x, at |-> c]
          /\ InData(a) = [small |-> y, at |-> a] /\ InData(c) = [small |-> y, at |-> c]
        BY DEF InArr, InData
    <2> HIDE DEF x, y
    <2>. QED BY <2>1, <1>x
<1>4. \A a, c : InArr(a) # InData(c) /\ (InData(a) = InData(c) => a = c)
    BY <1>2
<1>. QED BY <1>1, <1>2, <1>3, <1>4

LEMMA Counted ==
    ASSUME NEW i \in Nat, NEW j \in Nat
    PROVE  /\ Distance(Position(i), Position(j)) = i - j
           /\ Geq(Position(i), Position(j)) = (i >= j)
           /\ Greater(Position(i), Position(j)) = (i > j)
<1> DEFINE p == Position(i)
           q == Position(j)
<1>. SUFFICES Distance(p, q) = i - j /\ Geq(p, q) = (i >= j) /\ Greater(p, q) = (i > j)
    OBVIOUS
<1>0. /\ i < MinCapacity => p.small = TRUE /\ p.at = i
      /\ ~(i < MinCapacity) => p.small = FALSE /\ p.at = i - MinCapacity
      /\ j < MinCapacity => q.small = TRUE /\ q.at = j
      /\ ~(j < MinCapacity) => q.small = FALSE /\ q.at = j - MinCapacity
    BY PositionIs
<1> HIDE DEF p, q
<1>1. CASE i < MinCapacity /\ j < MinCapacity
    <2>1. p.small = TRUE /\ p.at = i /\ q.small = TRUE /\ q.at = j
        BY <1>0, <1>1
    <2>. QED BY <2>1 DEF Distance, Geq, Greater
<1>2. CASE i < MinCapacity /\ ~(j < MinCapacity)
    <2>1. p.small = TRUE /\ p.at = i /\ q.small = FALSE /\ q.at = j - MinCapacity
        BY <1>0, <1>2
    <2>2. /\ (i >= j) = FALSE /\ (i > j) = FALSE
          /\ -((MinCapacity - i) + (j - MinCapacity)) = i - j
        BY <1>2, Capacity
    <2>3. Distance(p, q) = -((MinCapacity - i) + (j - MinCapacity))
        BY <2>1 DEF Distance
    <2>4. Geq(p, q) = FALSE /\ Greater(p, q) = FALSE
        BY <2>1 DEF Geq, Greater
    <2>5. Distance(p, q) = i - j
        BY <2>2, <2>3, Zenon
    <2>. QED BY <2>2, <2>4, <2>5
<1>3. CASE ~(i < MinCapacity) /\ j < MinCapacity
    <2>1. p.small = FALSE /\ p.at = i - MinCapacity /\ q.small = TRUE /\ q.at = j
        BY <1>0, <1>3
    <2>2. i >= j /\ i > j /\ (i - MinCapacity) + (MinCapacity - j) = i - j
        BY <1>3, Capacity
    <2>. QED BY <2>1, <2>2 DEF Distance, Geq, Greater
<1>4. CASE ~(i < MinCapacity) /\ ~(j < MinCapacity)
    <2>1. /\ p.small = FALSE /\ p.at = i - MinCapacity
          /\ q.small = FALSE /\ q.at = j - MinCapacity
        BY <1>0, <1>4
    <2>2. /\ (i - MinCapacity) - (j - MinCapacity) = i - j
          /\ (i - MinCapacity >= j - MinCapacity) = (i >= j)
          /\ (i - MinCapacity > j - MinCapacity) = (i > j)
        BY <1>4, Capacity
    <2>. QED BY <2>1, <2>2 DEF Distance, Geq, Greater
<1>. QED BY <1>1, <1>2, <1>3, <1>4

LEMMA Advanced ==
    ASSUME NEW i \in Nat, NEW j \in Nat, i < j
    PROVE  Plus(Position(i), j - i) = Position(j) /\ Minus(Position(j), j - i) = Position(i)
<1>1. CASE j < MinCapacity
    <2>1. /\ i < MinCapacity /\ i + (j - i) = j /\ j - (j - i) = i
          /\ ~(MinCapacity - i <= j - i)
        BY <1>1, Capacity
    <2>. QED BY <1>1, <2>1, PositionIs DEF Plus, Minus
<1>2. CASE i < MinCapacity /\ ~(j < MinCapacity)
    <2>1. /\ MinCapacity - i <= j - i /\ (j - i) - (MinCapacity - i) = j - MinCapacity
          /\ j - MinCapacity < j - i
          /\ (MinCapacity - (j - i)) + (j - MinCapacity) = i
        BY <1>2, Capacity
    <2>. QED BY <1>2, <2>1, PositionIs DEF Plus, Minus
<1>3. CASE ~(i < MinCapacity)
    <2>1. /\ ~(j < MinCapacity) /\ (i - MinCapacity) + (j - i) = j - MinCapacity
          /\ ~(j - MinCapacity < j - i) /\ (j - MinCapacity) - (j - i) = i - MinCapacity
        BY <1>3, Capacity
    <2>. QED BY <1>3, <2>1, PositionIs DEF Plus, Minus
<1>. QED BY <1>1, <1>2, <1>3

LEMMA Stepped ==
    ASSUME NEW i \in Nat
    PROVE  Increment(Position(i)) = Position(i + 1) /\ Decrement(Position(i + 1)) = Position(i)
<1>1. CASE i + 1 < MinCapacity
    <2>1. i < MinCapacity /\ i + 1 \in Nat /\ (i + 1) - 1 = i /\ i + 1 # MinCapacity
        BY <1>1, Capacity
    <2>. QED BY <1>1, <2>1, PositionIs DEF Increment, Decrement
<1>2. CASE i + 1 = MinCapacity
    <2>1. /\ i < MinCapacity /\ i + 1 \in Nat /\ ~(i + 1 < MinCapacity)
          /\ (i + 1) - MinCapacity = 0 /\ MinCapacity - 1 = i
        BY <1>2, Capacity
    <2>. QED BY <1>2, <2>1, PositionIs DEF Increment, Decrement
<1>3. CASE i + 1 > MinCapacity
    <2>1. /\ ~(i < MinCapacity) /\ i + 1 \in Nat /\ ~(i + 1 < MinCapacity)
          /\ (i - MinCapacity) + 1 = (i + 1) - MinCapacity
          /\ ((i + 1) - MinCapacity) - 1 = i - MinCapacity /\ (i + 1) - MinCapacity # 0
        BY <1>3, Capacity
    <2>. QED BY <1>3, <2>1, PositionIs DEF Increment, Decrement
<1>. QED BY <1>1, <1>2, <1>3, Capacity

(* Iterators count as one array does, across the step from arr to data     *)
(* (smallvector.hpp, SmallVectorIterator).                                 *)
THEOREM IteratorsAlwaysCount == Spec => []IteratorsCount
<1>1. Inv => IteratorsCount
    <2> SUFFICES ASSUME Inv, NEW v \in Names,
                        NEW i \in 0..vec[v].len, NEW j \in 0..vec[v].len
                 PROVE  /\ Distance(Position(i), Position(j)) = i - j
                        /\ Geq(Position(i), Position(j)) = (i >= j)
                        /\ Greater(Position(i), Position(j)) = (i > j)
                        /\ i < j => /\ Plus(Position(i), j - i) = Position(j)
                                    /\ Minus(Position(j), j - i) = Position(i)
                        /\ Increment(Position(i)) = Position(i + 1)
                        /\ Decrement(Position(i + 1)) = Position(i)
        BY DEF IteratorsCount
    <2>1. i \in Nat /\ j \in Nat
        BY Before
    <2>. QED BY <2>1, Counted, Advanced, Stepped
<1>. QED BY <1>1, InvAlways, PTL
===============================================================================
