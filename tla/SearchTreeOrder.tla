--------------------------- MODULE SearchTreeOrder ----------------------------
(***************************************************************************)
(* Proofs about SearchTree for any nodes, any keys and any number of       *)
(* exchanges: find() and the iterators follow the order of the tree, and   *)
(* the tree implements a sorted sequence.                                  *)
(*                                                                         *)
(* The order of the nodes is a sequence that is put together from what is  *)
(* below each node, so the lemmas say what stands before and behind a      *)
(* place in it, and not with which number.                                 *)
(***************************************************************************)
EXTENDS SearchTreeProofs

-------------------------------------------------------------------------------
(* Sequences *)

(* The first (Left) or the last (Right) of q.                              *)
EndOf(s, q) == IF q = <<>> THEN Nil ELSE IF s = Left THEN q[1] ELSE q[Len(q)]

LEMMA Join ==
    ASSUME NEW S, NEW a \in Seq(S), NEW n \in S, NEW b \in Seq(S)
    PROVE  /\ a \o <<n>> \o b \in Seq(S) /\ a \o <<n>> \o b # <<>>
           /\ Len(a \o <<n>> \o b) = Len(a) + 1 + Len(b)
           /\ Len(a) \in Nat /\ Len(b) \in Nat
           /\ \A i \in 1..Len(a \o <<n>> \o b) :
                 (a \o <<n>> \o b)[i] = IF i <= Len(a) THEN a[i]
                                        ELSE IF i = Len(a) + 1 THEN n
                                        ELSE b[i - (Len(a) + 1)]
           /\ a \o <<n>> \o b = (a \o <<n>>) \o b
           /\ a \o <<n>> \o b = a \o (<<n>> \o b)
           /\ a \o <<n>> \in Seq(S) /\ <<n>> \o b \in Seq(S) /\ <<n>> \in Seq(S)
<1>1. <<n>> \in Seq(S)
    OBVIOUS
<1>2. Len(a) \in Nat /\ Len(b) \in Nat
    OBVIOUS
<1>3. a \o <<n>> \in Seq(S) /\ <<n>> \o b \in Seq(S) /\ (a \o <<n>>) \o b \in Seq(S)
    BY <1>1
<1>4. (a \o <<n>>) \o b = a \o (<<n>> \o b)
    BY <1>1, ConcatAssociative
<1>5. Len(a \o <<n>> \o b) = Len(a) + 1 + Len(b)
    BY <1>1
<1>6. \A i \in 1..Len(a \o <<n>> \o b) :
          (a \o <<n>> \o b)[i] = IF i <= Len(a) THEN a[i]
                                 ELSE IF i = Len(a) + 1 THEN n
                                 ELSE b[i - (Len(a) + 1)]
    BY <1>1
<1>7. a \o <<n>> \o b # <<>>
    <2>1. Len(a \o <<n>> \o b) # 0 /\ Len(<<>>) = 0
        BY <1>2, <1>5
    <2>. QED BY <2>1
<1>. QED BY <1>1, <1>2, <1>3, <1>4, <1>5, <1>6, <1>7

LEMMA Concat ==
    ASSUME NEW S, NEW a \in Seq(S), NEW b \in Seq(S), NEW c \in Seq(S)
    PROVE  /\ a \o b \in Seq(S) /\ b \o c \in Seq(S)
           /\ (a \o b) \o c = a \o (b \o c) /\ a \o b \o c \in Seq(S)
           /\ a \o <<>> = a /\ <<>> \o a = a
<1>1. a \o b \in Seq(S) /\ b \o c \in Seq(S) /\ a \o b \o c \in Seq(S)
    BY ConcatProperties
<1>2. (a \o b) \o c = a \o (b \o c)
    BY ConcatAssociative
<1>3. a \o <<>> = a /\ <<>> \o a = a
    BY ConcatEmptySeq
<1>. QED BY <1>1, <1>2, <1>3

(* What is before a node and behind it in a joined sequence.               *)
LEMMA JoinEnds ==
    ASSUME NEW S, NEW a \in Seq(S), NEW n \in S, NEW b \in Seq(S)
    PROVE  /\ EndOf(Left, a \o <<n>> \o b) = IF a = <<>> THEN n ELSE EndOf(Left, a)
           /\ EndOf(Right, a \o <<n>> \o b) = IF b = <<>> THEN n ELSE EndOf(Right, b)
<1>. DEFINE q == a \o <<n>> \o b
<1>1. /\ q \in Seq(S) /\ q # <<>> /\ Len(q) = Len(a) + 1 + Len(b)
      /\ Len(a) \in Nat /\ Len(b) \in Nat
      /\ \A i \in 1..Len(q) : q[i] = IF i <= Len(a) THEN a[i]
                                     ELSE IF i = Len(a) + 1 THEN n ELSE b[i - (Len(a) + 1)]
    BY Join
<1>2. (a = <<>> => Len(a) = 0) /\ (a # <<>> => Len(a) > 0)
    BY <1>1, EmptySeq
<1>3. (b = <<>> => Len(b) = 0) /\ (b # <<>> => Len(b) > 0)
    BY <1>1, EmptySeq
<1>7. Right # Left
    BY DEF Left, Right
<1>. HIDE DEF q
<1>8. q[1] = IF a = <<>> THEN n ELSE a[1]
    <2>1. 1 \in 1..Len(q)
        BY <1>1
    <2>2. CASE a = <<>>
        BY <2>1, <2>2, <1>1, <1>2
    <2>3. CASE a # <<>>
        BY <2>1, <2>3, <1>1, <1>2
    <2>. QED BY <2>2, <2>3
<1>9. q[Len(q)] = IF b = <<>> THEN n ELSE b[Len(b)]
    <2>1. Len(q) \in 1..Len(q)
        BY <1>1
    <2>2. CASE b = <<>>
        <3>1. Len(q) = Len(a) + 1
            BY <2>2, <1>1, <1>3
        <3>. QED BY <3>1, <2>1, <2>2, <1>1
    <2>3. CASE b # <<>>
        <3>1. Len(q) > Len(a) + 1 /\ Len(q) - (Len(a) + 1) = Len(b)
            BY <2>3, <1>1, <1>3
        <3>2. ~(Len(q) <= Len(a)) /\ Len(q) # Len(a) + 1
            BY <3>1, <1>1
        <3>3. q[Len(q)] = b[Len(q) - (Len(a) + 1)]
            BY <3>2, <2>1, <1>1
        <3>. QED BY <3>1, <3>3, <2>3
    <2>. QED BY <2>2, <2>3
<1>10. EndOf(Left, q) = IF a = <<>> THEN n ELSE EndOf(Left, a)
    BY <1>1, <1>8 DEF EndOf
<1>11. EndOf(Right, q) = IF b = <<>> THEN n ELSE EndOf(Right, b)
    BY <1>1, <1>7, <1>9 DEF EndOf
<1>. QED BY <1>10, <1>11 DEF q

LEMMA FirstIs ==
    ASSUME NEW n \in Nodes, NEW b \in Seq(Nodes)
    PROVE  EndOf(Left, <<n>> \o b) = n
<1>1. <<n>> \in Seq(Nodes) /\ Len(b) \in Nat
    OBVIOUS
<1>2. Len(<<n>> \o b) = 1 + Len(b) /\ (<<n>> \o b)[1] = n
    BY <1>1
<1>3. <<n>> \o b # <<>>
    <2>1. Len(<<n>> \o b) # 0 /\ Len(<<>>) = 0
        BY <1>1, <1>2
    <2>. QED BY <2>1
<1>. QED BY <1>2, <1>3 DEF EndOf

LEMMA LastIs ==
    ASSUME NEW a \in Seq(Nodes), NEW n \in Nodes
    PROVE  EndOf(Right, a \o <<n>>) = n
<1>1. <<n>> \in Seq(Nodes) /\ Len(a) \in Nat
    OBVIOUS
<1>2. Len(a \o <<n>>) = Len(a) + 1 /\ (a \o <<n>>)[Len(a) + 1] = n
    BY <1>1
<1>3. a \o <<n>> # <<>>
    <2>1. Len(a \o <<n>>) # 0 /\ Len(<<>>) = 0
        BY <1>1, <1>2
    <2>. QED BY <2>1
<1>4. Right # Left
    BY DEF Left, Right
<1>. QED BY <1>2, <1>3, <1>4 DEF EndOf

-------------------------------------------------------------------------------
(* The walk through what is below a node *)

LEMMA WalkAt ==
    ASSUME NEW t \in Trees, NEW below, Shape(t, below), NEW walk, WalkOf(t, walk),
           NEW n \in Nodes
    PROVE  LET l == Kid(t, Left, n)
               r == Kid(t, Right, n)
           IN /\ walk[n] = walk[l] \o <<n>> \o walk[r]
              /\ l \in Pointer /\ r \in Pointer
              /\ walk[n] \in Seq(Nodes) /\ walk[l] \in Seq(Nodes) /\ walk[r] \in Seq(Nodes)
              /\ walk[l] \in Seq(below[l]) /\ walk[r] \in Seq(below[r])
              /\ walk[n] # <<>> /\ walk[Nil] = <<>> /\ n # Nil
<1>. DEFINE l == Kid(t, Left, n)
            r == Kid(t, Right, n)
<1>1. l \in Pointer /\ r \in Pointer /\ n \in Pointer /\ n # Nil
    BY KidType, NilIsNoNode DEF Side
<1>2. ASSUME NEW x \in Pointer PROVE walk[x] \in Seq(Nodes) /\ walk[x] \in Seq(below[x])
    <2>1. walk[x] \in Seq(Nodes) /\ {walk[x][i] : i \in 1..Len(walk[x])} = below[x]
        BY WalkLists DEF Lists
    <2>2. \A i \in 1..Len(walk[x]) : walk[x][i] \in below[x]
        BY <2>1
    <2>. QED BY <2>1, <2>2
<1>3. walk[n] = walk[l] \o <<n>> \o walk[r] /\ walk[Nil] = <<>>
    BY DEF WalkOf
<1>. HIDE DEF l, r
<1>4. walk[l] \o <<n>> \o walk[r] # <<>>
    BY <1>1, <1>2, Join
<1>5. /\ walk[n] \in Seq(Nodes) /\ walk[l] \in Seq(Nodes) /\ walk[r] \in Seq(Nodes)
      /\ walk[l] \in Seq(below[l]) /\ walk[r] \in Seq(below[r])
    BY <1>1, <1>2
<1>. QED BY <1>1, <1>3, <1>4, <1>5 DEF l, r

(* The loop down the children on one side ends at that end of the walk.    *)
LEMMA ExtremeEnd ==
    ASSUME NEW t \in Trees, NEW below, Shape(t, below), NEW walk, WalkOf(t, walk),
           NEW s \in Side, NEW n \in Nodes
    PROVE  Extreme(t, s, n) = EndOf(s, walk[n])
<1>. DEFINE S == {x \in Pointer : x # Nil => Extreme(t, s, x) = EndOf(s, walk[x])}
<1>1. Nil \in S
    BY NilIsNoNode
<1>2. ASSUME NEW x \in Nodes, \A r \in Side : Kid(t, r, x) \in S PROVE x \in S
    <2>. DEFINE l == Kid(t, Left, x)
                r == Kid(t, Right, x)
    <2>1. /\ walk[x] = walk[l] \o <<x>> \o walk[r]
          /\ l \in Pointer /\ r \in Pointer
          /\ walk[l] \in Seq(Nodes) /\ walk[r] \in Seq(Nodes)
          /\ walk[Nil] = <<>> /\ x # Nil
        BY WalkAt
    <2>2. \A y \in Nodes : walk[y] # <<>>
        BY WalkAt
    <2>3. /\ EndOf(Left, walk[x]) = IF walk[l] = <<>> THEN x ELSE EndOf(Left, walk[l])
          /\ EndOf(Right, walk[x]) = IF walk[r] = <<>> THEN x ELSE EndOf(Right, walk[r])
        <3>. HIDE DEF l, r
        <3>. QED BY <2>1, JoinEnds
    <2>4. /\ l # Nil => Extreme(t, s, l) = EndOf(s, walk[l])
          /\ r # Nil => Extreme(t, s, r) = EndOf(s, walk[r])
        BY <1>2 DEF Side
    <2>5. (l = Nil <=> walk[l] = <<>>) /\ (r = Nil <=> walk[r] = <<>>)
        BY <2>1, <2>2 DEF Pointer
    <2>6. Extreme(t, s, x) = IF Kid(t, s, x) = Nil THEN x ELSE Extreme(t, s, Kid(t, s, x))
        BY ExtremeIs
    <2>7. CASE s = Left
        BY <2>3, <2>4, <2>5, <2>6, <2>7, NilIsNoNode
    <2>8. CASE s = Right
        BY <2>3, <2>4, <2>5, <2>6, <2>8, NilIsNoNode
    <2>. QED BY <2>7, <2>8 DEF Side
<1>3. Pointer \subseteq S
    BY <1>1, <1>2, TreeInduction
<1>. QED BY <1>3, NilIsNoNode

(* The loop that climbs until it comes from the other side.                *)
UpFrom(t, s, n) ==
    LET climb[m \in Nodes] ==
            IF t.parent[m] # Nil /\ Kid(t, s, t.parent[m]) = m
            THEN climb[t.parent[m]] ELSE t.parent[m]
    IN climb[n]

LEMMA UpIs ==
    ASSUME NEW t \in Trees, NEW s \in Side, NEW n \in Nodes
    PROVE  UpFrom(t, s, n) = IF t.parent[n] # Nil /\ Kid(t, s, t.parent[n]) = n
                             THEN UpFrom(t, s, t.parent[n]) ELSE t.parent[n]
<1>. DEFINE Up(m) == t.parent[m] # Nil /\ Kid(t, s, t.parent[m]) = m
            F == CHOOSE f : f = [m \in Nodes |-> IF Up(m) THEN f[t.parent[m]] ELSE t.parent[m]]
            stop == {m \in Nodes : ~Up(m)}
            next == [m \in Nodes |-> IF m \in stop THEN m ELSE t.parent[m]]
<1>1. next \in [Nodes -> Nodes] /\ stop \in SUBSET Nodes
    BY DEF Pointer, Trees
<1>2. PICK g : IsLoop(g, Nodes, next, stop, t.parent)
    <2>. HIDE DEF next, stop
    <2>. QED BY <1>1, LoopValue
<1>3. g = [m \in Nodes |-> IF Up(m) THEN g[t.parent[m]] ELSE t.parent[m]]
    BY <1>2 DEF IsLoop
<1>4. F = [m \in Nodes |-> IF Up(m) THEN F[t.parent[m]] ELSE t.parent[m]]
    BY <1>3
<1>5. \A m : UpFrom(t, s, m) = F[m]
    BY DEF UpFrom
<1>. HIDE DEF F
<1>. QED BY <1>4, <1>5

(* A step of an iterator goes down if it can, and climbs otherwise.        *)
LEMMA NeighbourIs ==
    ASSUME NEW t, NEW s, NEW n
    PROVE  Neighbour(t, s, n) = IF Kid(t, s, n) # Nil
                                THEN Extreme(t, Opposite(s), Kid(t, s, n)) ELSE UpFrom(t, s, n)
BY DEF Neighbour, UpFrom

LEMMA ConcatEnds ==
    ASSUME NEW S, NEW a \in Seq(S), NEW b \in Seq(S)
    PROVE  /\ EndOf(Left, a \o b) = IF a = <<>> THEN EndOf(Left, b) ELSE EndOf(Left, a)
           /\ EndOf(Right, a \o b) = IF b = <<>> THEN EndOf(Right, a) ELSE EndOf(Right, b)
<1>1. a \o <<>> = a /\ <<>> \o a = a /\ b \o <<>> = b /\ <<>> \o b = b
    BY ConcatEmptySeq
<1>2. CASE a # <<>> /\ b # <<>>
    <2>1. Len(a) \in Nat \ {0} /\ Len(b) \in Nat \ {0}
        BY <1>2, EmptySeq
    <2>2. /\ a \o b \in Seq(S) /\ Len(a \o b) = Len(a) + Len(b)
          /\ \A i \in 1..Len(a) + Len(b) :
                (a \o b)[i] = IF i <= Len(a) THEN a[i] ELSE b[i - Len(a)]
        BY ConcatProperties
    <2>3. 1 \in 1..Len(a) + Len(b) /\ Len(a) + Len(b) \in 1..Len(a) + Len(b)
          /\ 1 <= Len(a) /\ ~(Len(a) + Len(b) <= Len(a)) /\ Len(a) + Len(b) - Len(a) = Len(b)
        BY <2>1
    <2>4. (a \o b)[1] = a[1] /\ (a \o b)[Len(a \o b)] = b[Len(b)]
        BY <2>2, <2>3
    <2>5. a \o b # <<>> /\ Right # Left
        BY <1>2, ConcatEqualIffEmpty DEF Left, Right
    <2>. QED BY <1>2, <2>4, <2>5 DEF EndOf
<1>3. CASE a = <<>>
    BY <1>1, <1>3 DEF EndOf
<1>4. CASE b = <<>>
    BY <1>1, <1>4 DEF EndOf
<1>. QED BY <1>2, <1>3, <1>4

(* n with a before and b behind it.                                       *)
Mid(a, n, b) == a \o <<n>> \o b

(* A joined sequence with more around it.                                  *)
MidIn(a, v, n, w, b) ==
    /\ a \o Mid(v, n, w) \o b = Mid(a \o v, n, w \o b)
    /\ a \o Mid(v, n, w) \o b = a \o v \o (<<n>> \o (w \o b))
    /\ a \o Mid(v, n, w) \o b = ((a \o v) \o <<n>>) \o w \o b
    /\ a \o v \in Seq(Nodes) /\ w \o b \in Seq(Nodes) /\ Mid(v, n, w) \in Seq(Nodes)
    /\ (a \o v) \o <<n>> \in Seq(Nodes) /\ <<n>> \o (w \o b) \in Seq(Nodes)

LEMMA Nested ==
    ASSUME NEW a \in Seq(Nodes), NEW v \in Seq(Nodes), NEW n \in Nodes,
           NEW w \in Seq(Nodes), NEW b \in Seq(Nodes)
    PROVE  MidIn(a, v, n, w, b)
<1>1. <<n>> \in Seq(Nodes)
    OBVIOUS
<1>2. a \o v \in Seq(Nodes) /\ w \o b \in Seq(Nodes) /\ v \o <<n>> \in Seq(Nodes)
    BY <1>1, ConcatProperties
<1>3. (a \o v) \o <<n>> \in Seq(Nodes) /\ (v \o <<n>>) \o w \in Seq(Nodes)
    BY <1>1, <1>2, ConcatProperties
<1>4. a \o ((v \o <<n>>) \o w) = (a \o (v \o <<n>>)) \o w
    BY <1>1, <1>2, ConcatAssociative
<1>5. a \o (v \o <<n>>) = (a \o v) \o <<n>>
    BY <1>1, ConcatAssociative
<1>6. (((a \o v) \o <<n>>) \o w) \o b = ((a \o v) \o <<n>>) \o (w \o b)
    <2>. DEFINE p == (a \o v) \o <<n>>
    <2>1. p \in Seq(Nodes)
        BY <1>3
    <2>. HIDE DEF p
    <2>2. (p \o w) \o b = p \o (w \o b)
        BY <2>1, ConcatAssociative
    <2>. QED BY <2>2 DEF p
<1>7. a \o Mid(v, n, w) \o b = Mid(a \o v, n, w \o b)
    BY <1>4, <1>5, <1>6 DEF Mid
<1>8. Mid(v, n, w) \in Seq(Nodes) /\ (a \o v) \o <<n>> \in Seq(Nodes)
    BY <1>3 DEF Mid
<1>9. /\ ((a \o v) \o <<n>>) \o (w \o b) = (a \o v) \o (<<n>> \o (w \o b))
      /\ <<n>> \o (w \o b) \in Seq(Nodes)
    <2>. DEFINE p == a \o v
                q == w \o b
    <2>1. p \in Seq(Nodes) /\ q \in Seq(Nodes)
        BY <1>2
    <2>. HIDE DEF p, q
    <2>2. (p \o <<n>>) \o q = p \o (<<n>> \o q) /\ <<n>> \o q \in Seq(Nodes)
        BY <2>1, <1>1, ConcatAssociative, ConcatProperties
    <2>. QED BY <2>2 DEF p, q
<1>10. a \o Mid(v, n, w) \o b = a \o v \o (<<n>> \o (w \o b))
    BY <1>7, <1>9 DEF Mid
<1>11. a \o Mid(v, n, w) \o b = ((a \o v) \o <<n>>) \o w \o b
    BY <1>6, <1>7 DEF Mid
<1>. QED BY <1>2, <1>7, <1>8, <1>9, <1>10, <1>11 DEF MidIn

(* The walk below x is a part of the order, a before and b behind it, and  *)
(* the loops that climb from x end there.                                  *)
Stands(t, walk, x) ==
    \E a, b \in Seq(Nodes) :
        /\ walk[t.head] = a \o walk[x] \o b
        /\ UpFrom(t, Left, x) = EndOf(Right, a)
        /\ UpFrom(t, Right, x) = EndOf(Left, b)

LEMMA AllStand ==
    ASSUME NEW t, NEW below, WellFormed(t, below), NEW walk, WalkOf(t, walk),
           NEW n \in below[t.head]
    PROVE  n \in Nodes /\ Stands(t, walk, n)
<1>. DEFINE S == {x \in Nodes : Stands(t, walk, x)}
            h == t.head
<1>1. /\ t \in Trees /\ Shape(t, below) /\ Linked(t) /\ h \in Pointer /\ h # Nil
      /\ Left \in Side /\ Right \in Side
    BY DEF WellFormed, Trees, Shape, Side
<1>2. h \in Nodes
    BY <1>1 DEF Pointer
<1>3. Stands(t, walk, h)
    <2>1. walk[h] \in Seq(Nodes) /\ <<>> \in Seq(Nodes)
        <3>1. walk[h] \in Seq(Nodes)
            BY <1>1, <1>2, WalkAt
        <3>. QED BY <3>1
    <2>2. walk[h] = <<>> \o walk[h] \o <<>>
        BY <2>1, Concat
    <2>3. t.parent[h] = Nil
        BY <1>1 DEF Linked
    <2>4. UpFrom(t, Left, h) = Nil /\ UpFrom(t, Right, h) = Nil
        BY <2>3, <1>1, <1>2, UpIs
    <2>5. EndOf(Left, <<>>) = Nil /\ EndOf(Right, <<>>) = Nil
        BY DEF EndOf
    <2>. QED BY <2>1, <2>2, <2>4, <2>5 DEF Stands
<1>4. ASSUME NEW x \in S, NEW s \in Side PROVE Kid(t, s, x) \in S \cup {Nil}
    <2>. DEFINE l == Kid(t, Left, x)
                r == Kid(t, Right, x)
    <2>1. PICK a \in Seq(Nodes), b \in Seq(Nodes) :
             /\ walk[h] = a \o walk[x] \o b
             /\ UpFrom(t, Left, x) = EndOf(Right, a)
             /\ UpFrom(t, Right, x) = EndOf(Left, b)
        BY DEF Stands
    <2>2. /\ walk[x] = walk[l] \o <<x>> \o walk[r]
          /\ l \in Pointer /\ r \in Pointer /\ x # Nil /\ x \in Nodes
          /\ walk[l] \in Seq(Nodes) /\ walk[r] \in Seq(Nodes)
        BY <1>1, WalkAt
    <2>3. /\ l # Nil => t.parent[l] = x
          /\ r # Nil => t.parent[r] = x
          /\ l # Nil => l # r
        <3>1. /\ l # Nil => t.parent[l] = x
              /\ r # Nil => t.parent[r] = x
            BY <1>1 DEF Linked
        <3>2. below[l] \cap below[r] = {} /\ \A y \in Nodes : y \in below[y]
            BY <1>1, ShapeAt DEF Opposite, Left, Right
        <3>. QED BY <3>1, <3>2, <2>2 DEF Pointer
    <2>4. /\ (a \o walk[l]) \o <<x>> \in Seq(Nodes) /\ <<x>> \o (walk[r] \o b) \in Seq(Nodes)
          /\ EndOf(Right, (a \o walk[l]) \o <<x>>) = x
          /\ EndOf(Left, <<x>> \o (walk[r] \o b)) = x
          /\ walk[h] = a \o walk[l] \o (<<x>> \o (walk[r] \o b))
          /\ walk[h] = ((a \o walk[l]) \o <<x>>) \o walk[r] \o b
        <3>. DEFINE p == walk[l]
                    q == walk[r]
        <3>1. p \in Seq(Nodes) /\ q \in Seq(Nodes) /\ x \in Nodes
            BY <2>2
        <3>2. walk[h] = a \o Mid(p, x, q) \o b
            BY <2>1, <2>2 DEF Mid
        <3>. HIDE DEF p, q
        <3>3. MidIn(a, p, x, q, b)
            BY <3>1, Nested
        <3>4. a \o p \in Seq(Nodes) /\ q \o b \in Seq(Nodes)
            BY <3>3 DEF MidIn
        <3>5. EndOf(Right, (a \o p) \o <<x>>) = x /\ EndOf(Left, <<x>> \o (q \o b)) = x
            BY <3>1, <3>4, FirstIs, LastIs
        <3>. QED BY <3>2, <3>3, <3>5 DEF MidIn, p, q
    <2>. HIDE DEF l, r
    <2>5. CASE s = Left /\ l # Nil
        <3>1. l \in Nodes
            BY <2>2, <2>5 DEF Pointer
        <3>2. UpFrom(t, Right, l) = x
            <4>1. ~(Kid(t, Right, t.parent[l]) = l)
                BY <2>3, <2>5 DEF r
            <4>. QED BY <4>1, <3>1, <2>3, <2>5, <1>1, UpIs
        <3>3. UpFrom(t, Left, l) = UpFrom(t, Left, x)
            <4>1. t.parent[l] # Nil /\ Kid(t, Left, t.parent[l]) = l
                BY <2>2, <2>3, <2>5 DEF l
            <4>. QED BY <4>1, <3>1, <2>3, <2>5, <1>1, UpIs
        <3>4. Stands(t, walk, l)
            BY <3>2, <3>3, <2>1, <2>4 DEF Stands
        <3>. QED BY <3>1, <3>4, <2>5 DEF l
    <2>6. CASE s = Right /\ r # Nil
        <3>1. r \in Nodes
            BY <2>2, <2>6 DEF Pointer
        <3>2. UpFrom(t, Left, r) = x
            <4>1. ~(Kid(t, Left, t.parent[r]) = r)
                BY <2>3, <2>6 DEF l
            <4>. QED BY <4>1, <3>1, <2>3, <2>6, <1>1, UpIs
        <3>3. UpFrom(t, Right, r) = UpFrom(t, Right, x)
            <4>1. t.parent[r] # Nil /\ Kid(t, Right, t.parent[r]) = r
                BY <2>2, <2>3, <2>6 DEF r
            <4>. QED BY <4>1, <3>1, <2>3, <2>6, <1>1, UpIs
        <3>4. Stands(t, walk, r)
            BY <3>2, <3>3, <2>1, <2>4 DEF Stands
        <3>. QED BY <3>1, <3>4, <2>6 DEF r
    <2>. QED BY <2>5, <2>6 DEF l, r, Side
<1>5. h \in S \cap Nodes /\ \A x \in S \cap Nodes, s \in Side : Kid(t, s, x) \in S \cup {Nil}
    BY <1>2, <1>3, <1>4
<1>. HIDE DEF S, h
<1>6. below[h] \subseteq S
    BY <1>1, <1>5, Downwards
<1>. QED BY <1>6 DEF S, h

(* The neighbours of a node are before and behind it in the order.         *)
LEMMA Between ==
    ASSUME NEW t, NEW below, WellFormed(t, below), NEW walk, WalkOf(t, walk),
           NEW n \in below[t.head]
    PROVE  \E a, b \in Seq(Nodes) :
               /\ walk[t.head] = a \o <<n>> \o b
               /\ Neighbour(t, Left, n) = EndOf(Right, a)
               /\ Neighbour(t, Right, n) = EndOf(Left, b)
<1>. DEFINE l == Kid(t, Left, n)
            r == Kid(t, Right, n)
<1>1. /\ t \in Trees /\ Shape(t, below) /\ Left \in Side /\ Right \in Side
      /\ Opposite(Left) = Right /\ Opposite(Right) = Left
    BY DEF WellFormed, Side, Opposite, Left, Right
<1>2. n \in Nodes /\ Stands(t, walk, n)
    BY AllStand
<1>3. PICK a \in Seq(Nodes), b \in Seq(Nodes) :
         /\ walk[t.head] = a \o walk[n] \o b
         /\ UpFrom(t, Left, n) = EndOf(Right, a)
         /\ UpFrom(t, Right, n) = EndOf(Left, b)
    BY <1>2 DEF Stands
<1>4. /\ walk[n] = walk[l] \o <<n>> \o walk[r]
      /\ l \in Pointer /\ r \in Pointer /\ n # Nil
      /\ walk[l] \in Seq(Nodes) /\ walk[r] \in Seq(Nodes) /\ walk[Nil] = <<>>
    BY <1>1, <1>2, WalkAt
<1>5. (l \in Nodes => walk[l] # <<>>) /\ (r \in Nodes => walk[r] # <<>>)
    BY <1>1, WalkAt
<1>6. /\ Neighbour(t, Left, n) = IF l # Nil THEN EndOf(Right, walk[l]) ELSE EndOf(Right, a)
      /\ Neighbour(t, Right, n) = IF r # Nil THEN EndOf(Left, walk[r]) ELSE EndOf(Left, b)
    <2>1. l # Nil => Extreme(t, Right, l) = EndOf(Right, walk[l])
        BY <1>1, <1>4, ExtremeEnd DEF Pointer
    <2>2. r # Nil => Extreme(t, Left, r) = EndOf(Left, walk[r])
        BY <1>1, <1>4, ExtremeEnd DEF Pointer
    <2>. QED BY <2>1, <2>2, <1>1, <1>3, NeighbourIs
<1>7. \E p, q \in Seq(Nodes) :
          /\ walk[t.head] = p \o <<n>> \o q
          /\ Neighbour(t, Left, n) = EndOf(Right, p)
          /\ Neighbour(t, Right, n) = EndOf(Left, q)
    <2>. DEFINE v == walk[l]
                w == walk[r]
    <2>1. v \in Seq(Nodes) /\ w \in Seq(Nodes) /\ <<n>> \in Seq(Nodes)
        BY <1>2, <1>4
    <2>2. walk[t.head] = a \o Mid(v, n, w) \o b
        BY <1>3, <1>4 DEF Mid
    <2>3. /\ EndOf(Right, a \o v) = IF v = <<>> THEN EndOf(Right, a) ELSE EndOf(Right, v)
          /\ EndOf(Left, w \o b) = IF w = <<>> THEN EndOf(Left, b) ELSE EndOf(Left, w)
        BY <2>1, ConcatEnds
    <2>4. (v = <<>> <=> l = Nil) /\ (w = <<>> <=> r = Nil)
        BY <1>4, <1>5 DEF Pointer
    <2>5. Neighbour(t, Left, n) = EndOf(Right, a \o v) /\ Neighbour(t, Right, n) = EndOf(Left, w \o b)
        BY <2>3, <2>4, <1>6
    <2>. HIDE DEF v, w
    <2>6. n \in Nodes
        BY <1>2
    <2>7. MidIn(a, v, n, w, b)
        BY <2>1, <2>6, Nested
    <2>8. walk[t.head] = Mid(a \o v, n, w \o b)
        BY <2>2, <2>7 DEF MidIn
    <2>9. walk[t.head] = (a \o v) \o <<n>> \o (w \o b)
        BY <2>8 DEF Mid
    <2>. QED BY <2>5, <2>7, <2>9 DEF MidIn
<1>. QED BY <1>7

(* A sequence that lists a set has no node twice.                          *)
LEMMA ListedOnce ==
    ASSUME NEW q, NEW A, Lists(q, A), NEW i \in 1..Len(q), NEW j \in 1..Len(q), q[i] = q[j]
    PROVE  i = j
<1>1. q \in Seq(Nodes) /\ {q[x] : x \in 1..Len(q)} = A /\ Len(q) = Cardinality(A)
    BY DEF Lists
<1>2. Len(q) \in Nat
    BY <1>1
<1>3. IsFiniteSet(1..Len(q)) /\ Cardinality(1..Len(q)) = Len(q)
    <2>1. /\ IsFiniteSet(1..Len(q))
          /\ Cardinality(1..Len(q)) = IF 1 > Len(q) THEN 0 ELSE Len(q) - 1 + 1
        BY <1>2, FS_Interval
    <2>. QED BY <2>1, <1>2
<1>4. q \in [1..Len(q) -> A]
    <2>1. q \in [1..Len(q) -> Nodes]
        BY <1>1, LenProperties
    <2>. QED BY <2>1, <1>1
<1>5. q \in Surjection(1..Len(q), A)
    BY <1>1, <1>4 DEF Surjection
<1>6. q \in Injection(1..Len(q), A)
    BY <1>1, <1>3, <1>5, FS_SurjSameCardinalityImpliesInj
<1>. QED BY <1>6 DEF Injection, IsInjective

(* The node with number i, or end().                                       *)
Nth(q, i) == IF i \in 1..Len(q) THEN q[i] ELSE Nil

LEMMA NthAround ==
    ASSUME NEW a \in Seq(Nodes), NEW n \in Nodes, NEW b \in Seq(Nodes)
    PROVE  LET q == a \o <<n>> \o b
           IN /\ Len(a) + 1 \in 1..Len(q) /\ q[Len(a) + 1] = n
              /\ Nth(q, Len(a)) = EndOf(Right, a)
              /\ Nth(q, Len(a) + 2) = EndOf(Left, b)
<1>. DEFINE q == a \o <<n>> \o b
<1>1. /\ Len(q) = Len(a) + 1 + Len(b) /\ Len(a) \in Nat /\ Len(b) \in Nat
      /\ \A i \in 1..Len(q) : q[i] = IF i <= Len(a) THEN a[i]
                                     ELSE IF i = Len(a) + 1 THEN n ELSE b[i - (Len(a) + 1)]
    BY Join
<1>2. (a = <<>> <=> Len(a) = 0) /\ (b = <<>> <=> Len(b) = 0)
    BY <1>1, EmptySeq
<1>3. Right # Left
    BY DEF Left, Right
<1>. HIDE DEF q
<1>4. Len(a) + 1 \in 1..Len(q) /\ q[Len(a) + 1] = n
    BY <1>1
<1>5. Nth(q, Len(a)) = EndOf(Right, a)
    <2>1. CASE Len(a) = 0
        BY <2>1, <1>2 DEF Nth, EndOf
    <2>2. CASE Len(a) # 0
        <3>1. Len(a) \in 1..Len(q)
            BY <2>2, <1>1
        <3>2. q[Len(a)] = a[Len(a)]
            BY <3>1, <1>1
        <3>. QED BY <3>1, <3>2, <2>2, <1>2, <1>3 DEF Nth, EndOf
    <2>. QED BY <2>1, <2>2
<1>6. Nth(q, Len(a) + 2) = EndOf(Left, b)
    <2>1. CASE Len(b) = 0
        <3>1. Len(a) + 2 \notin 1..Len(q)
            BY <2>1, <1>1
        <3>. QED BY <3>1, <2>1, <1>2 DEF Nth, EndOf
    <2>2. CASE Len(b) # 0
        <3>1. /\ Len(a) + 2 \in 1..Len(q) /\ ~(Len(a) + 2 <= Len(a)) /\ Len(a) + 2 # Len(a) + 1
              /\ (Len(a) + 2) - (Len(a) + 1) = 1
            BY <2>2, <1>1
        <3>2. q[Len(a) + 2] = b[1]
            BY <3>1, <1>1
        <3>. QED BY <3>1, <3>2, <2>2, <1>2 DEF Nth, EndOf
    <2>. QED BY <2>1, <2>2
<1>. QED BY <1>4, <1>5, <1>6 DEF q

(* ++ and -- go to the next and the previous node of the order.            *)
LEMMA IteratorSteps ==
    ASSUME NEW t, NEW below, WellFormed(t, below), NEW i \in 1..Len(InOrder(t))
    PROVE  LET q == InOrder(t)
           IN /\ Neighbour(t, Right, q[i]) = Nth(q, i + 1)
              /\ Neighbour(t, Left, q[i]) = Nth(q, i - 1)
<1>. DEFINE q == InOrder(t)
            n == q[i]
<1>1. t \in Trees /\ Shape(t, below) /\ t.head \in Pointer
    BY DEF WellFormed, Trees
<1>2. PICK walk : WalkOf(t, walk) /\ q = walk[t.head]
    BY <1>1, InOrderIs
<1>3. Lists(q, below[t.head])
    BY <1>1, <1>2, WalkLists
<1>. HIDE DEF q
<1>4. n \in below[t.head]
    BY <1>3 DEF Lists, q
<1>5. n \in Nodes
    BY <1>1, <1>2, <1>4, AllStand
<1>. HIDE DEF n
<1>6. PICK a \in Seq(Nodes), b \in Seq(Nodes) :
         /\ q = a \o <<n>> \o b
         /\ Neighbour(t, Left, n) = EndOf(Right, a)
         /\ Neighbour(t, Right, n) = EndOf(Left, b)
    BY <1>2, <1>4, Between
<1>7. /\ Len(a) + 1 \in 1..Len(q) /\ q[Len(a) + 1] = n
      /\ Nth(q, Len(a)) = EndOf(Right, a)
      /\ Nth(q, Len(a) + 2) = EndOf(Left, b)
    BY <1>5, <1>6, NthAround
<1>8. i = Len(a) + 1
    BY <1>3, <1>7, ListedOnce DEF n, q
<1>9. i + 1 = Len(a) + 2 /\ i - 1 = Len(a)
    BY <1>8
<1>10. Neighbour(t, Right, n) = Nth(q, i + 1) /\ Neighbour(t, Left, n) = Nth(q, i - 1)
    BY <1>6, <1>7, <1>9
<1>. QED BY <1>10 DEF n, q

LEMMA BeginIs ==
    ASSUME NEW t, NEW below, WellFormed(t, below)
    PROVE  begin(t) = Nth(InOrder(t), 1)
<1>. DEFINE q == InOrder(t)
<1>1. t \in Trees /\ Shape(t, below) /\ t.head \in Pointer /\ Left \in Side
    BY DEF WellFormed, Trees, Side
<1>2. PICK walk : WalkOf(t, walk) /\ q = walk[t.head]
    BY <1>1, InOrderIs
<1>. HIDE DEF q
<1>3. CASE t.head = Nil
    <2>1. q = <<>>
        BY <1>2, <1>3 DEF WalkOf
    <2>. QED BY <2>1, <1>3 DEF begin, Nth, q
<1>4. CASE t.head # Nil
    <2>1. t.head \in Nodes
        BY <1>1, <1>4 DEF Pointer
    <2>2. q \in Seq(Nodes) /\ q # <<>>
        <3>1. walk[t.head] \in Seq(Nodes)
            BY <2>1, <1>1, <1>2, WalkAt
        <3>2. \A y \in Nodes : walk[y] # <<>>
            BY <1>1, <1>2, WalkAt
        <3>. QED BY <3>1, <3>2, <2>1, <1>2
    <2>3. begin(t) = EndOf(Left, q)
        BY <2>1, <1>1, <1>2, <1>4, ExtremeEnd DEF begin
    <2>4. Len(q) \in Nat \ {0}
        BY <2>2, EmptySeq
    <2>5. 1 \in 1..Len(q)
        BY <2>4
    <2>. QED BY <2>2, <2>3, <2>5 DEF EndOf, Nth, q
<1>. QED BY <1>3, <1>4

-------------------------------------------------------------------------------
(* find() *)

Less(k) == {x \in Nodes : key[x] < k}
More(k) == {x \in Nodes : key[x] > k}
NotLess(k) == {x \in Nodes : key[x] >= k}

(* All before v is less than k, and all behind it more.                    *)
Cut(q, k, v) == \E a \in Seq(Less(k)), b \in Seq(More(k)) : q = a \o v \o b

LEMMA SeqOfPart ==
    ASSUME NEW A, NEW B, A \subseteq B, NEW q \in Seq(A)
    PROVE  q \in Seq(B)
BY SeqMonotonic

(* The first loop leaves smaller nodes before and larger ones behind what  *)
(* is below the node it is at.                                             *)
LEMMA DescendCut ==
    ASSUME NEW t \in Trees, NEW below, Shape(t, below), key \in [Nodes -> Int],
           Ordered(t, below, key), NEW walk, WalkOf(t, walk), NEW k \in Int,
           NEW n \in Nodes, NEW q, Cut(q, k, walk[n])
    PROVE  Cut(q, k, walk[Descend(t, k, n)])
<1>. DEFINE S == {x \in Pointer : x # Nil /\ Cut(q, k, walk[x])
                                      => Cut(q, k, walk[Descend(t, k, x)])}
<1>. Left \in Side /\ Right \in Side
    BY DEF Side
<1>1. Nil \in S
    BY NilIsNoNode
<1>2. ASSUME NEW x \in Nodes, \A s \in Side : Kid(t, s, x) \in S PROVE x \in S
    <2>. DEFINE l == Kid(t, Left, x)
                r == Kid(t, Right, x)
    <2>1. SUFFICES ASSUME Cut(q, k, walk[x]) PROVE Cut(q, k, walk[Descend(t, k, x)])
        BY NilIsNoNode
    <2>2. Descend(t, k, x) = IF k < key[x] /\ l # Nil THEN Descend(t, k, l)
                             ELSE IF key[x] < k /\ r # Nil THEN Descend(t, k, r) ELSE x
        BY DescendIs
    <2>3. PICK a \in Seq(Less(k)), b \in Seq(More(k)) : q = a \o walk[x] \o b
        BY <2>1 DEF Cut
    <2>4. /\ walk[x] = Mid(walk[l], x, walk[r])
          /\ walk[l] \in Seq(below[l]) /\ walk[r] \in Seq(below[r])
          /\ walk[l] \in Seq(Nodes) /\ walk[r] \in Seq(Nodes)
        BY WalkAt DEF Mid
    <2>5. /\ below[l] \in SUBSET Nodes /\ below[r] \in SUBSET Nodes
          /\ \A y \in below[l] : key[y] <= key[x]
          /\ \A y \in below[r] : key[x] <= key[y]
          /\ l \in S /\ r \in S
        BY <1>2, ShapeAt DEF Ordered
    <2>6. a \in Seq(Nodes) /\ b \in Seq(Nodes)
        BY SeqOfPart DEF Less, More
    <2>. HIDE DEF l, r
    <2>7. MidIn(a, walk[l], x, walk[r], b)
        BY <2>4, <2>6, Nested
    <2>8. CASE k < key[x] /\ l # Nil
        <3>1. walk[r] \in Seq(More(k)) /\ <<x>> \in Seq(More(k))
            <4>1. below[r] \subseteq More(k) /\ x \in More(k)
                BY <2>5, <2>8 DEF More
            <4>2. walk[r] \in Seq(More(k))
                BY <4>1, <2>4, SeqOfPart
            <4>. QED BY <4>1, <4>2
        <3>2. walk[r] \o b \in Seq(More(k))
            BY <3>1, ConcatProperties
        <3>3. <<x>> \o (walk[r] \o b) \in Seq(More(k))
            BY <3>1, <3>2, ConcatProperties
        <3>4. q = a \o walk[l] \o (<<x>> \o (walk[r] \o b))
            BY <2>3, <2>4, <2>7 DEF MidIn
        <3>5. Cut(q, k, walk[l])
            BY <3>3, <3>4 DEF Cut
        <3>. QED BY <3>5, <2>2, <2>5, <2>8
    <2>9. CASE key[x] < k /\ r # Nil
        <3>1. walk[l] \in Seq(Less(k)) /\ <<x>> \in Seq(Less(k))
            <4>1. below[l] \subseteq Less(k) /\ x \in Less(k)
                BY <2>5, <2>9 DEF Less
            <4>2. walk[l] \in Seq(Less(k))
                BY <4>1, <2>4, SeqOfPart
            <4>. QED BY <4>1, <4>2
        <3>2. a \o walk[l] \in Seq(Less(k))
            BY <3>1, ConcatProperties
        <3>3. (a \o walk[l]) \o <<x>> \in Seq(Less(k))
            BY <3>1, <3>2, ConcatProperties
        <3>4. q = ((a \o walk[l]) \o <<x>>) \o walk[r] \o b
            BY <2>3, <2>4, <2>7 DEF MidIn
        <3>5. Cut(q, k, walk[r])
            BY <3>3, <3>4 DEF Cut
        <3>6. Descend(t, k, x) = Descend(t, k, r)
            BY <2>2, <2>9
        <3>. QED BY <3>5, <3>6, <2>5, <2>9
    <2>10. CASE ~(k < key[x] /\ l # Nil) /\ ~(key[x] < k /\ r # Nil)
        BY <2>1, <2>2, <2>10
    <2>. QED BY <2>8, <2>9, <2>10
<1>3. Pointer \subseteq S
    BY <1>1, <1>2, TreeInduction
<1>. QED BY <1>3, NilIsNoNode

(* The second loop of find(), with q the node found so far, from m on.     *)
Scan(t, k, q, m) ==
    LET scan[p \in Nodes \X Pointer] ==
            IF p[2] = Nil THEN p[1]
            ELSE CASE key[p[2]] = k -> scan[<<p[2], Kid(t, Left, p[2])>>]
                   [] key[p[2]] < k -> scan[<<p[1], Kid(t, Right, p[2])>>]
                   [] key[p[2]] > k -> Nil
    IN scan[<<q, m>>]

LEMMA ScanIs ==
    ASSUME NEW t \in Trees, key \in [Nodes -> Int], NEW k \in Int
    PROVE  /\ \A n : FirstEqual(t, k, n) = Scan(t, k, n, Kid(t, Left, n))
           /\ \A q \in Nodes : Scan(t, k, q, Nil) = q
           /\ \A q \in Nodes, m \in Nodes :
                 /\ key[m] = k => Scan(t, k, q, m) = Scan(t, k, m, Kid(t, Left, m))
                 /\ key[m] < k => Scan(t, k, q, m) = Scan(t, k, q, Kid(t, Right, m))
<1>. DEFINE At == Nodes \X Pointer
            Step(f, p) == IF p[2] = Nil THEN p[1]
                          ELSE CASE key[p[2]] = k -> f[<<p[2], Kid(t, Left, p[2])>>]
                                 [] key[p[2]] < k -> f[<<p[1], Kid(t, Right, p[2])>>]
                                 [] key[p[2]] > k -> Nil
            F == CHOOSE f : f = [p \in At |-> Step(f, p)]
            stop == {p \in At : p[2] = Nil \/ (p[2] \in Nodes /\ key[p[2]] > k)}
            next == [p \in At |-> IF p \in stop THEN p
                                  ELSE IF key[p[2]] = k THEN <<p[2], Kid(t, Left, p[2])>>
                                  ELSE <<p[1], Kid(t, Right, p[2])>>]
            out == [p \in At |-> IF p[2] = Nil THEN p[1] ELSE Nil]
<1>. Left \in Side /\ Right \in Side
    BY DEF Side
<1>1. next \in [At -> At] /\ stop \in SUBSET At
    BY KidType DEF Pointer
<1>2. PICK g : IsLoop(g, At, next, stop, out)
    <2>. HIDE DEF next, stop, out, At
    <2>. QED BY <1>1, LoopValue
<1>3. ASSUME NEW p \in At PROVE Step(g, p) = IF p \in stop THEN out[p] ELSE g[next[p]]
    <2>1. CASE p[2] = Nil
        BY <2>1
    <2>2. CASE p[2] \in Nodes
        <3>1. key[p[2]] \in Int /\ p[2] # Nil
            BY <2>2, NilIsNoNode
        <3>2. \/ key[p[2]] = k /\ ~(key[p[2]] < k) /\ ~(key[p[2]] > k)
              \/ ~(key[p[2]] = k) /\ key[p[2]] < k /\ ~(key[p[2]] > k)
              \/ ~(key[p[2]] = k) /\ ~(key[p[2]] < k) /\ key[p[2]] > k
            BY <3>1
        <3>. QED BY <3>1, <3>2, <2>2
    <2>. QED BY <2>1, <2>2 DEF Pointer
<1>4. g = [p \in At |-> Step(g, p)]
    BY <1>2, <1>3 DEF IsLoop
<1>5. F = [p \in At |-> Step(F, p)]
    BY <1>4
<1>6. \A n : FirstEqual(t, k, n) = F[<<n, Kid(t, Left, n)>>]
    BY DEF FirstEqual
<1>7. \A q, m : Scan(t, k, q, m) = F[<<q, m>>]
    BY DEF Scan
<1>. HIDE DEF F
<1>8. ASSUME NEW q \in Nodes PROVE F[<<q, Nil>>] = q
    <2>1. <<q, Nil>> \in At
        BY NilIsNoNode
    <2>. QED BY <2>1, <1>5
<1>9. ASSUME NEW q \in Nodes, NEW m \in Nodes
      PROVE  /\ key[m] = k => F[<<q, m>>] = F[<<m, Kid(t, Left, m)>>]
             /\ key[m] < k => F[<<q, m>>] = F[<<q, Kid(t, Right, m)>>]
    <2>1. <<q, m>> \in At /\ m # Nil /\ key[m] \in Int
        BY NilIsNoNode
    <2>2. F[<<q, m>>] = Step(F, <<q, m>>)
        BY <1>5, <2>1
    <2>3. CASE key[m] = k
        <3>1. ~(key[m] < k) /\ ~(key[m] > k)
            BY <2>1, <2>3
        <3>. QED BY <3>1, <2>1, <2>2, <2>3
    <2>4. CASE key[m] < k
        <3>1. ~(key[m] = k) /\ ~(key[m] > k)
            BY <2>1, <2>4
        <3>. QED BY <3>1, <2>1, <2>2, <2>4
    <2>. QED BY <2>3, <2>4
<1>10. \A n : FirstEqual(t, k, n) = Scan(t, k, n, Kid(t, Left, n))
    BY <1>6, <1>7
<1>11. \A q \in Nodes : Scan(t, k, q, Nil) = q
    BY <1>7, <1>8
<1>12. \A q \in Nodes, m \in Nodes :
          /\ key[m] = k => Scan(t, k, q, m) = Scan(t, k, m, Kid(t, Left, m))
          /\ key[m] < k => Scan(t, k, q, m) = Scan(t, k, q, Kid(t, Right, m))
    <2>1. ASSUME NEW q \in Nodes, NEW m \in Nodes
          PROVE  /\ key[m] = k => Scan(t, k, q, m) = Scan(t, k, m, Kid(t, Left, m))
                 /\ key[m] < k => Scan(t, k, q, m) = Scan(t, k, q, Kid(t, Right, m))
        <3>1. /\ key[m] = k => F[<<q, m>>] = F[<<m, Kid(t, Left, m)>>]
              /\ key[m] < k => F[<<q, m>>] = F[<<q, Kid(t, Right, m)>>]
            BY <1>9
        <3>2. /\ Scan(t, k, q, m) = F[<<q, m>>]
              /\ Scan(t, k, m, Kid(t, Left, m)) = F[<<m, Kid(t, Left, m)>>]
              /\ Scan(t, k, q, Kid(t, Right, m)) = F[<<q, Kid(t, Right, m)>>]
            BY <1>7
        <3>. QED BY <3>1, <3>2
    <2>. QED BY <2>1
<1>. QED BY <1>10, <1>11, <1>12

(* f is the first node that is not less than k.                            *)
Heads(q, k, f) ==
    f \in NotLess(k) /\ \E a \in Seq(Less(k)), b \in Seq(NotLess(k)) : q = Mid(a, f, b)

(* The second loop, with a before and p and b behind what is below m.      *)
LEMMA ScanHeads ==
    ASSUME NEW t \in Trees, NEW below, Shape(t, below), key \in [Nodes -> Int],
           Ordered(t, below, key), NEW walk, WalkOf(t, walk), NEW k \in Int,
           NEW n \in Pointer, NEW q \in Nodes, key[q] = k, \A y \in below[n] : key[y] <= k,
           NEW c \in Seq(Less(k)), NEW d \in Seq(NotLess(k))
    PROVE  Heads(c \o walk[n] \o (<<q>> \o d), k, Scan(t, k, q, n))
<1>. DEFINE Case(m, p, a, b) == Heads(a \o walk[m] \o (<<p>> \o b), k, Scan(t, k, p, m))
            S == {m \in Pointer : (\A y \in below[m] : key[y] <= k) =>
                    \A p \in Nodes, a \in Seq(Less(k)), b \in Seq(NotLess(k)) :
                        key[p] = k => Case(m, p, a, b)}
<1>. Left \in Side /\ Right \in Side
    BY DEF Side
<1>1. Nil \in S
    <2>1. ASSUME NEW p \in Nodes, NEW a \in Seq(Less(k)), NEW b \in Seq(NotLess(k)), key[p] = k
          PROVE  Case(Nil, p, a, b)
        <3>1. walk[Nil] = <<>> /\ Scan(t, k, p, Nil) = p
            BY ScanIs DEF WalkOf
        <3>2. a \in Seq(Nodes) /\ b \in Seq(Nodes)
            BY SeqOfPart DEF Less, NotLess
        <3>3. a \o <<>> = a
            BY <3>2, ConcatEmptySeq
        <3>4. a \o (<<p>> \o b) = Mid(a, p, b)
            <4>1. <<p>> \in Seq(Nodes)
                OBVIOUS
            <4>2. (a \o <<p>>) \o b = a \o (<<p>> \o b)
                BY <4>1, <3>2, ConcatAssociative
            <4>. QED BY <4>2 DEF Mid
        <3>5. p \in NotLess(k)
            BY <2>1 DEF NotLess
        <3>6. Heads(Mid(a, p, b), k, p)
            BY <3>5 DEF Heads
        <3>. QED BY <3>1, <3>3, <3>4, <3>6
    <2>. QED BY <2>1, NilIsNoNode
<1>2. ASSUME NEW x \in Nodes, \A s \in Side : Kid(t, s, x) \in S PROVE x \in S
    <2>. DEFINE l == Kid(t, Left, x)
                r == Kid(t, Right, x)
    <2>1. SUFFICES ASSUME \A y \in below[x] : key[y] <= k, NEW p \in Nodes,
                          NEW a \in Seq(Less(k)), NEW b \in Seq(NotLess(k)), key[p] = k
                   PROVE  Case(x, p, a, b)
        BY NilIsNoNode
    <2>2. /\ walk[x] = Mid(walk[l], x, walk[r])
          /\ walk[l] \in Seq(below[l]) /\ walk[r] \in Seq(below[r])
          /\ walk[l] \in Seq(Nodes) /\ walk[r] \in Seq(Nodes)
        BY WalkAt DEF Mid
    <2>3. /\ below[l] \in SUBSET Nodes /\ below[r] \in SUBSET Nodes
          /\ \A y \in below[l] : key[y] <= key[x] /\ key[y] <= k
          /\ \A y \in below[r] : key[x] <= key[y] /\ key[y] <= k
          /\ l \in S /\ r \in S /\ key[x] <= k /\ key[x] \in Int
        BY <1>2, <2>1, ShapeAt DEF Ordered
    <2>4. /\ \A u \in Nodes, v \in Seq(Less(k)), w \in Seq(NotLess(k)) :
                key[u] = k => Case(l, u, v, w) /\ Case(r, u, v, w)
        BY <2>3
    <2>5. a \in Seq(Nodes) /\ b \in Seq(Nodes)
        BY SeqOfPart DEF Less, NotLess
    <2>. DEFINE e == <<p>> \o b
    <2>6. e \in Seq(Nodes) /\ e \in Seq(NotLess(k))
        <3>1. <<p>> \in Seq(NotLess(k))
            <4>1. p \in NotLess(k)
                BY <2>1 DEF NotLess
            <4>. QED BY <4>1
        <3>2. e \in Seq(NotLess(k))
            BY <3>1, ConcatProperties
        <3>. HIDE DEF e
        <3>. QED BY <3>2, SeqOfPart DEF NotLess
    <2>. HIDE DEF l, r, e
    <2>7. MidIn(a, walk[l], x, walk[r], e)
        BY <2>2, <2>5, <2>6, Nested
    <2>8. CASE key[x] = k
        <3>1. walk[r] \o e \in Seq(NotLess(k))
            <4>1. below[r] \subseteq NotLess(k)
                BY <2>3, <2>8 DEF NotLess
            <4>2. walk[r] \in Seq(NotLess(k))
                BY <4>1, <2>2, SeqOfPart
            <4>. QED BY <4>2, <2>6, ConcatProperties
        <3>2. Case(l, x, a, walk[r] \o e)
            BY <3>1, <2>4, <2>8
        <3>3. a \o walk[x] \o e = a \o walk[l] \o (<<x>> \o (walk[r] \o e))
            BY <2>2, <2>7 DEF MidIn
        <3>4. Scan(t, k, p, x) = Scan(t, k, x, l)
            BY <2>8, ScanIs DEF l
        <3>. QED BY <3>2, <3>3, <3>4 DEF e
    <2>9. CASE key[x] # k
        <3>1. (a \o walk[l]) \o <<x>> \in Seq(Less(k))
            <4>1. below[l] \subseteq Less(k) /\ x \in Less(k)
                BY <2>3, <2>9 DEF Less
            <4>2. walk[l] \in Seq(Less(k)) /\ <<x>> \in Seq(Less(k))
                <5>1. walk[l] \in Seq(Less(k))
                    BY <4>1, <2>2, SeqOfPart
                <5>. QED BY <4>1, <5>1
            <4>3. a \o walk[l] \in Seq(Less(k))
                BY <4>2, ConcatProperties
            <4>. QED BY <4>2, <4>3, ConcatProperties
        <3>2. Case(r, p, (a \o walk[l]) \o <<x>>, b)
            BY <3>1, <2>1, <2>4
        <3>3. a \o walk[x] \o e = ((a \o walk[l]) \o <<x>>) \o walk[r] \o e
            BY <2>2, <2>7 DEF MidIn
        <3>4. Scan(t, k, p, x) = Scan(t, k, p, r)
            <4>1. key[x] < k
                BY <2>3, <2>9
            <4>. QED BY <4>1, ScanIs DEF r
        <3>. QED BY <3>2, <3>3, <3>4 DEF e
    <2>. QED BY <2>8, <2>9
<1>. HIDE DEF Case
<1>3. Pointer \subseteq S
    BY <1>1, <1>2, TreeInduction
<1>4. Case(n, q, c, d)
    BY <1>3
<1>. QED BY <1>4 DEF Case

(* find() ends on the first node that is not less than k, or there is none *)
(* equal to k and it ends on the last that is less.                        *)
LEMMA FindIs ==
    ASSUME NEW t, NEW below, WellFormed(t, below), key \in [Nodes -> Int],
           Ordered(t, below, key), NEW walk, WalkOf(t, walk), NEW k \in Int, t.head # Nil
    PROVE  LET f == find(t, k, t.head)
           IN \/ Heads(walk[t.head], k, f)
              \/ f \in Less(k) /\ \E a \in Seq(Less(k)), b \in Seq(More(k)) :
                                      walk[t.head] = Mid(a, f, b)
<1>. DEFINE q == walk[t.head]
            m == Descend(t, k, t.head)
            l == Kid(t, Left, m)
            r == Kid(t, Right, m)
<1>1. /\ t \in Trees /\ Shape(t, below) /\ t.head \in Pointer /\ t.head \in Nodes
      /\ Left \in Side /\ Right \in Side /\ Opposite(Left) = Right
    BY DEF WellFormed, Trees, Pointer, Side, Opposite
<1>2. /\ m \in below[t.head]
      /\ k < key[m] => l = Nil
      /\ key[m] < k => r = Nil
    BY <1>1, DescendBelow
<1>3. m \in Nodes
    BY <1>1, <1>2, AllStand
<1>4. Cut(q, k, walk[m])
    <2>1. q \in Seq(Nodes) /\ <<>> \in Seq(Less(k)) /\ <<>> \in Seq(More(k))
        <3>1. walk[t.head] \in Seq(Nodes)
            BY <1>1, WalkAt
        <3>. QED BY <3>1
    <2>2. q = <<>> \o q \o <<>>
        BY <2>1, Concat
    <2>3. Cut(q, k, walk[t.head])
        BY <2>1, <2>2 DEF Cut
    <2>. QED BY <2>3, <1>1, DescendCut
<1>. HIDE DEF q, m
<1>5. PICK a \in Seq(Less(k)), b \in Seq(More(k)) : q = a \o walk[m] \o b
    BY <1>4 DEF Cut
<1>6. /\ walk[m] = Mid(walk[l], m, walk[r])
      /\ walk[l] \in Seq(below[l]) /\ walk[r] \in Seq(below[r])
      /\ walk[l] \in Seq(Nodes) /\ walk[r] \in Seq(Nodes) /\ walk[Nil] = <<>>
      /\ l \in Pointer /\ r \in Pointer
    <2>1. /\ walk[l] \in Seq(below[l]) /\ walk[r] \in Seq(below[r])
          /\ walk[l] \in Seq(Nodes) /\ walk[r] \in Seq(Nodes)
        BY <1>1, <1>3, WalkAt
    <2>4. walk[m] = Mid(walk[l], m, walk[r])
        BY <1>3 DEF WalkOf, Mid
    <2>2. walk[Nil] = <<>>
        BY DEF WalkOf
    <2>3. l \in Pointer /\ r \in Pointer
        BY <1>1, <1>3, KidType
    <2>. QED BY <2>1, <2>2, <2>3, <2>4
<1>7. /\ below[l] \in SUBSET Nodes /\ below[r] \in SUBSET Nodes
      /\ \A y \in below[l] : key[y] <= key[m]
      /\ \A y \in below[r] : key[m] <= key[y]
      /\ key[m] \in Int
    <2>1. below[l] \in SUBSET Nodes /\ below[r] \in SUBSET Nodes
        BY <1>1, <1>3, ShapeAt
    <2>. QED BY <2>1, <1>3 DEF Ordered
<1>8. a \in Seq(Nodes) /\ b \in Seq(Nodes) /\ b \in Seq(NotLess(k))
    <2>1. Less(k) \subseteq Nodes /\ More(k) \subseteq Nodes /\ More(k) \subseteq NotLess(k)
        BY DEF Less, More, NotLess
    <2>. QED BY <2>1, SeqOfPart
<1>9. MidIn(a, walk[l], m, walk[r], b)
    BY <1>3, <1>6, <1>8, Nested
<1>10. find(t, k, t.head) = IF key[m] = k THEN FirstEqual(t, k, m) ELSE m
    BY DEF find, m
<1>11. CASE key[m] = k
    <2>1. walk[r] \o b \in Seq(NotLess(k))
        <3>1. below[r] \subseteq NotLess(k)
            BY <1>7, <1>11 DEF NotLess
        <3>2. walk[r] \in Seq(NotLess(k))
            BY <3>1, <1>6, SeqOfPart
        <3>. QED BY <3>2, <1>8, ConcatProperties
    <2>2. \A y \in below[l] : key[y] <= k
        BY <1>7, <1>11
    <2>3. FirstEqual(t, k, m) = Scan(t, k, m, l)
        BY <1>1, ScanIs
    <2>. HIDE DEF l, r
    <2>4. Heads(a \o walk[l] \o (<<m>> \o (walk[r] \o b)), k, Scan(t, k, m, l))
        BY <2>1, <2>2, <1>1, <1>3, <1>6, <1>11, ScanHeads
    <2>5. q = a \o walk[l] \o (<<m>> \o (walk[r] \o b))
        BY <1>5, <1>6, <1>9 DEF MidIn
    <2>. QED BY <2>3, <2>4, <2>5, <1>10, <1>11 DEF q
<1>12. CASE k < key[m]
    <2>1. walk[r] \o b \in Seq(NotLess(k)) /\ m \in NotLess(k)
        <3>1. below[r] \subseteq NotLess(k) /\ m \in NotLess(k)
            BY <1>3, <1>7, <1>12 DEF NotLess
        <3>2. walk[r] \in Seq(NotLess(k))
            BY <3>1, <1>6, SeqOfPart
        <3>. QED BY <3>1, <3>2, <1>8, ConcatProperties
    <2>2. a \o walk[l] = a
        BY <1>2, <1>6, <1>8, <1>12, ConcatEmptySeq
    <2>. HIDE DEF l, r
    <2>3. q = Mid(a, m, walk[r] \o b)
        BY <2>2, <1>5, <1>6, <1>9 DEF MidIn
    <2>4. Heads(q, k, m)
        BY <2>1, <2>3 DEF Heads
    <2>5. find(t, k, t.head) = m
        BY <1>7, <1>10, <1>12
    <2>. QED BY <2>4, <2>5 DEF q
<1>13. CASE key[m] < k
    <2>1. a \o walk[l] \in Seq(Less(k)) /\ m \in Less(k)
        <3>1. below[l] \subseteq Less(k) /\ m \in Less(k)
            BY <1>3, <1>7, <1>13 DEF Less
        <3>2. walk[l] \in Seq(Less(k))
            BY <3>1, <1>6, SeqOfPart
        <3>. QED BY <3>1, <3>2, ConcatProperties
    <2>2. walk[r] \o b = b
        BY <1>2, <1>6, <1>8, <1>13, ConcatEmptySeq
    <2>. HIDE DEF l, r
    <2>3. q = Mid(a \o walk[l], m, b)
        BY <2>2, <1>5, <1>6, <1>9 DEF MidIn
    <2>4. find(t, k, t.head) = m
        BY <1>7, <1>10, <1>13
    <2>. QED BY <2>1, <2>3, <2>4 DEF q
<1>. QED BY <1>7, <1>11, <1>12, <1>13

(* How many are less than k, when the smaller ones come first.             *)
FirstLess(q, k, a, f, b) ==
    /\ Len(q) = Len(a) + 1 + Len(b) /\ Len(a) \in Nat /\ Len(b) \in Nat
    /\ q[Len(a) + 1] = f
    /\ Cardinality({i \in 1..Len(q) : key[q[i]] < k}) =
           IF key[f] < k THEN Len(a) + 1 ELSE Len(a)
    /\ \A i \in 1..Len(q) : i <= Len(a) => key[q[i]] < k
    /\ \A i \in 1..Len(q) : i > Len(a) + 1 => q[i] = b[i - (Len(a) + 1)]

LEMMA LessFirst ==
    ASSUME key \in [Nodes -> Int], NEW k \in Int, NEW a \in Seq(Less(k)),
           NEW f \in Nodes, NEW b \in Seq(NotLess(k))
    PROVE  FirstLess(Mid(a, f, b), k, a, f, b)
<1>. DEFINE q == Mid(a, f, b)
            p == IF key[f] < k THEN Len(a) + 1 ELSE Len(a)
<1>1. a \in Seq(Nodes) /\ b \in Seq(Nodes)
    BY SeqOfPart DEF Less, NotLess
<1>2. /\ Len(q) = Len(a) + 1 + Len(b) /\ Len(a) \in Nat /\ Len(b) \in Nat
      /\ \A i \in 1..Len(q) : q[i] = IF i <= Len(a) THEN a[i]
                                     ELSE IF i = Len(a) + 1 THEN f ELSE b[i - (Len(a) + 1)]
    BY <1>1, Join DEF Mid
<1>. HIDE DEF q
<1>3. ASSUME NEW i \in 1..Len(q), i <= Len(a) PROVE key[q[i]] < k
    <2>1. i \in 1..Len(a) /\ q[i] = a[i]
        BY <1>2, <1>3
    <2>2. a[i] \in Less(k)
        BY <2>1, ElementOfSeq
    <2>. QED BY <2>1, <2>2 DEF Less
<1>4. ASSUME NEW i \in 1..Len(q), i > Len(a) + 1
      PROVE  ~(key[q[i]] < k) /\ q[i] = b[i - (Len(a) + 1)]
    <2>. DEFINE j == i - (Len(a) + 1)
    <2>1. j \in 1..Len(b) /\ q[i] = b[j]
        BY <1>2, <1>4
    <2>. HIDE DEF j
    <2>2. b[j] \in NotLess(k)
        BY <2>1, ElementOfSeq
    <2>3. key[b[j]] >= k /\ key[b[j]] \in Int
        BY <2>2 DEF NotLess
    <2>. QED BY <2>1, <2>3 DEF j
<1>5. Len(a) + 1 \in 1..Len(q) /\ q[Len(a) + 1] = f
    BY <1>2
<1>6. {i \in 1..Len(q) : key[q[i]] < k} = 1..p
    <2>1. ASSUME NEW i \in 1..Len(q) PROVE key[q[i]] < k <=> i <= p
        <3>1. CASE i <= Len(a)
            <4>1. i <= p
                BY <3>1, <1>2
            <4>. QED BY <4>1, <3>1, <1>3
        <3>2. CASE i = Len(a) + 1
            <4>1. q[i] = f
                BY <3>2, <1>5
            <4>2. CASE key[f] < k
                BY <4>1, <4>2, <3>2, <1>2
            <4>3. CASE ~(key[f] < k)
                <5>1. p = Len(a)
                    BY <4>3
                <5>2. ~(i <= Len(a))
                    BY <3>2, <1>2
                <5>. QED BY <5>1, <5>2, <4>1, <4>3
            <4>. QED BY <4>2, <4>3
        <3>3. CASE i > Len(a) + 1
            <4>1. ~(i <= p)
                BY <3>3, <1>2
            <4>. QED BY <4>1, <3>3, <1>4
        <3>. QED BY <3>1, <3>2, <3>3, <1>2
    <2>2. p \in 0..Len(q)
        BY <1>2
    <2>. HIDE DEF p
    <2>. QED BY <2>1, <2>2, <1>2
<1>7. Cardinality(1..p) = p
    <2>1. p \in Nat
        BY <1>2
    <2>. HIDE DEF p
    <2>2. Cardinality(1..p) = IF 1 > p THEN 0 ELSE p - 1 + 1
        BY <2>1, FS_Interval
    <2>. QED BY <2>1, <2>2
<1>. HIDE DEF p
<1>8. Cardinality({i \in 1..Len(q) : key[q[i]] < k}) = p
    BY <1>6, <1>7
<1>9. /\ \A i \in 1..Len(q) : i <= Len(a) => key[q[i]] < k
      /\ \A i \in 1..Len(q) : i > Len(a) + 1 => q[i] = b[i - (Len(a) + 1)]
    BY <1>3, <1>4
<1>. QED BY <1>2, <1>5, <1>8, <1>9 DEF q, p, FirstLess

LEMMA GoodFinds == IInv => FindsFirst
<1>1. SUFFICES ASSUME IInv, pc = "idle", tree.head # Nil, NEW x \in Nodes
               PROVE  LET k == key[x]
                          order == InOrder(tree)
                          less == {i \in 1..Len(order) : key[order[i]] < k}
                          place == Cardinality(less)
                          found == find(tree, k, tree.head)
                      IN \/ place < Len(order) /\ found = order[place + 1]
                         \/ /\ \A i \in 1..Len(order) : key[order[i]] # k
                            /\ place > 0 /\ found = order[place]
    BY DEF FindsFirst
<1>. DEFINE k == key[x]
            q == InOrder(tree)
            place == Cardinality({i \in 1..Len(q) : key[q[i]] < k})
            f == find(tree, k, tree.head)
<1>2. key \in [Nodes -> Int]
    BY <1>1 DEF IInv
<1>3. PICK below : WellFormed(tree, below) /\ Ordered(tree, below, key)
    BY <1>1 DEF IInv, Good
<1>4. PICK walk : WalkOf(tree, walk) /\ q = walk[tree.head]
    <2>1. tree \in Trees /\ Shape(tree, below)
        BY <1>3 DEF WellFormed
    <2>. QED BY <2>1, InOrderIs
<1>5. k \in Int
    BY <1>2
<1>. HIDE DEF k, q
<1>6. \/ Heads(walk[tree.head], k, f)
      \/ f \in Less(k) /\ \E a \in Seq(Less(k)), b \in Seq(More(k)) :
                              walk[tree.head] = Mid(a, f, b)
    BY <1>1, <1>2, <1>3, <1>4, <1>5, FindIs
<1>. HIDE DEF f
<1>7. CASE Heads(walk[tree.head], k, f)
    <2>1. PICK a \in Seq(Less(k)), b \in Seq(NotLess(k)) : q = Mid(a, f, b)
        BY <1>4, <1>7 DEF Heads
    <2>2. f \in Nodes /\ ~(key[f] < k)
        <3>1. f \in Nodes /\ key[f] >= k
            BY <1>7 DEF Heads, NotLess
        <3>. QED BY <3>1, <1>2, <1>5
    <2>3. /\ Len(q) = Len(a) + 1 + Len(b) /\ Len(a) \in Nat /\ Len(b) \in Nat
          /\ q[Len(a) + 1] = f
          /\ Cardinality({i \in 1..Len(q) : key[q[i]] < k}) = Len(a)
        <3>2. f \in Nodes
            BY <2>2
        <3>1. FirstLess(Mid(a, f, b), k, a, f, b)
            BY <1>2, <1>5, <3>2, LessFirst
        <3>. QED BY <3>1, <2>1, <2>2 DEF FirstLess
    <2>4. place < Len(q) /\ f = q[place + 1]
        BY <2>3
    <2>. QED BY <2>4 DEF k, q, f
<1>8. ASSUME f \in Less(k), NEW a \in Seq(Less(k)), NEW b \in Seq(More(k)), q = Mid(a, f, b)
      PROVE  /\ \A i \in 1..Len(q) : key[q[i]] # k
             /\ place > 0 /\ f = q[place]
    <2>1. f \in Nodes /\ key[f] < k
        BY <1>8 DEF Less
    <2>2. b \in Seq(NotLess(k))
        <3>1. More(k) \subseteq NotLess(k)
            BY <1>2, <1>5 DEF More, NotLess
        <3>. QED BY <3>1, SeqOfPart
    <2>3. FirstLess(q, k, a, f, b)
        BY <1>2, <1>5, <1>8, <2>1, <2>2, LessFirst
    <2>4. /\ Len(q) = Len(a) + 1 + Len(b) /\ Len(a) \in Nat /\ Len(b) \in Nat
          /\ q[Len(a) + 1] = f
          /\ place = Len(a) + 1
          /\ \A i \in 1..Len(q) : i <= Len(a) => key[q[i]] < k
          /\ \A i \in 1..Len(q) : i > Len(a) + 1 => q[i] = b[i - (Len(a) + 1)]
        BY <2>1, <2>3 DEF FirstLess
    <2>. HIDE DEF place
    <2>5. ASSUME NEW i \in 1..Len(q) PROVE key[q[i]] # k
        <3>1. CASE i <= Len(a)
            BY <3>1, <2>4, <1>5
        <3>2. CASE i = Len(a) + 1
            BY <3>2, <2>1, <2>4, <1>5
        <3>3. CASE i > Len(a) + 1
            <4>. DEFINE j == i - (Len(a) + 1)
            <4>1. j \in 1..Len(b) /\ q[i] = b[j]
                BY <3>3, <2>4
            <4>. HIDE DEF j
            <4>2. b[j] \in More(k)
                BY <4>1, ElementOfSeq
            <4>3. key[b[j]] > k /\ key[b[j]] \in Int
                BY <4>2, <1>2 DEF More
            <4>. QED BY <4>1, <4>3, <1>5
        <3>. QED BY <3>1, <3>2, <3>3, <2>4
    <2>6. place > 0 /\ f = q[place]
        BY <2>4
    <2>. QED BY <2>5, <2>6
<1>9. CASE f \in Less(k) /\ \E a \in Seq(Less(k)), b \in Seq(More(k)) :
                              walk[tree.head] = Mid(a, f, b)
    <2>1. /\ \A i \in 1..Len(q) : key[q[i]] # k
          /\ place > 0 /\ f = q[place]
        BY <1>4, <1>8, <1>9
    <2>. QED BY <2>1 DEF k, q, f
<1>. QED BY <1>6, <1>7, <1>9

LEMMA GoodFollows == IInv => IteratorsFollowOrder
<1>1. SUFFICES ASSUME IInv PROVE IteratorsFollowOrder
    OBVIOUS
<1>2. PICK below : WellFormed(tree, below)
    BY <1>1 DEF IInv, Good
<1>3. FindsFirst
    BY <1>1, GoodFinds
<1>4. begin(tree) = Nth(InOrder(tree), 1)
    BY <1>2, BeginIs
<1>5. \A i \in 1..Len(InOrder(tree)) :
          /\ Neighbour(tree, Right, InOrder(tree)[i]) = Nth(InOrder(tree), i + 1)
          /\ Neighbour(tree, Left, InOrder(tree)[i]) = Nth(InOrder(tree), i - 1)
    BY <1>2, IteratorSteps
<1>. QED BY <1>3, <1>4, <1>5 DEF IteratorsFollowOrder, Nth

(* find() gives the first node with a key, or a neighbour of the place     *)
(* where it would be, and an iterator goes from each node to the next and  *)
(* to the previous one in the order, or to end(), also in the middle of    *)
(* rebalance() and of consume().                                           *)
THEOREM TreeIteratorsFollow == Spec => []IteratorsFollowOrder
BY TreeInvariant, GoodFollows, PTL

-------------------------------------------------------------------------------
(* Sequences with one node more, one less, or other nodes                  *)

(* r is q with n put in somewhere.                                         *)
Plus(q, r, n) == \E a, b \in Seq(Nodes) : q = a \o b /\ r = Mid(a, n, b)

LEMMA PlusAround ==
    ASSUME NEW q, NEW r, NEW n \in Nodes, Plus(q, r, n),
           NEW v \in Seq(Nodes), NEW w \in Seq(Nodes)
    PROVE  Plus(v \o q \o w, v \o r \o w, n)
<1>1. PICK a \in Seq(Nodes), b \in Seq(Nodes) : q = a \o b /\ r = Mid(a, n, b)
    BY DEF Plus
<1>2. MidIn(v, a, n, b, w)
    BY Nested
<1>3. v \o r \o w = Mid(v \o a, n, b \o w) /\ v \o a \in Seq(Nodes) /\ b \o w \in Seq(Nodes)
    BY <1>1, <1>2 DEF MidIn
<1>4. v \o (a \o b) \o w = (v \o a) \o (b \o w)
    <2>1. (v \o a) \o b = v \o (a \o b)
        BY Concat
    <2>. DEFINE p == v \o a
    <2>2. p \in Seq(Nodes)
        BY <1>3
    <2>. HIDE DEF p
    <2>3. (p \o b) \o w = p \o (b \o w)
        BY <2>2, Concat
    <2>. QED BY <2>1, <2>3 DEF p
<1>. QED BY <1>1, <1>3, <1>4 DEF Plus

LEMMA PlusIn ==
    ASSUME NEW q \in Seq(Nodes), NEW r \in Seq(Nodes), NEW n \in Nodes, Plus(q, r, n),
           NEW x \in Nodes, NEW v \in Seq(Nodes)
    PROVE  /\ Plus(Mid(q, x, v), Mid(r, x, v), n)
           /\ Plus(Mid(v, x, q), Mid(v, x, r), n)
<1>1. <<>> \in Seq(Nodes) /\ <<x>> \in Seq(Nodes)
    OBVIOUS
<1>2. <<x>> \o v \in Seq(Nodes) /\ v \o <<x>> \in Seq(Nodes)
    BY <1>1, Concat
<1>. DEFINE e == <<x>> \o v
            d == v \o <<x>>
<1>3. e \in Seq(Nodes) /\ d \in Seq(Nodes)
    BY <1>2
<1>4. ASSUME NEW p \in Seq(Nodes)
      PROVE  /\ Mid(p, x, v) = <<>> \o p \o e
             /\ Mid(v, x, p) = d \o p \o <<>>
    <2>1. Mid(p, x, v) = p \o e
        BY <1>1, Concat DEF Mid
    <2>2. Mid(v, x, p) = d \o p
        BY DEF Mid
    <2>. HIDE DEF e, d
    <2>3. <<>> \o p = p /\ (d \o p) \o <<>> = d \o p
        BY <1>3, Concat
    <2>. QED BY <2>1, <2>2, <2>3
<1>. HIDE DEF e, d
<1>5. Plus(<<>> \o q \o e, <<>> \o r \o e, n) /\ Plus(d \o q \o <<>>, d \o r \o <<>>, n)
    BY <1>1, <1>3, PlusAround
<1>. QED BY <1>4, <1>5

(* q without its node number i.                                            *)
Drop(q, i) == SubSeq(q, 1, i - 1) \o SubSeq(q, i + 1, Len(q))

LEMMA DropIs ==
    ASSUME NEW q \in Seq(Nodes), NEW i \in 1..Len(q)
    PROVE  /\ Drop(q, i) \in Seq(Nodes) /\ Len(Drop(q, i)) = Len(q) - 1
           /\ \A j \in 1..(Len(q) - 1) : Drop(q, i)[j] = IF j < i THEN q[j] ELSE q[j + 1]
<1>. DEFINE a == SubSeq(q, 1, i - 1)
            b == SubSeq(q, i + 1, Len(q))
<1>1. Len(q) \in Nat /\ i \in Nat /\ 1 <= i /\ i <= Len(q)
    OBVIOUS
<1>2. /\ a \in Seq(Nodes) /\ Len(a) = i - 1
      /\ \A j \in 1..(i - 1) : a[j] = q[j]
    BY <1>1
<1>3. /\ b \in Seq(Nodes) /\ Len(b) = Len(q) - i
      /\ \A j \in 1..(Len(q) - i) : b[j] = q[i + j]
    BY <1>1
<1>. HIDE DEF a, b
<1>4. /\ a \o b \in Seq(Nodes) /\ Len(a \o b) = Len(a) + Len(b)
      /\ \A j \in 1..Len(a) + Len(b) : (a \o b)[j] = IF j <= Len(a) THEN a[j] ELSE b[j - Len(a)]
    BY <1>2, <1>3, ConcatProperties
<1>5. Len(a) + Len(b) = Len(q) - 1
    BY <1>1, <1>2, <1>3
<1>6. ASSUME NEW j \in 1..(Len(q) - 1)
      PROVE  (a \o b)[j] = IF j < i THEN q[j] ELSE q[j + 1]
    <2>1. j \in 1..Len(a) + Len(b) /\ j \in Int
        BY <1>1, <1>5
    <2>2. CASE j < i
        <3>1. j <= Len(a) /\ j \in 1..(i - 1)
            BY <2>1, <2>2, <1>1, <1>2
        <3>. QED BY <3>1, <2>1, <2>2, <1>2, <1>4
    <2>3. CASE ~(j < i)
        <3>. DEFINE l == j - Len(a)
        <3>1. ~(j <= Len(a)) /\ l \in 1..(Len(q) - i) /\ i + l = j + 1
            BY <2>1, <2>3, <1>1, <1>2
        <3>. HIDE DEF l
        <3>2. b[l] = q[i + l]
            BY <3>1, <1>3
        <3>. QED BY <3>1, <3>2, <2>1, <2>3, <1>4 DEF l
    <2>. QED BY <2>2, <2>3
<1>. QED BY <1>4, <1>5, <1>6 DEF Drop, a, b

(* A node put in at a place, and taken out again.                          *)
LEMMA PlusDrops ==
    ASSUME NEW a \in Seq(Nodes), NEW n \in Nodes, NEW b \in Seq(Nodes)
    PROVE  /\ Len(a) + 1 \in 1..Len(Mid(a, n, b)) /\ Mid(a, n, b)[Len(a) + 1] = n
           /\ Drop(Mid(a, n, b), Len(a) + 1) = a \o b
<1>. DEFINE q == Mid(a, n, b)
            i == Len(a) + 1
<1>1. /\ q \in Seq(Nodes) /\ Len(q) = Len(a) + 1 + Len(b)
      /\ Len(a) \in Nat /\ Len(b) \in Nat
      /\ \A j \in 1..Len(q) : q[j] = IF j <= Len(a) THEN a[j]
                                     ELSE IF j = Len(a) + 1 THEN n ELSE b[j - (Len(a) + 1)]
    BY Join DEF Mid
<1>. HIDE DEF q
<1>2. i \in 1..Len(q) /\ q[i] = n
    BY <1>1
<1>3. /\ Drop(q, i) \in Seq(Nodes) /\ Len(Drop(q, i)) = Len(q) - 1
      /\ \A j \in 1..(Len(q) - 1) : Drop(q, i)[j] = IF j < i THEN q[j] ELSE q[j + 1]
    <2>. HIDE DEF i
    <2>. QED BY <1>1, <1>2, DropIs
<1>4. /\ a \o b \in Seq(Nodes) /\ Len(a \o b) = Len(a) + Len(b)
      /\ \A j \in 1..Len(a) + Len(b) : (a \o b)[j] = IF j <= Len(a) THEN a[j] ELSE b[j - Len(a)]
    BY ConcatProperties
<1>5. Len(q) - 1 = Len(a) + Len(b)
    BY <1>1
<1>6. ASSUME NEW j \in 1..Len(a) + Len(b) PROVE Drop(q, i)[j] = (a \o b)[j]
    <2>1. CASE j <= Len(a)
        <3>1. j < i /\ j \in 1..Len(q) /\ j \in 1..(Len(q) - 1)
            BY <2>1, <1>1
        <3>. QED BY <3>1, <2>1, <1>1, <1>3, <1>4
    <2>2. CASE ~(j <= Len(a))
        <3>1. ~(j < i) /\ j + 1 \in 1..Len(q) /\ j \in 1..(Len(q) - 1)
              /\ ~(j + 1 <= Len(a)) /\ j + 1 # Len(a) + 1 /\ j + 1 - (Len(a) + 1) = j - Len(a)
            BY <2>2, <1>1
        <3>2. Drop(q, i)[j] = q[j + 1]
            BY <3>1, <1>3
        <3>3. q[j + 1] = b[j + 1 - (Len(a) + 1)]
            BY <3>1, <1>1
        <3>. QED BY <3>1, <3>2, <3>3, <2>2, <1>4
    <2>. QED BY <2>1, <2>2
<1>. HIDE DEF i
<1>7. Drop(q, i) = a \o b
    BY <1>3, <1>4, <1>5, <1>6, SeqEqual
<1>. QED BY <1>2, <1>7 DEF q, i

-------------------------------------------------------------------------------
(* What the operations do to the order                                     *)

(* The walk at x, a node of t.                                             *)
WalkIn(t, v, x) ==
    /\ v[x] = Mid(v[Kid(t, Left, x)], x, v[Kid(t, Right, x)])
    /\ v[x] \in Seq(Nodes)
    /\ v[Kid(t, Left, x)] \in Seq(Nodes) /\ v[Kid(t, Right, x)] \in Seq(Nodes)

LEMMA WalkMid ==
    ASSUME NEW t \in Trees, NEW below, Shape(t, below), NEW v, WalkOf(t, v), NEW x \in Nodes
    PROVE  WalkIn(t, v, x)
BY WalkAt DEF WalkIn, Mid

(* The place of n goes to its child c.                                     *)
Instead(n, c, x) == IF x = n THEN c ELSE x

(* A node that is taken out leaves the order of the others.                *)
LEMMA RemovedWalk ==
    ASSUME NEW t, NEW below, WellFormed(t, below), NEW n \in below[t.head], NEW s \in Side,
           Kid(t, Opposite(s), n) = Nil, NEW u, RemovedTo(t, u, n, s),
           NEW v, WalkOf(t, v), NEW w, WalkOf(u, w)
    PROVE  Plus(w[u.head], v[t.head], n)
<1>. DEFINE c == Kid(t, s, n)
            Goes(x) == LET y == Instead(n, c, x)
                       IN /\ w[y] \in Seq(Nodes)
                          /\ n \in below[x] => Plus(w[y], v[x], n)
                          /\ n \notin below[x] => w[y] = v[x]
            S == {x \in Pointer : Goes(x)}
<1>1. /\ t \in Trees /\ Shape(t, below) /\ t.head \in Pointer
    BY DEF WellFormed, Trees
<1>2. n \in Nodes /\ n \in Pointer /\ n # Nil
    BY <1>1, BelowNested, NilIsNoNode
<1>3. u \in Trees /\ Shape(u, Without(below, n))
    BY RemovedShape DEF WellFormed
<1>4. v[Nil] = <<>> /\ w[Nil] = <<>> /\ below[Nil] = {} /\ <<>> \in Seq(Nodes)
    BY <1>1 DEF WalkOf, Shape
<1>5. Nil \in S
    BY <1>2, <1>4, NilIsNoNode DEF Instead
<1>6. ASSUME NEW x \in Nodes, \A r \in Side : Kid(t, r, x) \in S PROVE x \in S
    <2>. DEFINE l == Kid(t, Left, x)
                r == Kid(t, Right, x)
                l2 == Instead(n, c, l)
                r2 == Instead(n, c, r)
    <2>0. Left \in Side /\ Right \in Side /\ Opposite(Left) = Right /\ Opposite(Right) = Left
        BY DEF Side, Opposite, Left, Right
    <2>1. /\ l \in Pointer /\ r \in Pointer /\ x \in Pointer /\ below[x] = {x} \cup below[l] \cup below[r]
          /\ x \notin below[l] /\ x \notin below[r] /\ below[l] \cap below[r] = {}
          /\ \A y \in Nodes : y \in below[y]
        BY <2>0, <1>1, ShapeAt, NilIsNoNode
    <2>2. v[x] = Mid(v[l], x, v[r]) /\ v[l] \in Seq(Nodes) /\ v[r] \in Seq(Nodes)
        <3>1. WalkIn(t, v, x)
            BY <1>1, WalkMid
        <3>. QED BY <3>1 DEF WalkIn
    <2>3. Goes(l) /\ Goes(r)
        BY <1>6, <2>0
    <2>4. CASE x = n
        <3>1. n \notin below[l] /\ n \notin below[r] /\ l # n /\ r # n
            BY <2>1, <2>4
        <3>2. w[l] = v[l] /\ w[r] = v[r]
            BY <2>3, <3>1 DEF Instead
        <3>3. Plus(w[c], Mid(v[l], n, v[r]), n)
            <4>1. CASE s = Left
                <5>1. r = Nil /\ c = l
                    BY <4>1, <2>0, <2>4
                <5>2. w[c] = v[l] \o v[r]
                    BY <5>1, <3>2, <2>2, <1>4, Concat
                <5>. QED BY <5>2, <2>2 DEF Plus
            <4>2. CASE s = Right
                <5>1. l = Nil /\ c = r
                    BY <4>2, <2>0, <2>4
                <5>2. w[c] = v[l] \o v[r]
                    BY <5>1, <3>2, <2>2, <1>4, Concat
                <5>. QED BY <5>2, <2>2 DEF Plus
            <4>. QED BY <4>1, <4>2 DEF Side
        <3>4. n \in below[x] /\ Instead(n, c, x) = c /\ w[c] \in Seq(Nodes)
            <4>1. c = l \/ c = r
                BY <2>4 DEF Side
            <4>. QED BY <4>1, <3>2, <2>1, <2>2, <2>4 DEF Instead
        <3>. QED BY <3>3, <3>4, <2>1, <2>2, <2>4
    <2>5. CASE x # n
        <3>1. Kid(u, Left, x) = l2 /\ Kid(u, Right, x) = r2
            BY <2>0, <2>5 DEF RemovedTo, Instead
        <3>2. w[x] = Mid(w[l2], x, w[r2]) /\ w[l2] \in Seq(Nodes) /\ w[r2] \in Seq(Nodes)
              /\ w[x] \in Seq(Nodes)
            <4>1. WalkIn(u, w, x)
                BY <1>3, WalkMid
            <4>. QED BY <4>1, <3>1 DEF WalkIn
        <3>3. Instead(n, c, x) = x
            BY <2>5 DEF Instead
        <3>4. /\ n \in below[l] => Plus(w[l2], v[l], n)
              /\ n \notin below[l] => w[l2] = v[l]
              /\ n \in below[r] => Plus(w[r2], v[r], n)
              /\ n \notin below[r] => w[r2] = v[r]
            BY <2>3
        <3>. HIDE DEF l, r, l2, r2
        <3>5. CASE n \in below[l]
            <4>1. Plus(Mid(w[l2], x, v[r]), Mid(v[l], x, v[r]), n)
                BY <3>2, <3>4, <3>5, <2>2, <1>2, PlusIn
            <4>2. w[r2] = v[r] /\ n \in below[x]
                BY <3>4, <3>5, <2>1
            <4>. QED BY <4>1, <4>2, <3>2, <3>3, <2>1, <2>2
        <3>6. CASE n \in below[r]
            <4>1. Plus(Mid(v[l], x, w[r2]), Mid(v[l], x, v[r]), n)
                BY <3>2, <3>4, <3>6, <2>2, <1>2, PlusIn
            <4>2. w[l2] = v[l] /\ n \in below[x]
                BY <3>4, <3>6, <2>1
            <4>. QED BY <4>1, <4>2, <3>2, <3>3, <2>1, <2>2
        <3>7. CASE n \notin below[l] /\ n \notin below[r]
            <4>1. n \notin below[x] /\ w[x] = v[x]
                BY <3>2, <3>4, <3>7, <2>1, <2>2, <2>5
            <4>. QED BY <4>1, <3>2, <3>3, <2>1
        <3>. QED BY <3>5, <3>6, <3>7
    <2>. QED BY <2>4, <2>5
<1>7. Pointer \subseteq S
    <2>. HIDE DEF S
    <2>. QED BY <1>1, <1>5, <1>6, TreeInduction
<1>8. u.head = Instead(n, c, t.head)
    BY DEF RemovedTo, Instead
<1>. QED BY <1>1, <1>7, <1>8

(* A node that is added leaves it as well.                                 *)
LEMMA AddedWalk ==
    ASSUME NEW t, NEW below, WellFormed(t, below), NEW n \in Nodes \ below[t.head],
           NEW m \in Pointer, NEW s \in Side,
           m = Nil => t.head = Nil,
           m # Nil => m \in below[t.head] /\ Kid(t, s, m) = Nil,
           NEW u, AddedTo(t, u, n, m, s),
           NEW v, WalkOf(t, v), NEW w, WalkOf(u, w)
    PROVE  Plus(v[t.head], w[u.head], n)
<1>. DEFINE Goes(x) == /\ m \in below[x] => Plus(v[x], w[x], n)
                       /\ m \notin below[x] /\ x # n => w[x] = v[x]
            S == {x \in Pointer : Goes(x)}
<1>1. /\ t \in Trees /\ Shape(t, below) /\ t.head \in Pointer /\ n \in Nodes /\ n # Nil
    BY NilIsNoNode DEF WellFormed, Trees
<1>2. u \in Trees /\ Shape(u, With(below, n, m))
    BY AddedShape DEF WellFormed
<1>3. v[Nil] = <<>> /\ w[Nil] = <<>> /\ below[Nil] = {} /\ <<>> \in Seq(Nodes)
    BY <1>1 DEF WalkOf, Shape
<1>4. /\ below[n] = {n} /\ \A r \in Side : Kid(t, r, n) = Nil
      /\ \A r \in Side, x \in Nodes : Kid(t, r, x) # n
    BY OutOfTree
<1>5. n # m
    BY <1>1
<1>6. Plus(<<>>, w[n], n)
    <2>1. \A r \in Side : Kid(u, r, n) = Nil
        BY <1>1, <1>4, <1>5 DEF AddedTo
    <2>2. w[n] = w[Kid(u, Left, n)] \o <<n>> \o w[Kid(u, Right, n)]
        BY <1>1 DEF WalkOf
    <2>3. w[n] = Mid(<<>>, n, <<>>)
        BY <2>1, <2>2, <1>3 DEF Mid, Side
    <2>4. <<>> = <<>> \o <<>>
        BY <1>3, Concat
    <2>. QED BY <2>3, <2>4, <1>3 DEF Plus
<1>7. Nil \in S
    BY <1>3, NilIsNoNode
<1>8. ASSUME NEW x \in Nodes, \A r \in Side : Kid(t, r, x) \in S PROVE x \in S
    <2>. DEFINE l == Kid(t, Left, x)
                r == Kid(t, Right, x)
                l2 == Kid(u, Left, x)
                r2 == Kid(u, Right, x)
    <2>0. Left \in Side /\ Right \in Side /\ Opposite(Left) = Right /\ Opposite(Right) = Left
          /\ Left # Right
        BY DEF Side, Opposite, Left, Right
    <2>1. /\ l \in Pointer /\ r \in Pointer /\ x \in Pointer /\ below[x] = {x} \cup below[l] \cup below[r]
          /\ x \notin below[l] /\ x \notin below[r] /\ below[l] \cap below[r] = {}
          /\ \A y \in Nodes : y \in below[y]
        BY <2>0, <1>1, ShapeAt, NilIsNoNode
    <2>2. v[x] = Mid(v[l], x, v[r]) /\ v[l] \in Seq(Nodes) /\ v[r] \in Seq(Nodes)
        <3>1. WalkIn(t, v, x)
            BY <1>1, WalkMid
        <3>. QED BY <3>1 DEF WalkIn
    <2>3. w[x] = Mid(w[l2], x, w[r2]) /\ w[l2] \in Seq(Nodes) /\ w[r2] \in Seq(Nodes)
        <3>1. WalkIn(u, w, x)
            BY <1>2, WalkMid
        <3>. QED BY <3>1 DEF WalkIn
    <2>4. Goes(l) /\ Goes(r) /\ l # n /\ r # n
        BY <1>8, <2>0, <1>4
    <2>5. /\ l2 = IF x = m /\ s = Left THEN n ELSE l
          /\ r2 = IF x = m /\ s = Right THEN n ELSE r
        BY <2>0 DEF AddedTo
    <2>6. m \in below[x] => Plus(Mid(v[l], x, v[r]), Mid(w[l2], x, w[r2]), n)
        <3>1. CASE m \in below[l]
            <4>1. x # m /\ m \notin below[r]
                BY <3>1, <2>1
            <4>2. l2 = l /\ r2 = r /\ w[r] = v[r] /\ Plus(v[l], w[l], n)
                BY <3>1, <4>1, <2>4, <2>5
            <4>. HIDE DEF l, r, l2, r2
            <4>. QED BY <4>2, <2>2, <2>3, <1>1, PlusIn
        <3>2. CASE m \in below[r]
            <4>1. x # m /\ m \notin below[l]
                BY <3>2, <2>1
            <4>2. l2 = l /\ r2 = r /\ w[l] = v[l] /\ Plus(v[r], w[r], n)
                BY <3>2, <4>1, <2>4, <2>5
            <4>. HIDE DEF l, r, l2, r2
            <4>. QED BY <4>2, <2>2, <2>3, <1>1, PlusIn
        <3>3. CASE x = m
            <4>1. m \notin below[l] /\ m \notin below[r] /\ w[l] = v[l] /\ w[r] = v[r]
                BY <3>3, <2>1, <2>4
            <4>2. CASE s = Left
                <5>1. l = Nil /\ l2 = n /\ r2 = r
                    BY <4>2, <3>3, <2>0, <2>5, NilIsNoNode
                <5>2. Plus(v[l], w[l2], n) /\ w[r2] = v[r]
                    BY <5>1, <4>1, <1>3, <1>6
                <5>. HIDE DEF l, r, l2, r2
                <5>. QED BY <5>2, <2>2, <2>3, <1>1, PlusIn
            <4>3. CASE s = Right
                <5>1. r = Nil /\ r2 = n /\ l2 = l
                    BY <4>3, <3>3, <2>0, <2>5, NilIsNoNode
                <5>2. Plus(v[r], w[r2], n) /\ w[l2] = v[l]
                    BY <5>1, <4>1, <1>3, <1>6
                <5>. HIDE DEF l, r, l2, r2
                <5>. QED BY <5>2, <2>2, <2>3, <1>1, PlusIn
            <4>. QED BY <4>2, <4>3 DEF Side
        <3>. QED BY <3>1, <3>2, <3>3, <2>1
    <2>7. m \notin below[x] => w[x] = v[x]
        BY <2>1, <2>2, <2>3, <2>4, <2>5
    <2>. QED BY <2>1, <2>2, <2>3, <2>6, <2>7
<1>9. Pointer \subseteq S
    <2>. HIDE DEF S
    <2>. QED BY <1>1, <1>7, <1>8, TreeInduction
<1>10. CASE m = Nil
    BY <1>3, <1>6, <1>10 DEF AddedTo
<1>11. CASE m # Nil
    BY <1>1, <1>9, <1>11 DEF AddedTo
<1>. QED BY <1>10, <1>11

(* Two nodes with what is before, between and behind them.                 *)
LEMMA Turned ==
    ASSUME NEW a \in Seq(Nodes), NEW x \in Nodes, NEW b \in Seq(Nodes), NEW y \in Nodes,
           NEW c \in Seq(Nodes)
    PROVE  Mid(Mid(a, x, b), y, c) = Mid(a, x, Mid(b, y, c))
<1>. DEFINE X == <<x>>
            Y == <<y>>
            p == a \o X
            q == Y \o c
            r == p \o b
<1>1. X \in Seq(Nodes) /\ Y \in Seq(Nodes)
    OBVIOUS
<1>. HIDE DEF X, Y
<1>2. p \in Seq(Nodes) /\ q \in Seq(Nodes)
    BY <1>1, Concat
<1>. HIDE DEF p
<1>3. r \in Seq(Nodes)
    BY <1>2, Concat
<1>. HIDE DEF r
<1>4. (r \o Y) \o c = r \o q
    BY <1>1, <1>3, Concat
<1>. HIDE DEF q
<1>5. (p \o b) \o q = p \o (b \o q)
    BY <1>2, Concat
<1>6. (b \o Y) \o c = b \o (Y \o c)
    BY <1>1, Concat
<1>. QED BY <1>4, <1>5, <1>6 DEF Mid, X, Y, p, q, r

(* A rotation changes nothing in the order.                                *)
LEMMA RotatedWalk ==
    ASSUME NEW t, NEW below, WellFormed(t, below), NEW n \in below[t.head], NEW s \in Side,
           Kid(t, s, n) # Nil, NEW u, u = Rotate(t, n, s),
           NEW v, WalkOf(t, v), NEW w, WalkOf(u, w)
    PROVE  w[u.head] = v[t.head]
<1>. DEFINE c == Kid(t, s, n)
            o == Opposite(s)
            inner == Kid(t, o, c)
            S == {x \in Pointer : /\ x # c => w[Instead(n, c, x)] = v[x]
                                  /\ x = c => \A r \in Side : w[Kid(t, r, c)] = v[Kid(t, r, c)]}
<1>1. /\ t \in Trees /\ Shape(t, below) /\ t.head \in Pointer /\ o \in Side /\ Linked(t) /\ s # o
    BY Sides DEF WellFormed, Trees
<1>2. /\ n \in Nodes /\ c \in Nodes /\ n # c /\ t.parent[c] = n /\ n # Nil /\ c # Nil
      /\ t.parent[n] # c /\ inner \in Pointer /\ inner # n
    BY Around, NilIsNoNode
<1>3. u \in Trees /\ Shape(u, BelowRotated(t, below, n, s))
    BY RotateShape DEF WellFormed
<1>4. /\ u.head = IF n = t.head THEN c ELSE t.head
      /\ \A r \in Side, x \in Nodes :
            Kid(u, r, x) = IF x = n /\ r = s THEN inner
                           ELSE IF x = c /\ r = o THEN n
                           ELSE IF Kid(t, r, x) = n THEN c ELSE Kid(t, r, x)
    BY RotateIs
<1>5. v[Nil] = <<>> /\ w[Nil] = <<>>
    BY DEF WalkOf
<1>6. Nil \in S
    BY <1>2, <1>5, NilIsNoNode DEF Instead
<1>7. \A r \in Side, x \in Nodes : Kid(t, r, x) = c => x = n
    BY <1>1, <1>2 DEF Linked
<1>8. \A r \in Side : Kid(t, r, c) # n /\ Kid(t, r, c) # c /\ Kid(t, r, n) # n
    BY <1>1, <1>2, NilIsNoNode, ShapeAt DEF Linked
<1>9. Left \in Side /\ Right \in Side
    BY DEF Side
<1>. HIDE DEF c, o, inner
<1>10. ASSUME NEW x \in Nodes, \A r \in Side : Kid(t, r, x) \in S PROVE x \in S
    <2>1. x \in Pointer /\ \A r \in Side : Kid(t, r, x) \in Pointer
        BY <1>1, NilIsNoNode, KidType
    <2>2. /\ v[x] = v[Kid(t, Left, x)] \o <<x>> \o v[Kid(t, Right, x)]
          /\ w[x] = w[Kid(u, Left, x)] \o <<x>> \o w[Kid(u, Right, x)]
        BY DEF WalkOf
    <2>3. CASE x # n /\ x # c
        <3>1. ASSUME NEW r \in Side PROVE w[Kid(u, r, x)] = v[Kid(t, r, x)]
            <4>1. Kid(u, r, x) = Instead(n, c, Kid(t, r, x))
                BY <2>3, <1>4 DEF Instead
            <4>2. Kid(t, r, x) # c
                BY <2>3, <1>7
            <4>. QED BY <4>1, <4>2, <1>10
        <3>2. w[x] = v[x]
            BY <3>1, <2>2, <1>9
        <3>. QED BY <3>2, <2>1, <2>3 DEF Instead
    <2>4. CASE x = c
        <3>1. ASSUME NEW r \in Side PROVE w[Kid(t, r, c)] = v[Kid(t, r, c)]
            BY <2>4, <1>8, <1>10 DEF Instead
        <3>. QED BY <3>1, <2>1, <2>4
    <2>5. CASE x = n
        <3>1. Kid(t, s, n) = c /\ Kid(t, o, c) = inner
            BY DEF c, inner
        <3>2. w[Kid(t, s, c)] = v[Kid(t, s, c)] /\ w[inner] = v[inner]
            BY <3>1, <2>5, <1>1, <1>10
        <3>3. Kid(t, o, n) # c
            <4>1. Kid(t, s, n) # Kid(t, o, n)
                <5>1. below[Kid(t, s, n)] \cap below[Kid(t, o, n)] = {} /\ c \in below[c]
                    BY <1>1, <1>2, ShapeAt DEF o
                <5>. QED BY <5>1, <3>1
            <4>. QED BY <4>1, <3>1
        <3>4. w[Kid(t, o, n)] = v[Kid(t, o, n)]
            BY <3>3, <2>5, <1>1, <1>8, <1>10 DEF Instead
        <3>5. /\ Kid(u, s, n) = inner /\ Kid(u, o, n) = Kid(t, o, n)
              /\ Kid(u, o, c) = n /\ Kid(u, s, c) = Kid(t, s, c)
            BY <1>1, <1>2, <1>4, <1>8
        <3>. DEFINE A == v[Kid(t, o, n)]
                    B == v[inner]
                    C == v[Kid(t, s, c)]
        <3>6. A \in Seq(Nodes) /\ B \in Seq(Nodes) /\ C \in Seq(Nodes)
            <4>1. \A y \in Pointer : v[y] \in Seq(Nodes)
                BY <1>1, WalkLists DEF Lists
            <4>. QED BY <4>1, <1>1, <1>2, KidType
        <3>7. /\ w[n] = w[Kid(u, Left, n)] \o <<n>> \o w[Kid(u, Right, n)]
              /\ w[c] = w[Kid(u, Left, c)] \o <<c>> \o w[Kid(u, Right, c)]
              /\ v[c] = v[Kid(t, Left, c)] \o <<c>> \o v[Kid(t, Right, c)]
              /\ v[n] = v[Kid(t, Left, n)] \o <<n>> \o v[Kid(t, Right, n)]
            BY <1>2 DEF WalkOf
        <3>8. w[c] = v[n]
            <4>1. CASE s = Left
                <5>1. o = Right
                    BY <4>1 DEF o, Opposite, Left, Right
                <5>2. w[c] = Mid(C, c, Mid(B, n, A))
                    BY <5>1, <4>1, <3>2, <3>4, <3>5, <3>7 DEF Mid
                <5>3. v[n] = Mid(Mid(C, c, B), n, A)
                    BY <5>1, <4>1, <3>1, <3>7 DEF Mid
                <5>. HIDE DEF A, B, C
                <5>. QED BY <5>2, <5>3, <3>6, <1>2, Turned
            <4>2. CASE s = Right
                <5>1. o = Left
                    BY <4>2 DEF o, Opposite, Left, Right
                <5>2. w[c] = Mid(Mid(A, n, B), c, C)
                    BY <5>1, <4>2, <3>2, <3>4, <3>5, <3>7 DEF Mid
                <5>3. v[n] = Mid(A, n, Mid(B, c, C))
                    BY <5>1, <4>2, <3>1, <3>7 DEF Mid
                <5>. HIDE DEF A, B, C
                <5>. QED BY <5>2, <5>3, <3>6, <1>2, Turned
            <4>. QED BY <4>1, <4>2 DEF Side
        <3>. QED BY <3>8, <2>1, <2>5, <1>2 DEF Instead
    <2>. QED BY <2>3, <2>4, <2>5
<1>11. Pointer \subseteq S
    <2>. HIDE DEF S
    <2>. QED BY <1>1, <1>6, <1>10, TreeInduction
<1>12. t.head # c
    BY <1>1, <1>2, NilIsNoNode DEF Linked
<1>. QED BY <1>1, <1>4, <1>11, <1>12 DEF Instead

(* r is q with each node x become f[x].                                    *)
Mapped(q, r, f) ==
    r \in Seq(Nodes) /\ Len(r) = Len(q) /\ \A i \in 1..Len(q) : r[i] = f[q[i]]

LEMMA MappedJoin ==
    ASSUME NEW f, NEW q \in Seq(Nodes), NEW q2, Mapped(q, q2, f), NEW x \in Nodes, f[x] \in Nodes,
           NEW r \in Seq(Nodes), NEW r2, Mapped(r, r2, f)
    PROVE  Mapped(Mid(q, x, r), Mid(q2, f[x], r2), f)
<1>. DEFINE y == f[x]
            d == Mid(q, x, r)
            e == Mid(q2, y, r2)
<1>1. y \in Nodes /\ q2 \in Seq(Nodes) /\ r2 \in Seq(Nodes)
      /\ Len(q2) = Len(q) /\ Len(r2) = Len(r)
      /\ (\A i \in 1..Len(q) : q2[i] = f[q[i]]) /\ \A i \in 1..Len(r) : r2[i] = f[r[i]]
    BY DEF Mapped
<1>2. /\ Len(d) = Len(q) + 1 + Len(r) /\ Len(q) \in Nat /\ Len(r) \in Nat
      /\ \A i \in 1..Len(d) : d[i] = IF i <= Len(q) THEN q[i]
                                     ELSE IF i = Len(q) + 1 THEN x ELSE r[i - (Len(q) + 1)]
    BY Join DEF Mid
<1>. HIDE DEF y
<1>3. /\ e \in Seq(Nodes) /\ Len(e) = Len(q2) + 1 + Len(r2)
      /\ \A i \in 1..Len(e) : e[i] = IF i <= Len(q2) THEN q2[i]
                                     ELSE IF i = Len(q2) + 1 THEN y ELSE r2[i - (Len(q2) + 1)]
    BY <1>1, Join DEF Mid
<1>. HIDE DEF d, e
<1>4. ASSUME NEW i \in 1..Len(d) PROVE e[i] = f[d[i]]
    <2>1. i \in 1..Len(e)
        BY <1>1, <1>2, <1>3
    <2>2. CASE i <= Len(q)
        <3>1. i \in 1..Len(q)
            BY <2>2, <1>2
        <3>. QED BY <3>1, <2>1, <2>2, <1>1, <1>2, <1>3
    <2>3. CASE i = Len(q) + 1
        <3>1. ~(i <= Len(q))
            BY <2>3, <1>2
        <3>. QED BY <3>1, <2>1, <2>3, <1>1, <1>2, <1>3 DEF y
    <2>4. CASE i > Len(q) + 1
        <3>. DEFINE j == i - (Len(q) + 1)
        <3>1. ~(i <= Len(q)) /\ i # Len(q) + 1 /\ j \in 1..Len(r)
            BY <2>4, <1>2
        <3>2. d[i] = r[j]
            BY <3>1, <1>2
        <3>3. e[i] = r2[j]
            BY <3>1, <2>1, <1>1, <1>3
        <3>. HIDE DEF j
        <3>. QED BY <3>1, <3>2, <3>3, <1>1
    <2>. QED BY <2>2, <2>3, <2>4, <1>2
<1>5. Len(e) = Len(d)
    BY <1>1, <1>2, <1>3
<1>. QED BY <1>3, <1>4, <1>5 DEF Mapped, d, e, y

(* Nodes that exchange their places exchange them in the order.            *)
LEMMA RelabelledWalk ==
    ASSUME NEW t, NEW below, WellFormed(t, below), NEW a \in below[t.head],
           NEW b \in below[t.head],
           NEW u, u = Relabelled(t, Swap(a, b)),
           NEW v, WalkOf(t, v), NEW w, WalkOf(u, w)
    PROVE  Mapped(v[t.head], w[u.head], Swap(a, b))
<1>. DEFINE f == Swap(a, b)
            S == {x \in Pointer : Mapped(v[x], w[f[x]], f)}
<1>1. /\ t \in Trees /\ Shape(t, below) /\ t.head \in Pointer
    BY DEF WellFormed, Trees
<1>2. a \in Nodes /\ b \in Nodes
    BY <1>1, BelowNested
<1>3. /\ f[Nil] = Nil
      /\ \A x \in Pointer : f[f[x]] = x
      /\ \A x \in Nodes : f[x] \in Nodes
    BY <1>2, SwapIs
<1>4. u.head = f[t.head] /\ \A s \in Side, x \in Nodes : Kid(u, s, x) = f[Kid(t, s, f[x])]
    <2>. DEFINE g == Relabelled(t, f)
    <2>1. g.head = f[t.head] /\ \A s \in Side, x \in Nodes : Kid(g, s, x) = f[Kid(t, s, f[x])]
        BY <1>1, <1>2, RelabelledIs
    <2>. QED BY <2>1
<1>5. v[Nil] = <<>> /\ w[Nil] = <<>> /\ <<>> \in Seq(Nodes)
    BY DEF WalkOf
<1>. HIDE DEF f
<1>6. Nil \in S
    <2>1. Mapped(<<>>, <<>>, f)
        BY DEF Mapped
    <2>. QED BY <2>1, <1>3, <1>5, NilIsNoNode
<1>7. ASSUME NEW x \in Nodes, \A r \in Side : Kid(t, r, x) \in S PROVE x \in S
    <2>. DEFINE l == Kid(t, Left, x)
                r == Kid(t, Right, x)
                y == f[x]
    <2>0. Left \in Side /\ Right \in Side /\ x \in Pointer
        BY NilIsNoNode DEF Side
    <2>1. v[x] = Mid(v[l], x, v[r]) /\ v[l] \in Seq(Nodes) /\ v[r] \in Seq(Nodes)
        <3>1. WalkIn(t, v, x)
            BY <1>1, WalkMid
        <3>. QED BY <3>1 DEF WalkIn
    <2>2. w[f[x]] = Mid(w[f[l]], f[x], w[f[r]]) /\ f[x] \in Nodes
        <3>1. y \in Nodes /\ f[y] = x
            BY <2>0, <1>3
        <3>2. w[y] = w[Kid(u, Left, y)] \o <<y>> \o w[Kid(u, Right, y)]
            BY <3>1 DEF WalkOf
        <3>3. Kid(u, Left, y) = f[l] /\ Kid(u, Right, y) = f[r]
            BY <3>1, <2>0, <1>4
        <3>. QED BY <3>1, <3>2, <3>3 DEF Mid
    <2>3. Mapped(v[l], w[f[l]], f) /\ Mapped(v[r], w[f[r]], f)
        BY <2>0, <1>7
    <2>. DEFINE q == v[l]
                q2 == w[f[l]]
                d == v[r]
                d2 == w[f[r]]
    <2>4. q \in Seq(Nodes) /\ d \in Seq(Nodes) /\ Mapped(q, q2, f) /\ Mapped(d, d2, f)
          /\ f[x] \in Nodes
        BY <2>1, <2>2, <2>3
    <2>5. v[x] = Mid(q, x, d) /\ w[f[x]] = Mid(q2, f[x], d2)
        BY <2>1, <2>2
    <2>. HIDE DEF q, q2, d, d2
    <2>6. Mapped(Mid(q, x, d), Mid(q2, f[x], d2), f)
        BY <2>4, MappedJoin
    <2>. QED BY <2>0, <2>5, <2>6
<1>8. Pointer \subseteq S
    <2>. HIDE DEF S
    <2>. QED BY <1>1, <1>6, <1>7, TreeInduction
<1>. QED BY <1>1, <1>4, <1>8 DEF f

-------------------------------------------------------------------------------
(* The order is sorted                                                     *)

SortedBy(keys, q) == \A i, j \in 1..Len(q) : i < j => keys[q[i]] <= keys[q[j]]

LEMMA SortedJoin ==
    ASSUME NEW keys \in [Nodes -> Int], NEW q \in Seq(Nodes), SortedBy(keys, q),
           NEW r \in Seq(Nodes), SortedBy(keys, r), NEW x \in Nodes,
           \A i \in 1..Len(q) : keys[q[i]] <= keys[x],
           \A i \in 1..Len(r) : keys[x] <= keys[r[i]]
    PROVE  SortedBy(keys, Mid(q, x, r))
<1>. DEFINE d == Mid(q, x, r)
            K(i) == keys[d[i]]
<1>1. /\ d \in Seq(Nodes) /\ Len(d) = Len(q) + 1 + Len(r) /\ Len(q) \in Nat /\ Len(r) \in Nat
      /\ \A i \in 1..Len(d) : d[i] = IF i <= Len(q) THEN q[i]
                                     ELSE IF i = Len(q) + 1 THEN x ELSE r[i - (Len(q) + 1)]
    BY Join DEF Mid
<1>. HIDE DEF d
<1>2. \A i \in 1..Len(d) : keys[d[i]] \in Int
    BY <1>1
<1>3. ASSUME NEW i \in 1..Len(d), i <= Len(q) PROVE d[i] = q[i] /\ i \in 1..Len(q)
    BY <1>1, <1>3
<1>4. Len(q) + 1 \in 1..Len(d) /\ d[Len(q) + 1] = x /\ keys[x] \in Int
    BY <1>1
<1>5. ASSUME NEW i \in 1..Len(d), i > Len(q) + 1
      PROVE d[i] = r[i - (Len(q) + 1)] /\ i - (Len(q) + 1) \in 1..Len(r)
    BY <1>1, <1>5
<1>6. ASSUME NEW i \in 1..Len(d)
      PROVE  /\ i <= Len(q) => keys[d[i]] <= keys[x]
             /\ i > Len(q) + 1 => keys[x] <= keys[d[i]]
    BY <1>3, <1>5
<1>7. ASSUME NEW i \in 1..Len(d), NEW j \in 1..Len(d), i < j
      PROVE  keys[d[i]] <= keys[d[j]]
    <2>1. CASE j <= Len(q)
        <3>1. i <= Len(q)
            BY <2>1, <1>1, <1>7
        <3>. QED BY <3>1, <2>1, <1>3, <1>7 DEF SortedBy
    <2>2. CASE i > Len(q) + 1
        <3>1. j > Len(q) + 1 /\ i - (Len(q) + 1) < j - (Len(q) + 1)
            BY <2>2, <1>1, <1>7
        <3>. QED BY <3>1, <2>2, <1>5 DEF SortedBy
    <2>3. CASE i <= Len(q) /\ j > Len(q) + 1
        BY <2>3, <1>2, <1>4, <1>6
    <2>4. CASE i = Len(q) + 1
        <3>1. j > Len(q) + 1
            BY <2>4, <1>1, <1>7
        <3>. QED BY <3>1, <2>4, <1>4, <1>6
    <2>5. CASE j = Len(q) + 1
        <3>1. i <= Len(q)
            BY <2>5, <1>1, <1>7
        <3>. QED BY <3>1, <2>5, <1>4, <1>6
    <2>6. i \in Int /\ j \in Int /\ Len(q) \in Int
        BY <1>1
    <2>. QED BY <2>1, <2>2, <2>3, <2>4, <2>5, <2>6
<1>. QED BY <1>7 DEF SortedBy, d

LEMMA WalkSorted ==
    ASSUME NEW t, NEW below, WellFormed(t, below), NEW keys \in [Nodes -> Int],
           Ordered(t, below, keys), NEW v, WalkOf(t, v)
    PROVE  SortedBy(keys, v[t.head])
<1>. DEFINE S == {x \in Pointer : SortedBy(keys, v[x])}
<1>1. /\ t \in Trees /\ Shape(t, below) /\ t.head \in Pointer
    BY DEF WellFormed, Trees
<1>2. Nil \in S
    <2>1. SortedBy(keys, <<>>)
        BY DEF SortedBy
    <2>. QED BY <2>1, NilIsNoNode DEF WalkOf
<1>3. ASSUME NEW x \in Nodes, \A r \in Side : Kid(t, r, x) \in S PROVE x \in S
    <2>. DEFINE q == v[Kid(t, Left, x)]
                r == v[Kid(t, Right, x)]
    <2>0. Left \in Side /\ Right \in Side /\ x \in Pointer
        BY NilIsNoNode DEF Side
    <2>1. /\ v[x] = v[Kid(t, Left, x)] \o <<x>> \o v[Kid(t, Right, x)]
          /\ q \in Seq(Nodes) /\ r \in Seq(Nodes)
          /\ Kid(t, Left, x) \in Pointer /\ Kid(t, Right, x) \in Pointer
        BY <1>1, WalkAt
    <2>2. v[x] = Mid(q, x, r)
        BY <2>1 DEF Mid
    <2>3. SortedBy(keys, q) /\ SortedBy(keys, r)
        BY <2>0, <1>3
    <2>4. \A i \in 1..Len(q) : q[i] \in below[Kid(t, Left, x)]
        BY <2>1, <1>1, WalkLists DEF Lists
    <2>5. \A i \in 1..Len(r) : r[i] \in below[Kid(t, Right, x)]
        BY <2>1, <1>1, WalkLists DEF Lists
    <2>. HIDE DEF q, r
    <2>6. /\ \A i \in 1..Len(q) : keys[q[i]] <= keys[x]
          /\ \A i \in 1..Len(r) : keys[x] <= keys[r[i]]
        BY <2>4, <2>5 DEF Ordered
    <2>7. SortedBy(keys, Mid(q, x, r))
        BY <2>1, <2>3, <2>6, SortedJoin
    <2>. QED BY <2>0, <2>2, <2>7
<1>4. Pointer \subseteq S
    <2>. HIDE DEF S
    <2>. QED BY <1>1, <1>2, <1>3, TreeInduction
<1>. QED BY <1>1, <1>4

-------------------------------------------------------------------------------
(* The steps of the sorted sequence                                        *)

(* Where a node was put in, by the number of those before it.              *)
PutAt(q, r, n, i) ==
    /\ i \in 0..Len(q)
    /\ \A j \in 1..i : key[q[j]] <= key[n]
    /\ \A j \in (i + 1)..Len(q) : key[n] <= key[q[j]]
    /\ r = SubSeq(q, 1, i) \o <<n>> \o SubSeq(q, i + 1, Len(q))

LEMMA PlusPuts ==
    ASSUME NEW q, NEW r, NEW n \in Nodes, Plus(q, r, n), SortedBy(key, r)
    PROVE  \E i \in Nat : PutAt(q, r, n, i)
<1>1. PICK a \in Seq(Nodes), b \in Seq(Nodes) : q = a \o b /\ r = Mid(a, n, b)
    BY DEF Plus
<1>. DEFINE i == Len(a)
<1>2. /\ Len(r) = Len(a) + 1 + Len(b) /\ Len(a) \in Nat /\ Len(b) \in Nat
      /\ \A j \in 1..Len(r) : r[j] = IF j <= Len(a) THEN a[j]
                                     ELSE IF j = Len(a) + 1 THEN n ELSE b[j - (Len(a) + 1)]
    BY <1>1, Join DEF Mid
<1>3. /\ q \in Seq(Nodes) /\ Len(q) = Len(a) + Len(b)
      /\ \A j \in 1..Len(a) + Len(b) : q[j] = IF j <= Len(a) THEN a[j] ELSE b[j - Len(a)]
    BY <1>1, ConcatProperties
<1>4. i + 1 \in 1..Len(r) /\ r[i + 1] = n
    BY <1>2
<1>5. ASSUME NEW j \in 1..i PROVE key[q[j]] <= key[n]
    <2>1. j \in 1..Len(r) /\ j < i + 1 /\ j \in 1..Len(a) + Len(b) /\ j <= Len(a)
        BY <1>2
    <2>2. r[j] = q[j]
        BY <2>1, <1>2, <1>3
    <2>. QED BY <2>1, <2>2, <1>4 DEF SortedBy
<1>6. ASSUME NEW j \in (i + 1)..Len(q) PROVE key[n] <= key[q[j]]
    <2>1. j + 1 \in 1..Len(r) /\ i + 1 < j + 1 /\ j \in 1..Len(a) + Len(b) /\ ~(j <= Len(a))
          /\ ~(j + 1 <= Len(a)) /\ j + 1 # Len(a) + 1 /\ j + 1 - (Len(a) + 1) = j - Len(a)
        BY <1>2, <1>3
    <2>2. q[j] = b[j - Len(a)]
        BY <2>1, <1>3
    <2>3. r[j + 1] = b[j + 1 - (Len(a) + 1)]
        BY <2>1, <1>2
    <2>. QED BY <2>1, <2>2, <2>3, <1>4 DEF SortedBy
<1>7. SubSeq(q, 1, i) = a
    <2>1. /\ SubSeq(q, 1, i) \in Seq(Nodes) /\ Len(SubSeq(q, 1, i)) = i
          /\ \A j \in 1..i : SubSeq(q, 1, i)[j] = q[j]
        BY <1>2, <1>3
    <2>2. \A j \in 1..i : q[j] = a[j]
        BY <1>2, <1>3
    <2>. QED BY <2>1, <2>2, <1>2, SeqEqual
<1>8. SubSeq(q, i + 1, Len(q)) = b
    <2>. DEFINE d == SubSeq(q, i + 1, Len(q))
    <2>1. /\ d \in Seq(Nodes) /\ Len(d) = Len(b)
          /\ \A j \in 1..Len(b) : d[j] = q[i + j]
        BY <1>2, <1>3
    <2>. HIDE DEF d
    <2>2. ASSUME NEW j \in 1..Len(b) PROVE q[i + j] = b[j]
        <3>1. i + j \in 1..Len(a) + Len(b) /\ ~(i + j <= Len(a)) /\ i + j - Len(a) = j
            BY <1>2
        <3>2. q[i + j] = b[i + j - Len(a)]
            BY <3>1, <1>3
        <3>. QED BY <3>1, <3>2
    <2>3. \A j \in 1..Len(d) : d[j] = b[j]
        BY <2>1, <2>2
    <2>4. d = b
        BY <2>1, <2>3, SeqEqual
    <2>. QED BY <2>4 DEF d
<1>9. i \in Nat /\ i \in 0..Len(q)
    BY <1>2, <1>3
<1>. HIDE DEF i
<1>10. PutAt(q, r, n, i)
    BY <1>1, <1>5, <1>6, <1>7, <1>8, <1>9 DEF PutAt, Mid
<1>. QED BY <1>9, <1>10

LEMMA Inserted ==
    ASSUME NEW t, NEW below, WellFormed(t, below), NEW n \in Nodes \ below[t.head],
           NEW m \in Pointer, NEW s \in Side,
           m = Nil => t.head = Nil,
           m # Nil => m \in below[t.head] /\ Kid(t, s, m) = Nil,
           NEW u, AddedTo(t, u, n, m, s),
           key \in [Nodes -> Int], Ordered(u, With(below, n, m), key)
    PROVE  \E i \in Nat : PutAt(InOrder(t), InOrder(u), n, i)
<1>1. t \in Trees /\ Shape(t, below)
    BY DEF WellFormed
<1>2. WellFormed(u, With(below, n, m))
    BY AddedShape
<1>3. PICK v : WalkOf(t, v) /\ InOrder(t) = v[t.head]
    BY <1>1, InOrderIs
<1>4. PICK w : WalkOf(u, w) /\ InOrder(u) = w[u.head]
    BY <1>2, InOrderIs DEF WellFormed
<1>5. Plus(v[t.head], w[u.head], n)
    BY <1>3, <1>4, AddedWalk
<1>6. SortedBy(key, w[u.head])
    BY <1>2, <1>4, WalkSorted
<1>7. n \in Nodes
    OBVIOUS
<1>. QED BY <1>3, <1>4, <1>5, <1>6, <1>7, PlusPuts

(* A node that is taken out was somewhere.                                 *)
DroppedFrom(q, r) == \E i \in 1..Len(q) : r = Drop(q, i)

LEMMA Removed ==
    ASSUME NEW t, NEW below, WellFormed(t, below), NEW n \in below[t.head], NEW s \in Side,
           Kid(t, Opposite(s), n) = Nil, NEW u, RemovedTo(t, u, n, s)
    PROVE  DroppedFrom(InOrder(t), InOrder(u))
<1>1. t \in Trees /\ Shape(t, below) /\ t.head \in Pointer
    BY DEF WellFormed, Trees
<1>2. n \in Nodes
    BY <1>1, BelowNested
<1>3. WellFormed(u, Without(below, n))
    BY RemovedShape
<1>4. PICK v : WalkOf(t, v) /\ InOrder(t) = v[t.head]
    BY <1>1, InOrderIs
<1>5. PICK w : WalkOf(u, w) /\ InOrder(u) = w[u.head]
    BY <1>3, InOrderIs DEF WellFormed
<1>6. Plus(w[u.head], v[t.head], n)
    BY <1>4, <1>5, RemovedWalk
<1>7. PICK a \in Seq(Nodes), b \in Seq(Nodes) : w[u.head] = a \o b /\ v[t.head] = Mid(a, n, b)
    BY <1>6 DEF Plus
<1>8. Len(a) + 1 \in 1..Len(Mid(a, n, b)) /\ Drop(Mid(a, n, b), Len(a) + 1) = a \o b
    BY <1>2, PlusDrops
<1>. QED BY <1>4, <1>5, <1>7, <1>8 DEF DroppedFrom

(* To exchange two neighbours and take out the later one is to take out    *)
(* the one that was first.                                                 *)
LEMMA NextDrops ==
    ASSUME NEW q, NEW A, Lists(q, A), NEW i \in 1..Len(q), i + 1 \in 1..Len(q),
           NEW e, Mapped(q, e, Swap(q[i], q[i + 1]))
    PROVE  Drop(e, i + 1) = Drop(q, i)
<1>. DEFINE n == q[i]
            m == q[i + 1]
            f == Swap(n, m)
            d == Drop(e, i + 1)
            c == Drop(q, i)
<1>1. /\ q \in Seq(Nodes) /\ e \in Seq(Nodes) /\ Len(e) = Len(q) /\ Len(q) \in Nat /\ i \in Nat
      /\ \A j \in 1..Len(q) : e[j] = f[q[j]]
    BY DEF Lists, Mapped
<1>2. n \in Nodes /\ m \in Nodes
    BY <1>1
<1>3. /\ f[n] = m /\ \A x \in Pointer : x # n /\ x # m => f[x] = x
    BY <1>2, SwapIs
<1>4. ASSUME NEW j \in 1..Len(q), j # i, j # i + 1 PROVE e[j] = q[j]
    <2>1. q[j] # n /\ q[j] # m
        BY <1>4, ListedOnce
    <2>2. q[j] \in Pointer
        BY <1>1, NilIsNoNode
    <2>. QED BY <2>1, <2>2, <1>1, <1>3
<1>5. e[i] = m
    BY <1>1, <1>3
<1>. HIDE DEF f
<1>6. /\ c \in Seq(Nodes) /\ Len(c) = Len(q) - 1
      /\ \A j \in 1..(Len(q) - 1) : c[j] = IF j < i THEN q[j] ELSE q[j + 1]
    BY <1>1, DropIs
<1>7. /\ d \in Seq(Nodes) /\ Len(d) = Len(e) - 1
      /\ \A j \in 1..(Len(e) - 1) : d[j] = IF j < i + 1 THEN e[j] ELSE e[j + 1]
    <2>1. i + 1 \in 1..Len(e)
        BY <1>1
    <2>. QED BY <2>1, <1>1, DropIs
<1>. HIDE DEF c, d
<1>8. ASSUME NEW j \in 1..Len(c) PROVE d[j] = c[j]
    <2>1. j \in 1..(Len(q) - 1) /\ j \in 1..(Len(e) - 1) /\ j \in 1..Len(q) /\ j + 1 \in 1..Len(q)
          /\ j \in Nat
        BY <1>1, <1>6
    <2>2. CASE j < i
        <3>1. j < i + 1 /\ j # i /\ j # i + 1
            BY <2>1, <2>2, <1>1
        <3>2. e[j] = q[j]
            BY <3>1, <2>1, <1>4
        <3>. QED BY <3>1, <3>2, <2>1, <2>2, <1>6, <1>7
    <2>3. CASE j = i
        <3>1. j < i + 1 /\ ~(j < i)
            BY <2>1, <2>3, <1>1
        <3>2. d[j] = e[j] /\ c[j] = q[j + 1]
            BY <3>1, <2>1, <1>6, <1>7
        <3>. QED BY <3>2, <2>3, <1>5
    <2>4. CASE j > i
        <3>1. ~(j < i + 1) /\ ~(j < i) /\ j + 1 # i /\ j + 1 # i + 1
            BY <2>1, <2>4, <1>1
        <3>2. e[j + 1] = q[j + 1]
            BY <3>1, <2>1, <1>4
        <3>. QED BY <3>1, <3>2, <2>1, <1>6, <1>7
    <2>. QED BY <2>1, <2>2, <2>3, <2>4, <1>1
<1>9. Len(d) = Len(c)
    BY <1>1, <1>6, <1>7
<1>10. d = c
    BY <1>6, <1>7, <1>8, <1>9, SeqEqual
<1>. QED BY <1>10 DEF c, d

LEMMA Replaced ==
    ASSUME NEW t, NEW below, WellFormed(t, below), NEW n \in below[t.head],
           \A s \in Side : Kid(t, s, n) # Nil
    PROVE  DroppedFrom(InOrder(t), InOrder(Fresh(Replace(t, n), n)))
<1>. DEFINE m == Successor(t, n)
            f == Swap(n, m)
            e == Relabelled(t, f)
            low == BelowSwapped(below, f)
            u == Fresh(Replace(t, n), n)
<1>1. t \in Trees /\ Shape(t, below) /\ t.head \in Pointer
    BY DEF WellFormed, Trees
<1>2. n \in Nodes
    BY <1>1, BelowNested
<1>3. m \in Nodes /\ m \in below[t.head] /\ m # n
    BY SuccessorIs
<1>4. RemovedTo(e, u, n, Right) /\ Kid(e, Left, n) = Nil
    BY ReplaceIs
<1>5. Neighbour(t, Right, n) = m
    <2>1. Kid(t, Right, n) # Nil /\ Opposite(Right) = Left
        BY DEF Side, Opposite, Left, Right
    <2>. QED BY <2>1, NeighbourIs DEF Successor
<1>6. f[m] = n /\ f[n] = m /\ \A x \in Pointer : f[f[x]] = x
    BY <1>2, <1>3, SwapIs
<1>. HIDE DEF m, u
<1>7. WellFormed(e, low) /\ low[e.head] = below[t.head]
    BY <1>2, <1>3, RelabelledShape
<1>8. PICK v : WalkOf(t, v) /\ InOrder(t) = v[t.head]
    BY <1>1, InOrderIs
<1>9. PICK w : WalkOf(e, w) /\ InOrder(e) = w[e.head]
    BY <1>7, InOrderIs DEF WellFormed
<1>. DEFINE q == InOrder(t)
            d == InOrder(e)
<1>10. Mapped(q, d, f)
    <2>. HIDE DEF e
    <2>1. e = Relabelled(t, Swap(n, m))
        BY DEF e
    <2>2. Mapped(v[t.head], w[e.head], Swap(n, m))
        BY <2>1, <1>3, <1>8, <1>9, RelabelledWalk
    <2>. QED BY <2>2, <1>8, <1>9
<1>11. WellFormed(u, Without(low, n))
    <2>1. Right \in Side /\ Opposite(Right) = Left
        BY DEF Side, Opposite, Left, Right
    <2>. HIDE DEF e, low
    <2>. QED BY <2>1, <1>4, <1>7, RemovedShape
<1>12. PICK z : WalkOf(u, z) /\ InOrder(u) = z[u.head]
    BY <1>11, InOrderIs DEF WellFormed
<1>13. Plus(InOrder(u), d, n)
    <2>1. Right \in Side /\ Opposite(Right) = Left
        BY DEF Side, Opposite, Left, Right
    <2>. HIDE DEF e, low
    <2>2. Plus(z[u.head], w[e.head], n)
        BY <2>1, <1>4, <1>7, <1>9, <1>12, RemovedWalk
    <2>. QED BY <2>2, <1>9, <1>12
<1>. HIDE DEF e, low, q, d, f
<1>14. Lists(q, below[t.head])
    BY <1>1, <1>8, WalkLists DEF q
<1>15. PICK i \in 1..Len(q) : q[i] = n
    BY <1>14 DEF Lists
<1>16. i + 1 \in 1..Len(q) /\ q[i + 1] = m
    <2>1. Neighbour(t, Right, q[i]) = Nth(q, i + 1)
        BY <1>15, IteratorSteps DEF q
    <2>2. Nth(q, i + 1) = m /\ m # Nil
        BY <2>1, <1>3, <1>5, <1>15, NilIsNoNode
    <2>. QED BY <2>2 DEF Nth
<1>17. PICK a \in Seq(Nodes), b \in Seq(Nodes) : InOrder(u) = a \o b /\ d = Mid(a, n, b)
    BY <1>13 DEF Plus
<1>18. /\ Len(a) + 1 \in 1..Len(d) /\ d[Len(a) + 1] = n
       /\ Drop(d, Len(a) + 1) = InOrder(u)
    BY <1>2, <1>17, PlusDrops
<1>19. Len(a) + 1 = i + 1
    <2>. DEFINE k == Len(a) + 1
    <2>1. k \in 1..Len(q) /\ d[k] = f[q[k]]
        BY <1>10, <1>18 DEF Mapped
    <2>2. q[k] \in Nodes
        BY <2>1, <1>14 DEF Lists
    <2>3. q[k] = m
        BY <2>1, <2>2, <1>6, <1>18, NilIsNoNode
    <2>. HIDE DEF k
    <2>4. k = i + 1
        BY <2>1, <2>3, <1>14, <1>16, ListedOnce
    <2>. QED BY <2>4 DEF k
<1>20. Mapped(q, d, Swap(q[i], q[i + 1]))
    BY <1>10, <1>15, <1>16 DEF f
<1>21. Drop(d, i + 1) = Drop(q, i)
    BY <1>14, <1>16, <1>20, NextDrops
<1>22. InOrder(u) = Drop(q, i)
    BY <1>18, <1>19, <1>21
<1>. QED BY <1>22 DEF DroppedFrom, q, u

(* Two nodes that exchange their places, in the sequence and in the keys.  *)
ExchangedAt(q, r, a, b, i, j) ==
    /\ i \in 1..Len(q) /\ j \in 1..Len(q) /\ i < j
    /\ r = [q EXCEPT ![i] = q[j], ![j] = q[i]]
    /\ \/ q[i] = a /\ q[j] = b
       \/ q[i] = b /\ q[j] = a

LEMMA MappedExchanges ==
    ASSUME NEW q, NEW A, Lists(q, A), NEW a \in A, NEW b \in A, a # b, NEW r,
           Mapped(q, r, Swap(a, b))
    PROVE  \E i, j \in Nat : ExchangedAt(q, r, a, b, i, j)
<1>. DEFINE f == Swap(a, b)
<1>1. /\ q \in Seq(Nodes) /\ r \in Seq(Nodes) /\ Len(r) = Len(q) /\ Len(q) \in Nat
      /\ \A k \in 1..Len(q) : r[k] = f[q[k]]
    BY DEF Lists, Mapped
<1>2. PICK x \in 1..Len(q) : q[x] = a
    BY DEF Lists
<1>3. PICK y \in 1..Len(q) : q[y] = b
    BY DEF Lists
<1>4. a \in Nodes /\ b \in Nodes
    BY <1>1, <1>2, <1>3
<1>5. f[a] = b /\ f[b] = a /\ \A z \in Pointer : z # a /\ z # b => f[z] = z
    BY <1>4, SwapIs
<1>. HIDE DEF f
<1>6. ASSUME NEW i \in 1..Len(q), NEW j \in 1..Len(q),
             (q[i] = a /\ q[j] = b) \/ (q[i] = b /\ q[j] = a)
      PROVE  r = [q EXCEPT ![i] = q[j], ![j] = q[i]]
    <2>. DEFINE e == [q EXCEPT ![i] = q[j], ![j] = q[i]]
    <2>1. e \in Seq(Nodes) /\ Len(e) = Len(q)
        BY <1>1, <1>4, <1>6
    <2>2. ASSUME NEW k \in 1..Len(q) PROVE r[k] = e[k]
        <3>1. e[k] = IF k = j THEN q[i] ELSE IF k = i THEN q[j] ELSE q[k]
            BY <1>1
        <3>2. i # j /\ q[k] \in Pointer
            BY <1>1, <1>6, NilIsNoNode
        <3>3. CASE k # i /\ k # j
            <4>1. q[k] # q[i] /\ q[k] # q[j]
                BY <3>3, ListedOnce
            <4>. QED BY <4>1, <3>1, <3>2, <3>3, <1>1, <1>5, <1>6
        <3>4. CASE k = i \/ k = j
            BY <3>1, <3>2, <3>4, <1>1, <1>5, <1>6
        <3>. QED BY <3>3, <3>4
    <2>. HIDE DEF e
    <2>3. r = e
        BY <2>1, <2>2, <1>1, SeqEqual
    <2>. QED BY <2>3 DEF e
<1>7. x # y /\ x \in Nat /\ y \in Nat
    BY <1>2, <1>3
<1>8. CASE x < y
    BY <1>2, <1>3, <1>6, <1>7, <1>8 DEF ExchangedAt
<1>9. CASE y < x
    BY <1>2, <1>3, <1>6, <1>7, <1>9 DEF ExchangedAt
<1>. QED BY <1>7, <1>8, <1>9

(* A rotation changes nothing that a client sees.                          *)
LEMMA RotatedSame ==
    ASSUME NEW t, NEW below, WellFormed(t, below), NEW n \in below[t.head], NEW s \in Side,
           Kid(t, s, n) # Nil
    PROVE  InOrder(Rotate(t, n, s)) = InOrder(t)
<1>. DEFINE u == Rotate(t, n, s)
<1>1. t \in Trees /\ Shape(t, below)
    BY DEF WellFormed
<1>2. WellFormed(u, BelowRotated(t, below, n, s))
    BY RotateShape
<1>3. u = Rotate(t, n, s)
    OBVIOUS
<1>. HIDE DEF u
<1>4. PICK v : WalkOf(t, v) /\ InOrder(t) = v[t.head]
    BY <1>1, InOrderIs
<1>5. PICK w : WalkOf(u, w) /\ InOrder(u) = w[u.head]
    BY <1>2, InOrderIs DEF WellFormed
<1>6. w[u.head] = v[t.head]
    BY <1>3, <1>4, <1>5, RotatedWalk
<1>. QED BY <1>4, <1>5, <1>6 DEF u

LEMMA CountedSame ==
    ASSUME tree \in Trees
    PROVE  InOrder(Counted) = InOrder(tree)
<1>1. Counted.kid = tree.kid /\ Counted.head = tree.head
    BY DEF Counted, Trees
<1>. QED BY <1>1 DEF InOrder, Kid

LEMMA TurnSame ==
    ASSUME NEW below, WellFormed(tree, below), Running(tree, below, pc, loop),
           pc = "rebalance", Diff >= 2
    PROVE  InOrder(Rotate(Straightened, loop.node, loop.side)) = InOrder(tree)
<1>. DEFINE n == loop.node
            s == loop.side
            o == Opposite(s)
            t == Counted
            c == Kid(Counted, s, n)
            st == Straightened
<1>1. n \in Nodes /\ s \in Side /\ n \in below[tree.head] /\ o \in Side /\ Opposite(o) = s
    BY TurnBegins, Sides
<1>2. /\ WellFormed(t, below) /\ t.head = tree.head
      /\ \A r \in Side, x \in Nodes : Kid(t, r, x) = Kid(tree, r, x)
      /\ \A x \in Nodes : t.h_diff[x] = IF x = n THEN Sign(s) * Diff ELSE tree.h_diff[x]
    BY <1>1, CountedIs
<1>3. Followed
    BY TurnLeaves
<1>4. InOrder(t) = InOrder(tree)
    BY CountedSame DEF WellFormed
<1>5. st = IF t.h_diff[c] = -Sign(s) THEN Rotate(t, c, o) ELSE t
    BY DEF Straightened
<1>6. c = Kid(tree, s, n) /\ c # Nil
    BY <1>1, <1>2, <1>3 DEF Followed
<1>7. tree.h_diff[c] = -Sign(s) => Kid(tree, o, c) # Nil
    BY <1>3, <1>6 DEF Followed
<1>. HIDE DEF n, s, o, t, st
<1>8. c \in Nodes /\ c \in below[t.head] /\ n # c /\ Kid(t, o, c) # n /\ n \in below[t.head]
    BY <1>1, <1>2, <1>6, Around DEF o, t
<1>. HIDE DEF c
<1>9. c = Kid(t, s, n)
    BY DEF c, t
<1>10. InOrder(Rotate(st, n, s)) = InOrder(t)
    <2>1. CASE t.h_diff[c] # -Sign(s)
        <3>1. st = t
            BY <2>1, <1>5
        <3>. QED BY <3>1, <1>1, <1>2, <1>6, <1>8, <1>9, RotatedSame
    <2>2. CASE t.h_diff[c] = -Sign(s)
        <3>1. st = Rotate(t, c, o)
            BY <2>2, <1>5
        <3>2. Kid(t, o, c) # Nil
            <4>1. tree.h_diff[c] = -Sign(s)
                BY <2>2, <1>2, <1>8
            <4>. QED BY <4>1, <1>1, <1>2, <1>7, <1>8
        <3>3. InOrder(st) = InOrder(t)
            BY <3>1, <3>2, <1>1, <1>2, <1>8, RotatedSame
        <3>. DEFINE d == BelowRotated(t, below, c, o)
        <3>4. WellFormed(st, d) /\ d[st.head] = below[t.head]
            BY <3>1, <3>2, <1>1, <1>2, <1>8, RotateShape
        <3>5. Kid(st, s, n) = Kid(t, o, c)
            <4>1. \A r \in Side, x \in Nodes :
                     Kid(st, r, x) = IF x = c /\ r = o THEN Kid(t, Opposite(o), Kid(t, o, c))
                                     ELSE IF x = Kid(t, o, c) /\ r = Opposite(o) THEN c
                                     ELSE IF Kid(t, r, x) = c THEN Kid(t, o, c) ELSE Kid(t, r, x)
                BY <3>1, <3>2, <1>1, <1>2, <1>8, RotateIs
            <4>. QED BY <4>1, <1>1, <1>8, <1>9
        <3>. HIDE DEF d
        <3>6. n \in d[st.head] /\ Kid(st, s, n) # Nil
            BY <3>2, <3>4, <3>5, <1>8
        <3>7. InOrder(Rotate(st, n, s)) = InOrder(st)
            BY <3>4, <3>6, <1>1, RotatedSame
        <3>. QED BY <3>3, <3>7
    <2>. QED BY <2>1, <2>2
<1>. QED BY <1>4, <1>10 DEF n, s, st

-------------------------------------------------------------------------------
(* The refinement *)

LEMMA StoredIs ==
    ASSUME NEW below, WellFormed(tree, below)
    PROVE  Lists(InOrder(tree), below[tree.head]) /\ Sorted!Stored = Owned(tree)
<1>1. tree \in Trees /\ Shape(tree, below) /\ tree.head \in Pointer
    BY DEF WellFormed, Trees
<1>2. PICK v : WalkOf(tree, v) /\ InOrder(tree) = v[tree.head]
    BY <1>1, InOrderIs
<1>3. Lists(InOrder(tree), below[tree.head])
    BY <1>1, <1>2, WalkLists
<1>4. Owned(tree) = below[tree.head]
    BY OwnedBelow
<1>. QED BY <1>3, <1>4 DEF Lists, Sorted!Stored

LEMMA OrderNext == InOrder(tree)' = InOrder(tree')
BY DEF InOrder, Kid

LEMMA InsertStep ==
    ASSUME NEW below, WellFormed(tree, below), Ordered(tree, below, key),
           key \in [Nodes -> Int], NEW n \in Nodes, Insert(n)
    PROVE  Sorted!Insert(n)
<1>1. /\ n \notin Owned(tree) /\ Attach(Fresh(tree, n), n) /\ key' = key
    BY DEF Insert
<1>2. n \in Nodes \ below[tree.head]
    BY <1>1, OwnedBelow
<1>3. Attach(tree, n)
    <2>1. Fresh(tree, n) = tree
        BY <1>2, FreshApart
    <2>. QED BY <2>1, <1>1
<1>4. tree \in Trees /\ Shape(tree, below) /\ Linked(tree)
    BY DEF WellFormed
<1>5. \E i \in Nat : PutAt(InOrder(tree), InOrder(tree'), n, i)
    <2>1. CASE tree.head = Nil
        <3>. DEFINE u == [tree EXCEPT !.head = n, !.root[n] = TRUE, !.parent[n] = Nil]
        <3>1. tree' = u
            BY <1>3, <2>1 DEF Attach
        <3>2. AddedTo(tree, u, n, Nil, Left)
            BY <1>2, FirstAdded
        <3>. HIDE DEF u
        <3>3. Ordered(u, With(below, n, Nil), key)
            BY <3>2, <2>1, <1>2, NilIsNoNode, AddedOrder DEF Side
        <3>4. \E i \in Nat : PutAt(InOrder(tree), InOrder(u), n, i)
            BY <3>2, <3>3, <2>1, <1>2, NilIsNoNode, Inserted DEF Side
        <3>. QED BY <3>1, <3>4
    <2>2. CASE tree.head # Nil
        <3>. DEFINE p == Place(tree, n)
                    m == p.of
                    s == p.side
                    u == [Put(tree, Slot(m, s), n) EXCEPT !.root[n] = FALSE, !.parent[n] = m]
        <3>1. tree.head \in Nodes
            BY <1>4, <2>2 DEF Trees, Pointer
        <3>2. /\ m \in below[tree.head] /\ s \in Side /\ p = Slot(m, s)
              /\ Kid(tree, s, m) = Nil
              /\ Allowed(tree, below, tree.head, key[n], m)
              /\ s = Left => key[n] <= key[m]
              /\ s = Right => key[m] <= key[n]
            BY <3>1, <1>4, PlaceIs
        <3>. HIDE DEF p
        <3>3. tree' = u
            <4>1. tree' = [Put(tree, p, n) EXCEPT !.root[n] = FALSE, !.parent[n] = p.of]
                BY <1>3, <2>2 DEF Attach, p
            <4>. QED BY <4>1, <3>2
        <3>. HIDE DEF m, s
        <3>4. m \in Nodes /\ m \in Pointer /\ m # Nil
            BY <3>1, <3>2, <1>4, BelowNested, NilIsNoNode
        <3>5. AddedTo(tree, u, n, m, s)
            BY <3>2, <3>4, <1>2, NextAdded
        <3>. HIDE DEF u
        <3>6. Ordered(u, With(below, n, m), key)
            BY <3>2, <3>4, <3>5, <1>2, AddedOrder
        <3>7. \E i \in Nat : PutAt(InOrder(tree), InOrder(u), n, i)
            BY <3>2, <3>4, <3>5, <3>6, <1>2, Inserted
        <3>. QED BY <3>3, <3>7
    <2>. QED BY <2>1, <2>2
<1>6. PICK i \in Nat : PutAt(InOrder(tree), InOrder(tree'), n, i)
    BY <1>5
<1>7. n \notin Sorted!Stored
    BY <1>1, StoredIs
<1>. QED BY <1>1, <1>6, <1>7, OrderNext DEF PutAt, Sorted!Insert

LEMMA RemoveStep ==
    ASSUME NEW below, WellFormed(tree, below), NEW n \in Nodes, Remove(n)
    PROVE  \E i \in 1..Len(InOrder(tree)) : Sorted!Remove(i)
<1>1. n \in Owned(tree) /\ key' = key
    BY DEF Remove
<1>2. n \in below[tree.head]
    BY <1>1, OwnedBelow
<1>3. DroppedFrom(InOrder(tree), InOrder(tree'))
    <2>1. CASE \A s \in Side : Kid(tree, s, n) # Nil
        <3>1. tree' = Fresh(Replace(tree, n), n)
            BY <2>1 DEF Remove
        <3>2. DroppedFrom(InOrder(tree), InOrder(Fresh(Replace(tree, n), n)))
            BY <2>1, <1>2, Replaced
        <3>. QED BY <3>1, <3>2
    <2>2. CASE ~\A s \in Side : Kid(tree, s, n) # Nil
        <3>. DEFINE s == IF Kid(tree, Left, n) # Nil THEN Left ELSE Right
                    u == Fresh(Splice(tree, n), n)
        <3>1. tree' = u
            BY <2>2 DEF Remove
        <3>2. s \in Side /\ Kid(tree, Opposite(s), n) = Nil
            BY <2>2 DEF Side, Opposite, Left, Right
        <3>3. RemovedTo(tree, u, n, s)
            BY <3>2, <1>2, SpliceIs
        <3>. HIDE DEF s, u
        <3>4. DroppedFrom(InOrder(tree), InOrder(u))
            BY <3>2, <3>3, <1>2, Removed
        <3>. QED BY <3>1, <3>4
    <2>. QED BY <2>1, <2>2
<1>. QED BY <1>1, <1>3, OrderNext DEF DroppedFrom, Drop, Sorted!Remove

LEMMA ConsumeStep ==
    ASSUME NEW below, WellFormed(tree, below), Running(tree, below, pc, loop), Consume
    PROVE  \E i \in 1..Len(InOrder(tree)) : Sorted!Remove(i)
<1>. DEFINE n == loop.node
            c == Kid(tree, Right, n)
            up == SetRoot(SetParent(tree, c, tree.parent[n]), c, tree.root[n])
            u == Fresh(Put(up, parent_ptr(tree, n), c), n)
<1>1. pc = "consume" /\ tree' = u /\ key' = key
    BY DEF Consume
<1>2. n \in Nodes /\ Leftmost(tree, below, n)
    BY <1>1 DEF Running
<1>3. /\ tree \in Trees /\ n \in below[tree.head] /\ Kid(tree, Left, n) = Nil
      /\ Right \in Side /\ Opposite(Right) = Left
    BY <1>2 DEF WellFormed, Leftmost, Side, Opposite, Left, Right
<1>. HIDE DEF n
<1>4. RemovedTo(tree, u, n, Right)
    BY <1>3, HangIs
<1>. HIDE DEF u
<1>5. DroppedFrom(InOrder(tree), InOrder(u))
    BY <1>3, <1>4, Removed
<1>. QED BY <1>1, <1>5, OrderNext DEF DroppedFrom, Drop, Sorted!Remove

LEMMA SwapStep ==
    ASSUME NEW below, WellFormed(tree, below), key \in [Nodes -> Int],
           NEW a \in Nodes, NEW b \in Nodes, SwapPositions(a, b)
    PROVE  \E i, j \in 1..Len(InOrder(tree)) : i < j /\ Sorted!Exchange(i, j)
<1>. DEFINE f == Swap(a, b)
            u == Relabelled(tree, f)
            q == InOrder(tree)
<1>1. /\ a # b /\ a \in Owned(tree) /\ b \in Owned(tree)
      /\ tree' = Swapped(tree, a, b) /\ key' = Exchanged(key, a, b)
    BY DEF SwapPositions
<1>2. a \in below[tree.head] /\ b \in below[tree.head]
    BY <1>1, OwnedBelow
<1>3. tree' = u
    BY <1>1, <1>2, SwappedIs
<1>4. tree \in Trees /\ Shape(tree, below) /\ tree.head \in Pointer
    BY DEF WellFormed, Trees
<1>5. WellFormed(u, BelowSwapped(below, f))
    BY <1>2, RelabelledShape
<1>6. u = Relabelled(tree, Swap(a, b))
    OBVIOUS
<1>. HIDE DEF u
<1>7. PICK v : WalkOf(tree, v) /\ InOrder(tree) = v[tree.head]
    BY <1>4, InOrderIs
<1>8. PICK w : WalkOf(u, w) /\ InOrder(u) = w[u.head]
    BY <1>5, InOrderIs DEF WellFormed
<1>9. Mapped(v[tree.head], w[u.head], Swap(a, b))
    BY <1>2, <1>6, <1>7, <1>8, RelabelledWalk
<1>10. Lists(q, below[tree.head])
    BY StoredIs
<1>11. \E i, j \in Nat : ExchangedAt(q, InOrder(u), a, b, i, j)
    <2>1. Mapped(q, InOrder(u), Swap(a, b))
        BY <1>7, <1>8, <1>9
    <2>. HIDE DEF q
    <2>. QED BY <2>1, <1>1, <1>2, <1>10, MappedExchanges
<1>12. PICK i \in Nat, j \in Nat : ExchangedAt(q, InOrder(u), a, b, i, j)
    BY <1>11
<1>13. key' = [key EXCEPT ![q[i]] = key[q[j]], ![q[j]] = key[q[i]]]
    BY <1>1, <1>12 DEF ExchangedAt, Exchanged
<1>14. Sorted!Exchange(i, j)
    BY <1>3, <1>12, <1>13, OrderNext DEF ExchangedAt, Sorted!Exchange
<1>. QED BY <1>12, <1>14 DEF ExchangedAt

LEMMA InitSorted == Init => Sorted!Init
<1>1. SUFFICES ASSUME Init PROVE Sorted!Init
    OBVIOUS
<1>2. PICK below : WellFormed(tree, below)
    BY <1>1, InitGood DEF IInv, Good
<1>3. PICK v : WalkOf(tree, v) /\ InOrder(tree) = v[tree.head]
    BY <1>2, InOrderIs DEF WellFormed
<1>4. InOrder(tree) = <<>>
    BY <1>1, <1>3 DEF Init, WalkOf
<1>. QED BY <1>1, <1>4 DEF Init, Sorted!Init

LEMMA NextSorted == IInv /\ [Next]_vars => [Sorted!Next]_(Sorted!vars)
<1>1. SUFFICES ASSUME IInv, [Next]_vars PROVE [Sorted!Next]_(Sorted!vars)
    OBVIOUS
<1>2. key \in [Nodes -> Int]
    BY <1>1 DEF IInv
<1>3. PICK below : /\ WellFormed(tree, below) /\ Ordered(tree, below, key)
                   /\ Running(tree, below, pc, loop)
    BY <1>1 DEF IInv, Good
<1>4. ASSUME InOrder(tree') = InOrder(tree), key' = key PROVE UNCHANGED Sorted!vars
    BY <1>4, OrderNext DEF Sorted!vars
<1>5. CASE \E n \in Nodes : Insert(n) \/ Remove(n)
    <2>1. PICK n \in Nodes : Insert(n) \/ Remove(n)
        BY <1>5
    <2>2. CASE Insert(n)
        <3>1. Sorted!Insert(n)
            BY <2>2, <1>2, <1>3, InsertStep
        <3>. QED BY <3>1 DEF Sorted!Next
    <2>3. CASE Remove(n)
        <3>1. \E i \in 1..Len(InOrder(tree)) : Sorted!Remove(i)
            BY <2>3, <1>3, RemoveStep
        <3>. QED BY <3>1 DEF Sorted!Next
    <2>. QED BY <2>1, <2>2, <2>3
<1>6. CASE \E a, b \in Nodes : SwapPositions(a, b)
    <2>1. PICK a \in Nodes, b \in Nodes : SwapPositions(a, b)
        BY <1>6
    <2>2. \E i, j \in 1..Len(InOrder(tree)) : i < j /\ Sorted!Exchange(i, j)
        BY <2>1, <1>2, <1>3, SwapStep
    <2>. QED BY <2>2 DEF Sorted!Next
<1>7. CASE Lean
    <2>1. tree' = Counted /\ key' = key
        BY <1>7 DEF Lean
    <2>2. InOrder(tree') = InOrder(tree)
        BY <2>1, <1>3, CountedSame DEF WellFormed
    <2>. QED BY <2>1, <2>2, <1>4
<1>8. CASE Turn
    <2>1. /\ tree' = Rotate(Straightened, loop.node, loop.side) /\ key' = key
          /\ pc = "rebalance" /\ Diff >= 2
        BY <1>8 DEF Turn
    <2>2. InOrder(tree') = InOrder(tree)
        BY <2>1, <1>3, TurnSame
    <2>. QED BY <2>1, <2>2, <1>4
<1>9. CASE ConsumeBegin
    BY <1>4, <1>9 DEF ConsumeBegin
<1>10. CASE Consume
    <2>1. \E i \in 1..Len(InOrder(tree)) : Sorted!Remove(i)
        BY <1>3, <1>10, ConsumeStep
    <2>. QED BY <2>1 DEF Sorted!Next
<1>11. CASE UNCHANGED vars
    BY <1>4, <1>11 DEF vars
<1>. QED BY <1>1, <1>5, <1>6, <1>7, <1>8, <1>9, <1>10, <1>11 DEF Next

(* The tree implements a sorted sequence: an insertion puts its node where *)
(* the keys stay sorted, a removal and a step of consume() take out one    *)
(* node and leave the others in their order, an exchange exchanges two,    *)
(* and rebalance() changes nothing that a client sees.                     *)
THEOREM TreeIsSortedSequence == Spec => ImplementsSorted
BY InitSorted, NextSorted, TreeInvariant, PTL DEF Spec, ImplementsSorted, Sorted!Spec
===============================================================================
