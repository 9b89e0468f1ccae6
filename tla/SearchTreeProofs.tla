--------------------------- MODULE SearchTreeProofs ---------------------------
(***************************************************************************)
(* Proofs about SearchTree for any nodes, any keys and any number of       *)
(* exchanges: the pointers agree and the tree is balanced.                 *)
(*                                                                         *)
(* What is below a node is recursive in the tree.  The lemmas speak of     *)
(* some function from the nodes to sets of nodes that satisfies the        *)
(* equation at every node, and say what it is after an operation.          *)
(*                                                                         *)
(* The invariant says that such a function and one from the nodes to       *)
(* heights exist, but for the height of the node at which rebalance() is;  *)
(* a step says what they are afterwards.                                   *)
(***************************************************************************)
EXTENDS SearchTree, TLAPS, FiniteSetTheorems, SequenceTheorems, WellFoundedInduction

Trees == [kid : [Side -> [Nodes -> Pointer]], parent : [Nodes -> Pointer],
          root : [Nodes -> BOOLEAN], h_diff : [Nodes -> Int], head : Pointer]

(* below[n] is n and the nodes under it, each in one place.                *)
Shape(t, below) ==
    /\ below \in [Pointer -> SUBSET Nodes]
    /\ below[Nil] = {}
    /\ \A n \in Nodes : IsFiniteSet(below[n])
    /\ \A n \in Nodes, s \in Side :
          /\ below[n] = {n} \cup below[Kid(t, s, n)] \cup below[Kid(t, Opposite(s), n)]
          /\ n \notin below[Kid(t, s, n)]
          /\ below[Kid(t, s, n)] \cap below[Kid(t, Opposite(s), n)] = {}

(* Parents and children point to each other, and one node is the root.     *)
Linked(t) ==
    /\ t.head # Nil => t.parent[t.head] = Nil
    /\ \A n \in Nodes, s \in Side : Kid(t, s, n) # Nil => t.parent[Kid(t, s, n)] = n
    /\ \A n \in Nodes :
          t.parent[n] # Nil => \E s \in Side : Kid(t, s, t.parent[n]) = n
    /\ \A n \in Nodes : t.root[n] <=> n = t.head

(* A node that is not in the tree points to nothing.                       *)
Apart(t, below) ==
    \A n \in Nodes : n \notin below[t.head] =>
        t.parent[n] = Nil /\ t.h_diff[n] = 0 /\ \A s \in Side : Kid(t, s, n) = Nil

WellFormed(t, below) == t \in Trees /\ Shape(t, below) /\ Linked(t) /\ Apart(t, below)

-------------------------------------------------------------------------------
(* Sides and pointers *)

LEMMA Sides ==
    ASSUME NEW s \in Side
    PROVE  /\ Opposite(s) \in Side /\ Opposite(s) # s /\ Opposite(Opposite(s)) = s
           /\ \A r \in Side : r = s \/ r = Opposite(s)
           /\ Sign(s) \in {-1, 1} /\ Sign(Opposite(s)) = -Sign(s)
BY DEF Side, Left, Right, Opposite, Sign

LEMMA KidType ==
    ASSUME NEW t \in Trees, NEW s \in Side, NEW n \in Nodes
    PROVE  Kid(t, s, n) \in Pointer
BY DEF Trees, Kid

LEMMA NilIsNoNode == Nil \notin Nodes /\ Nil \in Pointer /\ Nodes \subseteq Pointer
BY TreeAssumption DEF Pointer

LEMMA ShapeAt ==
    ASSUME NEW t \in Trees, NEW below, Shape(t, below), NEW n \in Nodes, NEW s \in Side
    PROVE  /\ Kid(t, s, n) \in Pointer /\ Kid(t, Opposite(s), n) \in Pointer
           /\ below[n] \in SUBSET Nodes /\ below[Kid(t, s, n)] \in SUBSET Nodes
           /\ below[n] = {n} \cup below[Kid(t, s, n)] \cup below[Kid(t, Opposite(s), n)]
           /\ n \notin below[Kid(t, s, n)] /\ n \notin below[Kid(t, Opposite(s), n)]
           /\ below[Kid(t, s, n)] \cap below[Kid(t, Opposite(s), n)] = {}
           /\ n \in below[n] /\ below[Kid(t, s, n)] \subseteq below[n]
BY Sides, KidType, NilIsNoNode DEF Shape

-------------------------------------------------------------------------------
(* What holds of every tree *)

(* A set that has a node whenever it has its children has every node.      *)
LEMMA TreeInduction ==
    ASSUME NEW t \in Trees, NEW below, Shape(t, below), NEW S, Nil \in S,
           \A n \in Nodes : (\A s \in Side : Kid(t, s, n) \in S) => n \in S
    PROVE  Pointer \subseteq S
<1>. DEFINE T == {below[n] : n \in Pointer \ S}
<1>. SUFFICES ASSUME ~(Pointer \subseteq S) PROVE FALSE
    OBVIOUS
<1>1. T # {} /\ T \in SUBSET FiniteSubsetsOf(Nodes)
    BY FS_EmptySet, NilIsNoNode DEF Shape, FiniteSubsetsOf, Pointer
<1>2. PICK x \in T : \A y \in T : ~(<<y, x>> \in StrictSubsetOrdering(Nodes))
    BY <1>1, FS_StrictSubsetOrderingWellFounded, WFMin
<1>3. PICK n \in Pointer \ S : x = below[n]
    OBVIOUS
<1>4. n \in Nodes
    BY DEF Pointer
<1>5. PICK s \in Side : Kid(t, s, n) \notin S
    BY <1>3, <1>4
<1>6. below[Kid(t, s, n)] \in T /\ below[Kid(t, s, n)] # x
    BY <1>3, <1>4, <1>5, ShapeAt
<1>7. <<below[Kid(t, s, n)], x>> \in StrictSubsetOrdering(Nodes)
    BY <1>3, <1>4, <1>6, ShapeAt DEF StrictSubsetOrdering
<1>. QED BY <1>2, <1>6, <1>7

(* A set that has a root and the children of its nodes has all below.      *)
LEMMA Downwards ==
    ASSUME NEW t \in Trees, NEW below, Shape(t, below), NEW S, NEW a \in S \cap Nodes,
           \A n \in S \cap Nodes, s \in Side : Kid(t, s, n) \in S \cup {Nil}
    PROVE  below[a] \subseteq S
<1>. DEFINE U == {n \in Pointer : n \in S \cap Nodes => below[n] \subseteq S}
<1>1. Nil \in U
    BY NilIsNoNode
<1>2. ASSUME NEW n \in Nodes, \A s \in Side : Kid(t, s, n) \in U PROVE n \in U
    <2>1. ASSUME n \in S, NEW s \in Side PROVE below[Kid(t, s, n)] \subseteq S
        BY <1>2, <2>1, NilIsNoNode, ShapeAt DEF Shape, Pointer
    <2>2. n \in S => below[n] \subseteq S
        BY <2>1, Sides, ShapeAt DEF Side
    <2>. QED BY <2>2, NilIsNoNode
<1>3. Pointer \subseteq U
    BY <1>1, <1>2, TreeInduction
<1>. QED BY <1>3, NilIsNoNode

LEMMA BelowNested ==
    ASSUME NEW t \in Trees, NEW below, Shape(t, below),
           NEW a \in Pointer, NEW x \in below[a]
    PROVE  x \in Nodes /\ below[x] \subseteq below[a]
<1>. DEFINE S == {n \in Pointer : \A y \in below[n] : below[y] \subseteq below[n]}
<1>1. Nil \in S
    BY NilIsNoNode DEF Shape
<1>2. ASSUME NEW n \in Nodes, \A s \in Side : Kid(t, s, n) \in S PROVE n \in S
    <2>1. ASSUME NEW y \in below[n], y # n PROVE below[y] \subseteq below[n]
        <3>1. PICK s \in Side : y \in below[Kid(t, s, n)]
            BY <2>1, Sides, ShapeAt DEF Side
        <3>. QED BY <1>2, <3>1, ShapeAt
    <2>. QED BY <2>1, NilIsNoNode
<1>3. Pointer \subseteq S
    BY <1>1, <1>2, TreeInduction
<1>. QED BY <1>3 DEF Shape

LEMMA BelowParent ==
    ASSUME NEW t \in Trees, NEW below, Shape(t, below), Linked(t),
           NEW a \in Pointer, NEW x \in below[a], x # a
    PROVE  /\ t.parent[x] \in below[a] /\ t.parent[x] \in Nodes
           /\ \E s \in Side : Kid(t, s, t.parent[x]) = x
<1>. DEFINE S == {n \in Pointer : \A y \in below[n] : y # n =>
                    /\ t.parent[y] \in below[n] /\ t.parent[y] \in Nodes
                    /\ \E s \in Side : Kid(t, s, t.parent[y]) = y}
<1>1. Nil \in S
    BY NilIsNoNode DEF Shape
<1>2. ASSUME NEW n \in Nodes, \A s \in Side : Kid(t, s, n) \in S PROVE n \in S
    <2>1. ASSUME NEW y \in below[n], y # n
          PROVE  /\ t.parent[y] \in below[n] /\ t.parent[y] \in Nodes
                 /\ \E s \in Side : Kid(t, s, t.parent[y]) = y
        <3>1. PICK s \in Side : y \in below[Kid(t, s, n)]
            BY <2>1, Sides, ShapeAt DEF Side
        <3>2. CASE y = Kid(t, s, n)
            BY <3>2, <3>1, ShapeAt, NilIsNoNode DEF Linked
        <3>3. CASE y # Kid(t, s, n)
            BY <3>3, <3>1, <1>2, ShapeAt
        <3>. QED BY <3>2, <3>3
    <2>. QED BY <2>1, NilIsNoNode
<1>3. Pointer \subseteq S
    BY <1>1, <1>2, TreeInduction
<1>. QED BY <1>3

(* Of two nodes that are below each other there is one.                    *)
LEMMA BelowOnce ==
    ASSUME NEW t \in Trees, NEW below, Shape(t, below),
           NEW a \in Nodes, NEW b \in below[a], a \in below[b]
    PROVE  a = b
<1>1. SUFFICES ASSUME a # b PROVE FALSE
    OBVIOUS
<1>2. PICK s \in Side : b \in below[Kid(t, s, a)]
    BY <1>1, Sides, ShapeAt DEF Side
<1>3. a \in below[Kid(t, s, a)]
    BY <1>2, BelowNested, ShapeAt
<1>. QED BY <1>3, ShapeAt

(* Two subtrees that meet are one inside the other.                        *)
LEMMA BelowLaminar ==
    ASSUME NEW t \in Trees, NEW below, Shape(t, below), Linked(t),
           NEW a \in Nodes, NEW b \in Nodes, NEW x \in below[a], x \in below[b]
    PROVE  a \in below[b] \/ b \in below[a]
<1>. DEFINE S == {n \in Pointer : \A c \in Nodes, y \in below[n] : y \in below[c] =>
                     n \in below[c] \/ c \in below[n]}
<1>1. Nil \in S
    BY NilIsNoNode DEF Shape
<1>2. ASSUME NEW n \in Nodes, \A s \in Side : Kid(t, s, n) \in S PROVE n \in S
    <2>1. ASSUME NEW c \in Nodes, NEW y \in below[n], y \in below[c]
          PROVE  n \in below[c] \/ c \in below[n]
        <3>1. CASE y = n
            BY <2>1, <3>1
        <3>2. CASE y # n
            <4>1. PICK s \in Side : y \in below[Kid(t, s, n)]
                BY <2>1, <3>2, Sides, ShapeAt DEF Side
            <4>2. Kid(t, s, n) \in below[c] \/ c \in below[Kid(t, s, n)]
                BY <4>1, <1>2, <2>1
            <4>3. CASE c \in below[Kid(t, s, n)]
                BY <4>3, ShapeAt
            <4>4. CASE Kid(t, s, n) \in below[c] /\ c # Kid(t, s, n)
                <5>1. Kid(t, s, n) # Nil
                    BY <4>1 DEF Shape
                <5>2. t.parent[Kid(t, s, n)] = n
                    BY <5>1 DEF Linked
                <5>. QED BY <4>4, <5>2, BelowParent, NilIsNoNode
            <4>5. CASE c = Kid(t, s, n)
                BY <4>5, ShapeAt
            <4>. QED BY <4>2, <4>3, <4>4, <4>5
        <3>. QED BY <3>1, <3>2
    <2>. QED BY <2>1, NilIsNoNode
<1>3. Pointer \subseteq S
    BY <1>1, <1>2, TreeInduction
<1>. QED BY <1>3, NilIsNoNode

(* Root::ptr and the child pointers own what is below the root.            *)
LEMMA OwnedBelow ==
    ASSUME NEW t, NEW below, WellFormed(t, below)
    PROVE  Owned(t) = below[t.head]
<1>. USE DEF WellFormed
<1>1. t.head \in Pointer
    BY DEF Trees
<1>2. ASSUME NEW n \in Owned(t) PROVE n \in below[t.head]
    <2>1. CASE n = t.head
        BY <2>1, ShapeAt, Sides DEF Owned, Side
    <2>2. CASE n # t.head
        <3>1. n \in Nodes /\ \E s \in Side, m \in Nodes : Kid(t, s, m) = n
            BY <2>2 DEF Owned
        <3>2. PICK s \in Side, m \in Nodes : Kid(t, s, m) = n
            BY <3>1
        <3>3. m \in below[t.head]
            BY <3>1, <3>2, NilIsNoNode DEF Apart
        <3>4. n \in below[m]
            BY <3>1, <3>2, ShapeAt
        <3>. QED BY <1>1, <3>3, <3>4, BelowNested
    <2>. QED BY <2>1, <2>2
<1>3. ASSUME NEW n \in below[t.head] PROVE n \in Owned(t)
    BY <1>1, <1>3, BelowNested, BelowParent DEF Owned
<1>. QED BY <1>2, <1>3

-------------------------------------------------------------------------------
(* Loops.  A loop that goes from x to next[x] until x is in stop has a     *)
(* value at every x, and so has the recursive function that is the loop.   *)
IsLoop(g, S, next, stop, out) ==
    g = [x \in S |-> IF x \in stop THEN out[x] ELSE g[next[x]]]

LEMMA LoopValue ==
    ASSUME NEW S, NEW next \in [S -> S], NEW stop \in SUBSET S, NEW out
    PROVE  \E g : IsLoop(g, S, next, stop, out)
<1>. DEFINE Closed(C) == \A x \in C : x \notin stop => next[x] \in C
            R(x) == {y \in S : \A C \in SUBSET S : Closed(C) /\ x \in C => y \in C}
            g == [x \in S |-> out[CHOOSE y : y \in R(x) \cap stop]]
<1>1. ASSUME NEW x \in stop PROVE R(x) \cap stop = {x}
    <2>1. Closed({x}) /\ {x} \in SUBSET S
        OBVIOUS
    <2>2. R(x) \subseteq {x}
        BY <2>1
    <2>3. x \in R(x)
        OBVIOUS
    <2>. QED BY <2>2, <2>3
<1>2. ASSUME NEW x \in S, x \notin stop PROVE R(x) \cap stop = R(next[x]) \cap stop
    <2>1. R(next[x]) \subseteq R(x)
        <3>1. ASSUME NEW y \in R(next[x]), NEW C \in SUBSET S, Closed(C), x \in C PROVE y \in C
            <4>1. next[x] \in C
                BY <1>2, <3>1
            <4>. QED BY <3>1, <4>1
        <3>. QED BY <3>1
    <2>2. ASSUME NEW y \in R(x) \cap stop PROVE y \in R(next[x])
        <3>1. ASSUME NEW C \in SUBSET S, Closed(C), next[x] \in C PROVE y \in C
            <4>1. Closed(C \cup {x}) /\ C \cup {x} \in SUBSET S
                BY <3>1
            <4>2. y \in C \cup {x}
                BY <4>1, <2>2
            <4>. QED BY <4>2, <1>2, <2>2
        <3>. QED BY <3>1, <2>2
    <2>. QED BY <2>1, <2>2
<1>3. ASSUME NEW x \in S PROVE g[x] = IF x \in stop THEN out[x] ELSE g[next[x]]
    <2>1. CASE x \in stop
        <3>1. (CHOOSE y : y \in R(x) \cap stop) = x
            BY <1>1, <2>1
        <3>2. g[x] = out[CHOOSE y : y \in R(x) \cap stop]
            OBVIOUS
        <3>. QED BY <2>1, <3>1, <3>2
    <2>2. CASE x \notin stop
        <3>1. g[next[x]] = out[CHOOSE y : y \in R(next[x]) \cap stop]
            OBVIOUS
        <3>2. g[x] = out[CHOOSE y : y \in R(x) \cap stop]
            OBVIOUS
        <3>3. R(x) \cap stop = R(next[x]) \cap stop
            BY <1>2, <2>2
        <3>. HIDE DEF R
        <3>. QED BY <2>2, <3>1, <3>2, <3>3, Zenon
    <2>. QED BY <2>1, <2>2
<1>4. g = [x \in S |-> IF x \in stop THEN out[x] ELSE g[next[x]]]
    <2>. HIDE DEF R
    <2>1. g = [x \in S |-> g[x]]
        OBVIOUS
    <2>. HIDE DEF g
    <2>. QED BY <2>1, <1>3
<1>. QED BY <1>4 DEF IsLoop

LEMMA ExtremeIs ==
    ASSUME NEW t \in Trees, NEW s \in Side, NEW n \in Nodes
    PROVE  Extreme(t, s, n) = IF Kid(t, s, n) = Nil THEN n ELSE Extreme(t, s, Kid(t, s, n))
<1>. DEFINE F == CHOOSE f : f = [m \in Nodes |-> IF Kid(t, s, m) = Nil THEN m
                                                 ELSE f[Kid(t, s, m)]]
            stop == {m \in Nodes : Kid(t, s, m) = Nil}
            next == [m \in Nodes |-> IF m \in stop THEN m ELSE Kid(t, s, m)]
            out == [m \in Nodes |-> m]
<1>1. next \in [Nodes -> Nodes] /\ stop \in SUBSET Nodes
    BY KidType DEF Pointer
<1>2. PICK g : IsLoop(g, Nodes, next, stop, out)
    <2>. HIDE DEF next, stop, out
    <2>. QED BY <1>1, LoopValue
<1>3. g = [m \in Nodes |-> IF Kid(t, s, m) = Nil THEN m ELSE g[Kid(t, s, m)]]
    BY <1>2 DEF IsLoop
<1>4. F = [m \in Nodes |-> IF Kid(t, s, m) = Nil THEN m ELSE F[Kid(t, s, m)]]
    BY <1>3
<1>5. \A m : Extreme(t, s, m) = F[m]
    BY DEF Extreme
<1>. HIDE DEF F
<1>. QED BY <1>4, <1>5

(* Where a loop down the children on one side ends, and what it passes.    *)
LEMMA ExtremeBelow ==
    ASSUME NEW t \in Trees, NEW below, Shape(t, below), NEW s \in Side, NEW n \in Nodes
    PROVE  LET e == Extreme(t, s, n)
           IN /\ e \in below[n] /\ e \in Nodes /\ Kid(t, s, e) = Nil
              /\ \A a \in below[n] : e \in below[a] => e = a \/ e \in below[Kid(t, s, a)]
<1>. DEFINE E(m) == Extreme(t, s, m)
            Ends(m) == /\ E(m) \in below[m] /\ Kid(t, s, E(m)) = Nil
                       /\ \A a \in below[m] :
                             E(m) \in below[a] => E(m) = a \/ E(m) \in below[Kid(t, s, a)]
            S == {m \in Pointer : m # Nil => Ends(m)}
<1>1. Nil \in S
    BY NilIsNoNode
<1>2. ASSUME NEW m \in Nodes, \A r \in Side : Kid(t, r, m) \in S PROVE m \in S
    <2>1. CASE Kid(t, s, m) = Nil
        <3>1. E(m) = m
            BY <2>1, ExtremeIs
        <3>2. ASSUME NEW a \in below[m], m \in below[a] PROVE m = a
            BY <3>2, BelowOnce
        <3>. QED BY <2>1, <3>1, <3>2, ShapeAt, NilIsNoNode
    <2>2. CASE Kid(t, s, m) # Nil
        <3>. DEFINE k == Kid(t, s, m)
        <3>1. E(m) = E(k) /\ k \in Nodes
            BY <2>2, ExtremeIs, KidType DEF Pointer
        <3>2. Ends(k)
            BY <2>2, <1>2
        <3>3. E(m) \in below[m] /\ Kid(t, s, E(m)) = Nil
            BY <3>1, <3>2, ShapeAt
        <3>4. ASSUME NEW a \in below[m], E(m) \in below[a]
              PROVE  E(m) = a \/ E(m) \in below[Kid(t, s, a)]
            <4>1. CASE a \in below[k]
                BY <3>1, <3>2, <3>4, <4>1
            <4>2. CASE a = m
                BY <3>1, <3>2, <4>2
            <4>3. CASE a \in below[Kid(t, Opposite(s), m)]
                <5>1. E(m) \in below[Kid(t, Opposite(s), m)]
                    BY <3>4, <4>3, BelowNested, ShapeAt
                <5>. QED BY <5>1, <3>1, <3>2, ShapeAt
            <4>. QED BY <3>4, <4>1, <4>2, <4>3, ShapeAt
        <3>. QED BY <3>3, <3>4, NilIsNoNode
    <2>. QED BY <2>1, <2>2
<1>3. Pointer \subseteq S
    BY <1>1, <1>2, TreeInduction
<1>. QED BY <1>3, NilIsNoNode, BelowNested

(* A step of an iterator whose node is on the far side of all above it.    *)
LEMMA NeighbourUp ==
    ASSUME NEW t \in Trees, NEW s \in Side, NEW n \in Nodes, Kid(t, s, n) = Nil,
           ~(t.parent[n] # Nil /\ Kid(t, s, t.parent[n]) = n)
    PROVE  Neighbour(t, s, n) = t.parent[n]
<1>. DEFINE Up(m) == t.parent[m] # Nil /\ Kid(t, s, t.parent[m]) = m
            F == CHOOSE f : f = [m \in Nodes |-> IF Up(m) THEN f[t.parent[m]] ELSE t.parent[m]]
            stop == {m \in Nodes : ~Up(m)}
            next == [m \in Nodes |-> IF m \in stop THEN m ELSE t.parent[m]]
<1>1. next \in [Nodes -> Nodes] /\ stop \in SUBSET Nodes
    BY DEF Pointer, Trees
<1>2. PICK g : IsLoop(g, Nodes, next, stop, t.parent)
    <2>. HIDE DEF next, stop
    <2>. QED BY <1>1, LoopValue
<1>3. g = [m \in Nodes |-> IF Up(m) THEN g[t.parent[m]] ELSE t.parent[m]]
    BY <1>2 DEF IsLoop
<1>4. F = [m \in Nodes |-> IF Up(m) THEN F[t.parent[m]] ELSE t.parent[m]]
    BY <1>3
<1>5. Neighbour(t, s, n) = F[n]
    BY DEF Neighbour
<1>. HIDE DEF F
<1>. QED BY <1>4, <1>5

-------------------------------------------------------------------------------
(* find() and insert_node() *)

(* The keys are in the order of the tree.                                  *)
Ordered(t, below, keys) ==
    \A n \in Nodes :
        /\ \A x \in below[Kid(t, Left, n)] : keys[x] <= keys[n]
        /\ \A x \in below[Kid(t, Right, n)] : keys[n] <= keys[x]

(* A node with key k may be below m: the nodes above m from n on allow it. *)
Allowed(t, below, n, k, m) ==
    \A a \in below[n] :
        /\ m \in below[Kid(t, Left, a)] => k <= key[a]
        /\ m \in below[Kid(t, Right, a)] => key[a] <= k

LEMMA DescendIs ==
    ASSUME NEW t \in Trees, key \in [Nodes -> Int], NEW k \in Int, NEW n \in Nodes
    PROVE  Descend(t, k, n) =
               IF k < key[n] /\ Kid(t, Left, n) # Nil THEN Descend(t, k, Kid(t, Left, n))
               ELSE IF key[n] < k /\ Kid(t, Right, n) # Nil
                    THEN Descend(t, k, Kid(t, Right, n)) ELSE n
<1>. DEFINE F == CHOOSE f : f = [m \in Nodes |->
                    CASE k < key[m] /\ Kid(t, Left, m) # Nil -> f[Kid(t, Left, m)]
                      [] key[m] < k /\ Kid(t, Right, m) # Nil -> f[Kid(t, Right, m)]
                      [] OTHER -> m]
            ToLeft(m) == k < key[m] /\ Kid(t, Left, m) # Nil
            ToRight(m) == key[m] < k /\ Kid(t, Right, m) # Nil
            stop == {m \in Nodes : ~ToLeft(m) /\ ~ToRight(m)}
            next == [m \in Nodes |-> IF m \in stop THEN m ELSE
                        IF ToLeft(m) THEN Kid(t, Left, m) ELSE Kid(t, Right, m)]
            out == [m \in Nodes |-> m]
<1>1. next \in [Nodes -> Nodes] /\ stop \in SUBSET Nodes
    BY KidType DEF Pointer, Side
<1>2. PICK g : IsLoop(g, Nodes, next, stop, out)
    <2>. HIDE DEF next, stop, out
    <2>. QED BY <1>1, LoopValue
<1>3. ASSUME NEW m \in Nodes
      PROVE  (CASE ToLeft(m) -> g[Kid(t, Left, m)]
                [] ToRight(m) -> g[Kid(t, Right, m)]
                [] OTHER -> m)
             = IF m \in stop THEN out[m] ELSE g[next[m]]
    <2>1. k < key[m] => ~(key[m] < k)
        OBVIOUS
    <2>. QED BY <2>1
<1>4. g = [m \in Nodes |->
                    CASE ToLeft(m) -> g[Kid(t, Left, m)]
                      [] ToRight(m) -> g[Kid(t, Right, m)]
                      [] OTHER -> m]
    BY <1>2, <1>3 DEF IsLoop
<1>5. F = [m \in Nodes |->
                    CASE ToLeft(m) -> F[Kid(t, Left, m)]
                      [] ToRight(m) -> F[Kid(t, Right, m)]
                      [] OTHER -> m]
    BY <1>4
<1>6. \A m : Descend(t, k, m) = F[m]
    BY DEF Descend
<1>7. k < key[n] => ~(key[n] < k)
    OBVIOUS
<1>. HIDE DEF F
<1>. QED BY <1>5, <1>6, <1>7

LEMMA DescendBelow ==
    ASSUME NEW t \in Trees, NEW below, Shape(t, below), key \in [Nodes -> Int],
           NEW k \in Int, NEW n \in Nodes
    PROVE  LET m == Descend(t, k, n)
           IN /\ m \in below[n] /\ Allowed(t, below, n, k, m)
              /\ k < key[m] => Kid(t, Left, m) = Nil
              /\ key[m] < k => Kid(t, Right, m) = Nil
<1>. DEFINE E(m) == Descend(t, k, m)
            Ends(m) == /\ E(m) \in below[m] /\ Allowed(t, below, m, k, E(m))
                       /\ k < key[E(m)] => Kid(t, Left, E(m)) = Nil
                       /\ key[E(m)] < k => Kid(t, Right, E(m)) = Nil
            S == {m \in Pointer : m # Nil => Ends(m)}
<1>1. Nil \in S
    BY NilIsNoNode
<1>. Left \in Side /\ Right \in Side /\ Opposite(Left) = Right /\ Opposite(Right) = Left
    BY DEF Side, Left, Right, Opposite
<1>2. ASSUME NEW m \in Nodes, \A r \in Side : Kid(t, r, m) \in S PROVE m \in S
    <2>1. ASSUME NEW s \in Side, Kid(t, s, m) # Nil, E(m) = E(Kid(t, s, m)),
                 s = Left => k <= key[m], s = Right => key[m] <= k
          PROVE  Ends(m)
        <3>. DEFINE c == Kid(t, s, m)
        <3>1. Ends(c) /\ c \in Nodes
            BY <2>1, <1>2, KidType DEF Pointer
        <3>2. E(m) \in below[c] /\ E(m) \notin below[Kid(t, Opposite(s), m)]
            BY <2>1, <3>1, ShapeAt
        <3>3. ASSUME NEW a \in below[m]
              PROVE  /\ E(m) \in below[Kid(t, Left, a)] => k <= key[a]
                     /\ E(m) \in below[Kid(t, Right, a)] => key[a] <= k
            <4>1. CASE a = m
                BY <4>1, <3>2, <2>1, Sides
            <4>2. CASE a \in below[c]
                BY <4>2, <3>1, <2>1 DEF Allowed
            <4>3. CASE a \in below[Kid(t, Opposite(s), m)]
                <5>1. a \in Nodes /\ below[a] \subseteq below[Kid(t, Opposite(s), m)]
                    BY <4>3, BelowNested, ShapeAt
                <5>2. E(m) \notin below[a]
                    BY <5>1, <3>2
                <5>. QED BY <5>1, <5>2, ShapeAt
            <4>. QED BY <4>1, <4>2, <4>3, ShapeAt
        <3>4. E(m) \in below[m]
            BY <3>2, ShapeAt
        <3>5. Allowed(t, below, m, k, E(m))
            BY <3>3 DEF Allowed
        <3>. QED BY <3>1, <3>4, <3>5, <2>1
    <2>2. CASE k < key[m] /\ Kid(t, Left, m) # Nil
        BY <2>2, <2>1, DescendIs, NilIsNoNode DEF Left, Right
    <2>3. CASE ~(k < key[m] /\ Kid(t, Left, m) # Nil) /\ key[m] < k /\ Kid(t, Right, m) # Nil
        BY <2>3, <2>1, DescendIs, NilIsNoNode DEF Left, Right
    <2>4. CASE /\ ~(k < key[m] /\ Kid(t, Left, m) # Nil)
               /\ ~(key[m] < k /\ Kid(t, Right, m) # Nil)
        <3>1. E(m) = m
            BY <2>4, DescendIs
        <3>2. ASSUME NEW a \in below[m], NEW s \in Side PROVE m \notin below[Kid(t, s, a)]
            <4>1. a \in Nodes
                BY ShapeAt
            <4>2. m \in below[Kid(t, s, a)] => m \in below[a]
                BY <4>1, ShapeAt
            <4>3. m \in below[a] => m = a
                BY BelowOnce
            <4>. QED BY <4>1, <4>2, <4>3, ShapeAt
        <3>3. Allowed(t, below, m, k, m)
            BY <3>2 DEF Allowed
        <3>. QED BY <3>1, <3>3, <2>4, ShapeAt, NilIsNoNode
    <2>. QED BY <2>2, <2>3, <2>4
<1>3. Pointer \subseteq S
    BY <1>1, <1>2, TreeInduction
<1>. QED BY <1>3, NilIsNoNode

(* The loop among the nodes equal to k, from the node p with such a key.   *)
LEMMA FirstEqualBelow ==
    ASSUME NEW t \in Trees, NEW below, Shape(t, below), key \in [Nodes -> Int],
           Ordered(t, below, key), NEW n \in Nodes
    PROVE  LET r == FirstEqual(t, key[n], n) IN r \in below[n] /\ key[r] = key[n]
<1>. DEFINE k == key[n]
            At == Nodes \X Pointer
            Step(f, p) == IF p[2] = Nil THEN p[1]
                          ELSE CASE key[p[2]] = k -> f[<<p[2], Kid(t, Left, p[2])>>]
                                 [] key[p[2]] < k -> f[<<p[1], Kid(t, Right, p[2])>>]
                                 [] key[p[2]] > k -> Nil
            F == CHOOSE f : f = [p \in At |-> Step(f, p)]
            stop == {p \in At : p[2] = Nil \/ (p[2] \in Nodes /\ key[p[2]] > k)}
            next == [p \in At |-> IF p \in stop THEN p
                                  ELSE IF key[p[2]] = k THEN <<p[2], Kid(t, Left, p[2])>>
                                  ELSE <<p[1], Kid(t, Right, p[2])>>]
            out == [p \in At |-> IF p[2] = Nil THEN p[1] ELSE Nil]
<1>. Left \in Side /\ Right \in Side /\ Opposite(Left) = Right /\ Opposite(Right) = Left
    BY DEF Side, Left, Right, Opposite
<1>1. next \in [At -> At] /\ stop \in SUBSET At
    BY KidType DEF Pointer
<1>2. PICK g : IsLoop(g, At, next, stop, out)
    <2>. HIDE DEF next, stop, out, At
    <2>. QED BY <1>1, LoopValue
<1>3. ASSUME NEW p \in At PROVE Step(g, p) = IF p \in stop THEN out[p] ELSE g[next[p]]
    <2>1. CASE p[2] = Nil
        BY <2>1
    <2>2. CASE p[2] \in Nodes
        <3>1. key[p[2]] \in Int /\ k \in Int /\ p[2] # Nil
            BY <2>2, NilIsNoNode
        <3>. HIDE DEF k
        <3>2. \/ key[p[2]] = k /\ ~(key[p[2]] < k) /\ ~(key[p[2]] > k)
              \/ ~(key[p[2]] = k) /\ key[p[2]] < k /\ ~(key[p[2]] > k)
              \/ ~(key[p[2]] = k) /\ ~(key[p[2]] < k) /\ key[p[2]] > k
            BY <3>1
        <3>. QED BY <3>1, <3>2, <2>2
    <2>. QED BY <2>1, <2>2 DEF Pointer
<1>4. g = [p \in At |-> Step(g, p)]
    BY <1>2, <1>3 DEF IsLoop
<1>5. F = [p \in At |-> Step(F, p)]
    BY <1>4
<1>6. FirstEqual(t, k, n) = F[<<n, Kid(t, Left, n)>>]
    BY DEF FirstEqual
<1>. HIDE DEF F
<1>. DEFINE S == {m \in Pointer : (\A x \in below[m] : key[x] <= k) =>
                     \A q \in Nodes : key[q] = k =>
                        /\ F[<<q, m>>] \in {q} \cup below[m]
                        /\ key[F[<<q, m>>]] = k}
<1>7. Nil \in S
    <2>1. ASSUME NEW q \in Nodes PROVE F[<<q, Nil>>] = q
        <3>1. <<q, Nil>> \in At
            BY NilIsNoNode
        <3>. QED BY <3>1, <1>5
    <2>. QED BY <2>1, NilIsNoNode
<1>8. ASSUME NEW m \in Nodes, \A r \in Side : Kid(t, r, m) \in S PROVE m \in S
    <2>1. SUFFICES ASSUME \A x \in below[m] : key[x] <= k, NEW q \in Nodes, key[q] = k
                   PROVE  /\ F[<<q, m>>] \in {q} \cup below[m]
                          /\ key[F[<<q, m>>]] = k
        BY NilIsNoNode
    <2>2. key[m] <= k /\ key[m] \in Int /\ k \in Int
        BY <2>1, ShapeAt
    <2>3. <<q, m>> \in At /\ m # Nil
        BY NilIsNoNode
    <2>4. ASSUME NEW s \in Side, NEW p \in Nodes, key[p] = k
          PROVE  /\ F[<<p, Kid(t, s, m)>>] \in {p} \cup below[Kid(t, s, m)]
                 /\ key[F[<<p, Kid(t, s, m)>>]] = k
        BY <2>1, <2>4, <1>8, ShapeAt
    <2>5. CASE key[m] = k
        <3>1. F[<<q, m>>] = F[<<m, Kid(t, Left, m)>>]
            <4>. HIDE DEF k
            <4>1. ~(key[m] < k) /\ ~(key[m] > k)
                BY <2>2, <2>5
            <4>2. F[<<q, m>>] = Step(F, <<q, m>>)
                BY <1>5, <2>3
            <4>. QED BY <4>1, <4>2, <2>3, <2>5
        <3>. QED BY <3>1, <2>4, <2>5, ShapeAt
    <2>6. CASE key[m] # k
        <3>1. F[<<q, m>>] = F[<<q, Kid(t, Right, m)>>]
            <4>. HIDE DEF k
            <4>1. key[m] < k /\ ~(key[m] > k)
                BY <2>2, <2>6
            <4>. QED BY <1>5, <2>3, <2>6, <4>1
        <3>. QED BY <3>1, <2>1, <2>4, ShapeAt
    <2>. QED BY <2>5, <2>6
<1>9. Kid(t, Left, n) \in S
    <2>1. Pointer \subseteq S
        BY <1>7, <1>8, TreeInduction
    <2>. QED BY <2>1, KidType
<1>10. \A x \in below[Kid(t, Left, n)] : key[x] <= k
    BY DEF Ordered
<1>11. /\ F[<<n, Kid(t, Left, n)>>] \in {n} \cup below[Kid(t, Left, n)]
       /\ key[F[<<n, Kid(t, Left, n)>>]] = k
    BY <1>9, <1>10
<1>. QED BY <1>6, <1>11, ShapeAt

LEMMA FindBelow ==
    ASSUME NEW t \in Trees, NEW below, Shape(t, below), key \in [Nodes -> Int],
           Ordered(t, below, key), NEW k \in Int, NEW n \in Nodes
    PROVE  LET m == find(t, k, n)
           IN /\ m \in below[n] /\ Allowed(t, below, n, k, m)
              /\ k < key[m] => Kid(t, Left, m) = Nil
              /\ key[m] < k => Kid(t, Right, m) = Nil
<1>. DEFINE d == Descend(t, k, n)
            r == find(t, k, n)
<1>1. /\ d \in below[n] /\ d \in Nodes /\ Allowed(t, below, n, k, d)
      /\ k < key[d] => Kid(t, Left, d) = Nil
      /\ key[d] < k => Kid(t, Right, d) = Nil
    BY DescendBelow, NilIsNoNode, BelowNested
<1>2. r = IF key[d] = k THEN FirstEqual(t, k, d) ELSE d
    BY DEF find
<1>. HIDE DEF d, r
<1>3. CASE key[d] # k
    BY <1>1, <1>2, <1>3 DEF r
<1>4. CASE key[d] = k
    <2>1. r \in below[d] /\ key[r] = k
        BY <1>1, <1>2, <1>4, FirstEqualBelow
    <2>2. r \in below[n] /\ r \in Nodes
        BY <2>1, <1>1, BelowNested, NilIsNoNode
    <2>3. Allowed(t, below, n, k, r)
        BY <2>1, <2>2, NilIsNoNode DEF Allowed, Ordered, Shape, Pointer
    <2>. QED BY <2>1, <2>2, <2>3 DEF r
<1>. QED BY <1>3, <1>4

LEMMA PlaceIs ==
    ASSUME NEW t \in Trees, NEW below, Shape(t, below), Linked(t), key \in [Nodes -> Int],
           Ordered(t, below, key), NEW x \in Nodes, t.head \in Nodes
    PROVE  LET p == Place(t, x)
           IN /\ p.of \in below[t.head] /\ p.side \in Side /\ p = Slot(p.of, p.side)
              /\ Kid(t, p.side, p.of) = Nil
              /\ Allowed(t, below, t.head, key[x], p.of)
              /\ p.side = Left => key[x] <= key[p.of]
              /\ p.side = Right => key[p.of] <= key[x]
<1>. DEFINE k == key[x]
            R(m) == find(t, k, m)
            Down(f, m) == LET res == R(m)
                          IN IF k < key[res] THEN Slot(res, Left)
                             ELSE IF key[res] < k \/ Kid(t, Right, res) = Nil
                                  THEN Slot(res, Right) ELSE f[Kid(t, Right, res)]
            F == CHOOSE f : f = [m \in Nodes |-> Down(f, m)]
            stop == {m \in Nodes : k < key[R(m)] \/ key[R(m)] < k \/ Kid(t, Right, R(m)) = Nil}
            next == [m \in Nodes |-> IF m \in stop THEN m ELSE Kid(t, Right, R(m))]
            out == [m \in Nodes |-> IF k < key[R(m)] THEN Slot(R(m), Left) ELSE Slot(R(m), Right)]
<1>. Left \in Side /\ Right \in Side /\ Opposite(Left) = Right /\ Opposite(Right) = Left
    BY DEF Side, Left, Right, Opposite
<1>. k \in Int /\ Left # Right
    BY DEF Left, Right
<1>1. Place(t, x) = F[t.head]
    BY DEF Place
<1>. HIDE DEF k
<1>2. ASSUME NEW m \in Nodes
      PROVE  /\ R(m) \in below[m] /\ R(m) \in Nodes /\ key[R(m)] \in Int
             /\ Allowed(t, below, m, k, R(m))
             /\ k < key[R(m)] => Kid(t, Left, R(m)) = Nil
             /\ key[R(m)] < k => Kid(t, Right, R(m)) = Nil
    BY FindBelow, ShapeAt
<1>. HIDE DEF R
<1>3. next \in [Nodes -> Nodes] /\ stop \in SUBSET Nodes
    BY <1>2, KidType DEF Pointer
<1>4. PICK g : IsLoop(g, Nodes, next, stop, out)
    <2>. HIDE DEF next, stop, out
    <2>. QED BY <1>3, LoopValue
<1>5. ASSUME NEW m \in Nodes PROVE Down(g, m) = IF m \in stop THEN out[m] ELSE g[next[m]]
    <2>1. k < key[R(m)] => ~(key[R(m)] < k) /\ Kid(t, Left, R(m)) = Nil
        BY <1>2
    <2>. QED BY <2>1
<1>6. g = [m \in Nodes |-> Down(g, m)]
    BY <1>4, <1>5 DEF IsLoop
<1>7. F = [m \in Nodes |-> Down(F, m)]
    BY <1>6
<1>. HIDE DEF F
<1>. DEFINE Good(m) == LET p == F[m]
                       IN /\ p.of \in below[m] /\ p.side \in Side /\ p = Slot(p.of, p.side)
                          /\ Kid(t, p.side, p.of) = Nil
                          /\ Allowed(t, below, m, k, p.of)
                          /\ p.side = Left => k <= key[p.of]
                          /\ p.side = Right => key[p.of] <= k
            S == {m \in Pointer : \A a \in below[m] : Good(a)}
<1>8. Nil \in S
    BY NilIsNoNode DEF Shape
<1>9. ASSUME NEW m \in Nodes, \A a \in below[m] : a # m => Good(a) PROVE Good(m)
    <2>. DEFINE r == R(m)
    <2>1. F[m] = Down(F, m)
        BY <1>7
    <2>2. CASE k < key[r]
        <3>1. F[m] = Slot(r, Left)
            <4>1. ~(key[r] < k)
                BY <1>2, <2>2
            <4>. QED BY <2>1, <2>2, <4>1
        <3>. QED BY <3>1, <2>2, <1>2 DEF Slot
    <2>3. CASE ~(k < key[r]) /\ (key[r] < k \/ Kid(t, Right, r) = Nil)
        <3>1. F[m] = Slot(r, Right)
            BY <2>1, <2>3
        <3>. QED BY <3>1, <2>3, <1>2 DEF Slot
    <2>4. CASE ~(k < key[r]) /\ ~(key[r] < k) /\ Kid(t, Right, r) # Nil
        <3>. DEFINE c == Kid(t, Right, r)
        <3>1. F[m] = F[c]
            BY <2>1, <2>4
        <3>2. key[r] = k /\ r \in Nodes /\ r \in below[m]
            BY <2>4, <1>2
        <3>3. c \in Nodes /\ c \in below[r]
            BY <3>2, <2>4, ShapeAt DEF Pointer
        <3>4. c \in below[m] /\ c # m /\ below[c] \subseteq below[m]
            <4>1. c \in below[m]
                BY <3>2, <3>3, BelowNested, NilIsNoNode
            <4>2. c # m
                BY <3>2, <3>3, BelowOnce, ShapeAt
            <4>. QED BY <4>1, <4>2, BelowNested, NilIsNoNode
        <3>5. Good(c)
            BY <3>4, <1>9
        <3>. DEFINE p == F[c]
        <3>6. p.of \in below[c] /\ p.of \in below[r] /\ p.of \notin below[Kid(t, Left, r)]
            BY <3>2, <3>3, <3>5, ShapeAt
        <3>7. ASSUME NEW a \in below[m]
              PROVE  /\ p.of \in below[Kid(t, Left, a)] => k <= key[a]
                     /\ p.of \in below[Kid(t, Right, a)] => key[a] <= k
            <4>1. CASE a = r
                BY <4>1, <3>2, <3>6
            <4>2. CASE a \in below[c]
                BY <4>2, <3>5 DEF Allowed
            <4>3. CASE a \notin below[c] /\ a # r /\ p.of \in below[a]
                <5>1. a \in Nodes /\ r \in below[a] /\ r # a
                    <6>1. a \in Nodes
                        BY BelowNested, NilIsNoNode
                    <6>2. r \in below[a] \/ a \in below[r]
                        BY <6>1, <3>2, <3>6, <4>3, BelowLaminar
                    <6>3. a \in below[r] => a \in below[Kid(t, Left, r)]
                        BY <3>2, <4>3, ShapeAt
                    <6>4. a \in below[Kid(t, Left, r)] => p.of \in below[Kid(t, Left, r)]
                        BY <3>2, <4>3, ShapeAt, BelowNested
                    <6>. QED BY <6>1, <6>2, <6>3, <6>4, <3>6, <4>3
                <5>2. PICK s \in Side : r \in below[Kid(t, s, a)]
                    BY <5>1, ShapeAt
                <5>3. p.of \in below[Kid(t, s, a)] /\ p.of \notin below[Kid(t, Opposite(s), a)]
                    BY <5>1, <5>2, <3>6, ShapeAt, BelowNested
                <5>4. Allowed(t, below, m, k, r)
                    BY <1>2
                <5>5. s = Left \/ s = Right
                    BY DEF Side
                <5>. QED BY <5>2, <5>3, <5>4, <5>5 DEF Allowed
            <4>4. CASE p.of \notin below[a]
                BY <4>4, ShapeAt
            <4>. QED BY <4>1, <4>2, <4>3, <4>4
        <3>8. Allowed(t, below, m, k, p.of)
            BY <3>7 DEF Allowed
        <3>9. p.of \in below[m]
            BY <3>4, <3>5
        <3>. QED BY <3>1, <3>5, <3>8, <3>9
    <2>. QED BY <2>2, <2>3, <2>4
<1>10. ASSUME NEW m \in Nodes, \A s \in Side : Kid(t, s, m) \in S PROVE m \in S
    <2>1. \A a \in below[m] : a # m => Good(a)
        BY <1>10, ShapeAt
    <2>2. Good(m)
        BY <2>1, <1>9
    <2>. QED BY <2>1, <2>2, NilIsNoNode
<1>11. Pointer \subseteq S
    BY <1>8, <1>10, TreeInduction
<1>12. Good(t.head)
    BY <1>11, ShapeAt, NilIsNoNode
<1>. QED BY <1>1, <1>12 DEF k

-------------------------------------------------------------------------------
(* Assignments to pointers, seen at every pointer *)

LEMMA KidSet ==
    ASSUME NEW t \in Trees, NEW m \in Nodes, NEW r \in Side, NEW n \in Pointer,
           NEW u, u = [t EXCEPT !.kid[r][m] = n]
    PROVE  /\ u \in Trees /\ u.parent = t.parent /\ u.root = t.root /\ u.h_diff = t.h_diff
           /\ u.head = t.head
           /\ \A s \in Side, x \in Nodes :
                 Kid(u, s, x) = IF x = m /\ s = r THEN n ELSE Kid(t, s, x)
<1>1. /\ u.parent = t.parent /\ u.root = t.root /\ u.h_diff = t.h_diff /\ u.head = t.head
      /\ u.kid = [t.kid EXCEPT ![r][m] = n]
    BY DEF Trees
<1>2. t.kid \in [Side -> [Nodes -> Pointer]]
    BY DEF Trees
<1>3. u.kid \in [Side -> [Nodes -> Pointer]]
    BY <1>1, <1>2
<1>4. u \in Trees
    <2>1. u = [kid |-> [t.kid EXCEPT ![r][m] = n], parent |-> t.parent, root |-> t.root,
               h_diff |-> t.h_diff, head |-> t.head]
        BY DEF Trees
    <2>2. u = [kid |-> u.kid, parent |-> t.parent, root |-> t.root,
               h_diff |-> t.h_diff, head |-> t.head]
        BY <2>1, <1>1
    <2>. QED BY <2>2, <1>3 DEF Trees
<1>5. ASSUME NEW s \in Side, NEW x \in Nodes
      PROVE  Kid(u, s, x) = IF x = m /\ s = r THEN n ELSE Kid(t, s, x)
    BY <1>1, <1>2 DEF Kid
<1>. QED BY <1>1, <1>4, <1>5

(* u is t, with n in the pointer of m on side r, or at the root.           *)
PutTo(t, u, m, r, n) ==
    /\ u \in Trees /\ u.parent = t.parent /\ u.root = t.root /\ u.h_diff = t.h_diff
    /\ u.head = IF m = Nil THEN n ELSE t.head
    /\ \A s \in Side, x \in Nodes :
          Kid(u, s, x) = IF x = m /\ s = r THEN n ELSE Kid(t, s, x)

ParentSetTo(t, u, n, m) ==
    /\ u \in Trees /\ u.kid = t.kid /\ u.root = t.root /\ u.h_diff = t.h_diff
    /\ u.head = t.head
    /\ \A x \in Nodes : u.parent[x] = IF x = n THEN m ELSE t.parent[x]

RootSetTo(t, u, n, r) ==
    /\ u \in Trees /\ u.kid = t.kid /\ u.parent = t.parent /\ u.h_diff = t.h_diff
    /\ u.head = t.head
    /\ \A x \in Nodes : u.root[x] <=> IF x = n THEN r ELSE t.root[x]

(* u is t, with nothing but null pointers in n.                            *)
ClearedTo(t, u, n) ==
    /\ u \in Trees /\ u.head = t.head
    /\ \A s \in Side, x \in Nodes : Kid(u, s, x) = IF x = n THEN Nil ELSE Kid(t, s, x)
    /\ \A x \in Nodes :
          /\ u.parent[x] = IF x = n THEN Nil ELSE t.parent[x]
          /\ u.root[x] <=> IF x = n THEN FALSE ELSE t.root[x]
          /\ u.h_diff[x] = IF x = n THEN 0 ELSE t.h_diff[x]

LEMMA PutIs ==
    ASSUME NEW t \in Trees, NEW m \in Pointer, NEW r \in Side, NEW n \in Pointer
    PROVE  PutTo(t, Put(t, Slot(m, r), n), m, r, n)
<1>. DEFINE u == Put(t, Slot(m, r), n)
<1>1. CASE m = Nil
    <2>1. u = [t EXCEPT !.head = n]
        BY <1>1 DEF Put, Slot
    <2>. HIDE DEF u
    <2>2. u \in Trees /\ u.parent = t.parent /\ u.root = t.root /\ u.h_diff = t.h_diff
        BY <2>1 DEF Trees
    <2>3. u.head = n /\ u.kid = t.kid
        BY <2>1 DEF Trees
    <2>4. PutTo(t, u, m, r, n)
        BY <1>1, <2>2, <2>3, NilIsNoNode DEF Kid, PutTo
    <2>. QED BY <2>4 DEF u
<1>2. CASE m # Nil
    <2>1. u = [t EXCEPT !.kid[r][m] = n] /\ m \in Nodes
        BY <1>2 DEF Put, Slot, Pointer
    <2>. HIDE DEF u
    <2>2. PutTo(t, u, m, r, n)
        BY <1>2, <2>1, KidSet DEF PutTo
    <2>. QED BY <2>2 DEF u
<1>. QED BY <1>1, <1>2

LEMMA SetParentIs ==
    ASSUME NEW t \in Trees, NEW n \in Pointer, NEW m \in Pointer
    PROVE  ParentSetTo(t, SetParent(t, n, m), n, m)
<1>1. CASE n = Nil
    BY <1>1, NilIsNoNode DEF SetParent, ParentSetTo
<1>2. CASE n # Nil
    <2>. DEFINE u == [t EXCEPT !.parent[n] = m]
    <2>1. ParentSetTo(t, u, n, m)
        BY <1>2 DEF Trees, ParentSetTo, Pointer
    <2>. HIDE DEF u
    <2>. QED BY <1>2, <2>1 DEF SetParent, u
<1>. QED BY <1>1, <1>2

LEMMA SetRootIs ==
    ASSUME NEW t \in Trees, NEW n \in Pointer, NEW r \in BOOLEAN
    PROVE  RootSetTo(t, SetRoot(t, n, r), n, r)
<1>1. CASE n = Nil
    BY <1>1, NilIsNoNode DEF SetRoot, RootSetTo
<1>2. CASE n # Nil
    <2>. DEFINE u == [t EXCEPT !.root[n] = r]
    <2>1. RootSetTo(t, u, n, r)
        BY <1>2 DEF Trees, RootSetTo, Pointer
    <2>. HIDE DEF u
    <2>. QED BY <1>2, <2>1 DEF SetRoot, u
<1>. QED BY <1>1, <1>2

LEMMA FreshIs ==
    ASSUME NEW t \in Trees, NEW n \in Nodes
    PROVE  ClearedTo(t, Fresh(t, n), n)
<1>. DEFINE u == Fresh(t, n)
            a == [t EXCEPT !.kid[Left][n] = Nil]
            b == [a EXCEPT !.kid[Right][n] = Nil]
<1>. Left \in Side /\ Right \in Side /\ Left # Right /\ \A s \in Side : s = Left \/ s = Right
    BY DEF Side, Left, Right
<1>1. /\ a \in Trees /\ a.parent = t.parent /\ a.root = t.root /\ a.h_diff = t.h_diff
      /\ a.head = t.head
      /\ \A s \in Side, x \in Nodes :
            Kid(a, s, x) = IF x = n /\ s = Left THEN Nil ELSE Kid(t, s, x)
    BY KidSet, NilIsNoNode
<1>. HIDE DEF a
<1>2. /\ b \in Trees /\ b.parent = t.parent /\ b.root = t.root /\ b.h_diff = t.h_diff
      /\ b.head = t.head
      /\ \A s \in Side, x \in Nodes :
            Kid(b, s, x) = IF x = n /\ s = Right THEN Nil ELSE Kid(a, s, x)
    BY <1>1, KidSet, NilIsNoNode
<1>3. u = [b EXCEPT !.parent[n] = Nil, !.root[n] = FALSE, !.h_diff[n] = 0]
    BY DEF Fresh, a, Trees
<1>. HIDE DEF b, u
<1>4. /\ u.kid = b.kid /\ u.head = b.head
      /\ u.parent = [b.parent EXCEPT ![n] = Nil]
      /\ u.root = [b.root EXCEPT ![n] = FALSE]
      /\ u.h_diff = [b.h_diff EXCEPT ![n] = 0]
    BY <1>2, <1>3 DEF Trees
<1>5. u \in Trees
    <2>1. u = [kid |-> b.kid, parent |-> u.parent, root |-> u.root, h_diff |-> u.h_diff,
               head |-> b.head]
        BY <1>2, <1>3 DEF Trees
    <2>2. /\ u.parent \in [Nodes -> Pointer] /\ u.root \in [Nodes -> BOOLEAN]
          /\ u.h_diff \in [Nodes -> Int]
        BY <1>2, <1>4, NilIsNoNode DEF Trees
    <2>. QED BY <2>1, <2>2, <1>2 DEF Trees
<1>6. \A s \in Side, x \in Nodes : Kid(u, s, x) = Kid(b, s, x)
    BY <1>4 DEF Kid
<1>7. ASSUME NEW x \in Nodes
      PROVE  /\ u.parent[x] = IF x = n THEN Nil ELSE t.parent[x]
             /\ u.root[x] <=> IF x = n THEN FALSE ELSE t.root[x]
             /\ u.h_diff[x] = IF x = n THEN 0 ELSE t.h_diff[x]
    BY <1>2, <1>4 DEF Trees
<1>8. u.head = t.head
    BY <1>2, <1>4
<1>9. \A s \in Side, x \in Nodes : Kid(u, s, x) = IF x = n THEN Nil ELSE Kid(t, s, x)
    BY <1>1, <1>2, <1>6
<1>10. ClearedTo(t, u, n)
    BY <1>5, <1>7, <1>8, <1>9 DEF ClearedTo
<1>. QED BY <1>10 DEF u

(* The pointer that owns a node of the tree, and the only one to it.       *)
LEMMA ParentSlot ==
    ASSUME NEW t, NEW below, WellFormed(t, below), NEW n \in below[t.head]
    PROVE  LET p == parent_ptr(t, n)
           IN /\ p.side \in Side /\ p.of \in Pointer /\ p = Slot(p.of, p.side)
              /\ p.of = t.parent[n]
              /\ p.of = Nil <=> n = t.head
              /\ p.of # Nil => p.of \in below[t.head]
              /\ \A s \in Side, x \in Nodes : Kid(t, s, x) = n <=> x = p.of /\ s = p.side
<1>. USE DEF WellFormed
<1>1. t.head \in Pointer /\ n \in Nodes /\ n # Nil
    BY BelowNested, NilIsNoNode DEF Trees
<1>2. t.parent[n] = Nil <=> n = t.head
    BY <1>1, BelowParent, NilIsNoNode DEF Linked
<1>3. ASSUME t.parent[n] # Nil, NEW s \in Side, NEW x \in Nodes
      PROVE  Kid(t, s, x) = n <=> x = t.parent[n] /\ s = SideOf(t, n)
    <2>1. n # t.head
        BY <1>2, <1>3
    <2>2. PICK r \in Side : Kid(t, r, t.parent[n]) = n /\ t.parent[n] \in Nodes
        BY <1>1, <2>1, BelowParent
    <2>3. n \in below[n]
        BY <1>1, ShapeAt
    <2>4. Kid(t, Opposite(r), t.parent[n]) # n
        BY <2>2, <2>3, ShapeAt
    <2>5. SideOf(t, n) = r
        BY <2>2, <2>4 DEF SideOf, Opposite, Side, Left, Right
    <2>6. Kid(t, s, x) = n => x = t.parent[n]
        BY <1>1 DEF Linked
    <2>. QED BY <2>2, <2>4, <2>5, <2>6, Sides
<1>4. ASSUME t.parent[n] = Nil, NEW s \in Side, NEW x \in Nodes PROVE Kid(t, s, x) # n
    BY <1>1, <1>4, NilIsNoNode DEF Linked
<1>5. CASE t.parent[n] = Nil
    BY <1>1, <1>2, <1>4, <1>5, NilIsNoNode DEF parent_ptr, RootSlot, Slot, Side
<1>6. CASE t.parent[n] # Nil
    <2>1. SideOf(t, n) \in Side
        BY DEF SideOf, Side
    <2>2. t.parent[n] \in Nodes /\ t.parent[n] \in below[t.head]
        BY <1>1, <1>2, <1>6, BelowParent
    <2>. QED BY <1>1, <1>2, <1>3, <1>6, <2>1, <2>2, NilIsNoNode DEF parent_ptr, Slot
<1>. QED BY <1>5, <1>6

-------------------------------------------------------------------------------
(* A rotation *)

(* The four nodes around a rotation of n whose child on side s is c.       *)
LEMMA Around ==
    ASSUME NEW t, NEW below, WellFormed(t, below), NEW n \in below[t.head], NEW s \in Side,
           Kid(t, s, n) # Nil
    PROVE  LET c == Kid(t, s, n)
               inner == Kid(t, Opposite(s), c)
           IN /\ n \in Nodes /\ c \in Nodes /\ c \in below[t.head] /\ n # c
              /\ inner \in Pointer /\ inner # n /\ inner # c
              /\ t.parent[c] = n /\ t.parent[n] # c
              /\ n \notin below[c]
<1>. USE DEF WellFormed
<1>. DEFINE c == Kid(t, s, n)
            inner == Kid(t, Opposite(s), c)
<1>1. t.head \in Pointer
    BY DEF Trees
<1>2. n \in Nodes
    BY <1>1, BelowNested
<1>3. c \in Nodes /\ c \in below[c] /\ c \in below[n] /\ n \notin below[c]
    BY <1>2, ShapeAt DEF Pointer
<1>4. c \in below[t.head] /\ n # c
    BY <1>1, <1>3, BelowNested
<1>5. inner \in Pointer /\ inner # c /\ inner # n
    <2>1. inner \in Pointer /\ c \notin below[inner] /\ below[inner] \subseteq below[c]
        BY <1>3, Sides, ShapeAt
    <2>2. inner \in Nodes => inner \in below[inner]
        BY Sides, ShapeAt
    <2>. QED BY <2>1, <2>2, <1>2, <1>3
<1>6. t.parent[c] = n
    BY <1>2 DEF Linked
<1>7. t.parent[n] # c
    <2>1. ASSUME t.parent[n] = c PROVE FALSE
        <3>1. \E r \in Side : Kid(t, r, c) = n
            BY <1>2, <2>1, <1>3, NilIsNoNode DEF Linked
        <3>2. n \in below[n]
            BY <1>2, ShapeAt
        <3>. QED BY <1>3, <3>1, <3>2, ShapeAt
    <2>. QED BY <2>1
<1>. QED BY <1>2, <1>3, <1>4, <1>5, <1>6, <1>7

LEMMA RotateIs ==
    ASSUME NEW t, NEW below, WellFormed(t, below), NEW n \in below[t.head], NEW s \in Side,
           Kid(t, s, n) # Nil, NEW u, u = Rotate(t, n, s)
    PROVE  LET c == Kid(t, s, n)
               inner == Kid(t, Opposite(s), c)
           IN /\ u \in Trees
              /\ u.head = IF n = t.head THEN c ELSE t.head
              /\ \A r \in Side, x \in Nodes :
                    Kid(u, r, x) = IF x = n /\ r = s THEN inner
                                   ELSE IF x = c /\ r = Opposite(s) THEN n
                                   ELSE IF Kid(t, r, x) = n THEN c ELSE Kid(t, r, x)
              /\ \A x \in Nodes :
                    /\ u.parent[x] = IF x = n THEN c ELSE IF x = c THEN t.parent[n]
                                     ELSE IF x = inner THEN n ELSE t.parent[x]
                    /\ u.root[x] <=> IF x = n THEN t.root[c] ELSE IF x = c THEN t.root[n]
                                     ELSE t.root[x]
              /\ u.h_diff = RotatedDiff(t, n, c, s)
<1>. DEFINE c == Kid(t, s, n)
            o == Opposite(s)
            inner == Kid(t, o, c)
            p == parent_ptr(t, n)
            a == [t EXCEPT !.kid[s][n] = inner]
            b == [a EXCEPT !.kid[o][c] = n]
            d == Put(b, p, c)
            e == SetParent(d, inner, n)
<1>1. /\ n \in Nodes /\ c \in Nodes /\ n # c /\ inner \in Pointer /\ inner # n /\ inner # c
      /\ t.parent[n] # c
    BY Around
<1>2. /\ p.side \in Side /\ p.of \in Pointer /\ p = Slot(p.of, p.side) /\ p.of = t.parent[n]
      /\ p.of = Nil <=> n = t.head
      /\ \A r \in Side, x \in Nodes : Kid(t, r, x) = n <=> x = p.of /\ r = p.side
    BY ParentSlot
<1>3. t \in Trees /\ n \in Pointer /\ c \in Pointer /\ o \in Side
    BY <1>1, NilIsNoNode, Sides DEF WellFormed
<1>4. /\ a \in Trees /\ a.parent = t.parent /\ a.root = t.root /\ a.h_diff = t.h_diff
      /\ a.head = t.head
      /\ \A r \in Side, x \in Nodes :
            Kid(a, r, x) = IF x = n /\ r = s THEN inner ELSE Kid(t, r, x)
    BY <1>1, <1>3, KidSet
<1>5. Rotate(t, n, s) = [[e EXCEPT !.parent[c] = t.parent[n], !.parent[n] = c,
                                   !.root[c] = t.root[n], !.root[n] = t.root[c]]
                         EXCEPT !.h_diff = RotatedDiff(t, n, c, s)]
    <2>1. b = [t EXCEPT !.kid[s][n] = inner, !.kid[o][c] = n]
        BY <1>3 DEF Trees
    <2>2. d = Put([t EXCEPT !.kid[s][n] = inner, !.kid[o][c] = n], p, c)
        BY <2>1
    <2>. QED BY <2>2 DEF Rotate
<1>. HIDE DEF a
<1>6. /\ b \in Trees /\ b.parent = t.parent /\ b.root = t.root /\ b.h_diff = t.h_diff
      /\ b.head = t.head
      /\ \A r \in Side, x \in Nodes :
            Kid(b, r, x) = IF x = c /\ r = o THEN n ELSE Kid(a, r, x)
    BY <1>1, <1>3, <1>4, KidSet
<1>. HIDE DEF b
<1>7. /\ d \in Trees /\ d.parent = t.parent /\ d.root = t.root /\ d.h_diff = t.h_diff
      /\ d.head = IF p.of = Nil THEN c ELSE t.head
      /\ \A r \in Side, x \in Nodes :
            Kid(d, r, x) = IF x = p.of /\ r = p.side THEN c ELSE Kid(b, r, x)
    <2>. DEFINE m == p.of
                q == p.side
    <2>1. d = Put(b, Slot(m, q), c) /\ m \in Pointer /\ q \in Side
        BY <1>2
    <2>. HIDE DEF d, m, q, c, p, o, inner
    <2>2. PutTo(b, d, m, q, c)
        BY <2>1, <1>3, <1>6, PutIs
    <2>. QED BY <2>2, <1>6 DEF m, q, PutTo
<1>. HIDE DEF d
<1>8. /\ e \in Trees /\ e.kid = d.kid /\ e.root = t.root /\ e.h_diff = t.h_diff
      /\ e.head = d.head
      /\ \A x \in Nodes : e.parent[x] = IF x = inner THEN n ELSE t.parent[x]
    <2>. HIDE DEF c, p, o, inner
    <2>1. ParentSetTo(d, e, inner, n)
        BY <1>1, <1>3, <1>7, SetParentIs
    <2>. HIDE DEF e
    <2>. QED BY <2>1, <1>7 DEF ParentSetTo
<1>. HIDE DEF e
<1>9. /\ u.kid = e.kid /\ u.head = e.head /\ u.h_diff = RotatedDiff(t, n, c, s)
      /\ u.parent = [e.parent EXCEPT ![c] = t.parent[n], ![n] = c]
      /\ u.root = [e.root EXCEPT ![c] = t.root[n], ![n] = t.root[c]]
      /\ u = [kid |-> u.kid, parent |-> u.parent, root |-> u.root, h_diff |-> u.h_diff,
              head |-> u.head]
    BY <1>5, <1>8 DEF Trees
<1>10. RotatedDiff(t, n, c, s) \in [Nodes -> Int]
    <2>. DEFINE hn == Sign(s) * t.h_diff[n]
                hc == Sign(s) * t.h_diff[c]
                n2 == IF hc <= 0 THEN hn - 1 ELSE hn - (hc + 1)
                c2 == IF n2 >= 0 THEN hc - 1 ELSE hc + n2 - 1
    <2>1. /\ t.h_diff \in [Nodes -> Int] /\ t.h_diff[n] \in Int /\ t.h_diff[c] \in Int
          /\ Sign(s) \in Int
        BY <1>1, <1>3, Sides DEF Trees
    <2>2. hn \in Int /\ hc \in Int
        BY <2>1
    <2>3. n2 \in Int /\ c2 \in Int
        <3>. HIDE DEF hn, hc
        <3>. QED BY <2>2
    <2>4. Sign(s) * n2 \in Int /\ Sign(s) * c2 \in Int
        <3>. HIDE DEF n2, c2
        <3>. QED BY <2>1, <2>3
    <2>5. RotatedDiff(t, n, c, s) = [t.h_diff EXCEPT ![n] = Sign(s) * n2, ![c] = Sign(s) * c2]
        BY DEF RotatedDiff
    <2>. HIDE DEF n2, c2
    <2>. QED BY <2>1, <2>4, <2>5
<1>11. u \in Trees
    <2>. HIDE DEF c, p, o, inner
    <2>1. /\ e.parent \in [Nodes -> Pointer] /\ t.parent[n] \in Pointer
          /\ e.root \in [Nodes -> BOOLEAN] /\ t.root[n] \in BOOLEAN /\ t.root[c] \in BOOLEAN
        BY <1>1, <1>3, <1>8 DEF Trees
    <2>2. u.parent \in [Nodes -> Pointer] /\ u.root \in [Nodes -> BOOLEAN]
        BY <2>1, <1>3, <1>9
    <2>. QED BY <2>2, <1>8, <1>9, <1>10 DEF Trees
<1>12. ASSUME NEW x \in Nodes
       PROVE /\ u.parent[x] = IF x = n THEN c ELSE IF x = c THEN t.parent[n]
                              ELSE IF x = inner THEN n ELSE t.parent[x]
             /\ u.root[x] <=> IF x = n THEN t.root[c] ELSE IF x = c THEN t.root[n]
                              ELSE t.root[x]
    <2>1. u.parent[x] = IF x = n THEN c ELSE IF x = c THEN t.parent[n] ELSE e.parent[x]
        BY <1>1, <1>8, <1>9 DEF Trees
    <2>2. u.root[x] = IF x = n THEN t.root[c] ELSE IF x = c THEN t.root[n] ELSE e.root[x]
        BY <1>1, <1>8, <1>9 DEF Trees
    <2>. QED BY <2>1, <2>2, <1>8
<1>13. ASSUME NEW r \in Side, NEW x \in Nodes
       PROVE  Kid(u, r, x) = IF x = n /\ r = s THEN inner
                             ELSE IF x = c /\ r = o THEN n
                             ELSE IF Kid(t, r, x) = n THEN c ELSE Kid(t, r, x)
    <2>1. Kid(u, r, x) = Kid(d, r, x)
        BY <1>8, <1>9 DEF Kid
    <2>2. Kid(u, r, x) = IF x = p.of /\ r = p.side THEN c
                         ELSE IF x = c /\ r = o THEN n
                         ELSE IF x = n /\ r = s THEN inner ELSE Kid(t, r, x)
        BY <2>1, <1>4, <1>6, <1>7
    <2>3. p.of # c /\ p.of # n
        <3>1. n \in below[n]
            BY <1>1, ShapeAt DEF WellFormed
        <3>2. Kid(t, r, n) # n
            BY <1>1, <3>1, ShapeAt DEF WellFormed
        <3>3. Kid(t, p.side, n) # n
            BY <1>1, <1>2, <3>1, ShapeAt DEF WellFormed
        <3>. QED BY <1>1, <1>2, <3>3
    <2>. QED BY <2>2, <2>3, <1>2
<1>14. u.head = IF n = t.head THEN c ELSE t.head
    BY <1>2, <1>7, <1>8, <1>9
<1>. QED BY <1>9, <1>11, <1>12, <1>13, <1>14

(* What is below each node when n has gone under its child on side s.      *)
BelowRotated(t, below, n, s) ==
    LET c == Kid(t, s, n)
        inner == Kid(t, Opposite(s), c)
    IN [below EXCEPT ![n] = {n} \cup below[Kid(t, Opposite(s), n)] \cup below[inner],
                     ![c] = below[n]]

LEMMA RotateShape ==
    ASSUME NEW t, NEW below, WellFormed(t, below), NEW n \in below[t.head], NEW s \in Side,
           Kid(t, s, n) # Nil
    PROVE  LET u == Rotate(t, n, s)
               down == BelowRotated(t, below, n, s)
           IN /\ WellFormed(u, down) /\ down[u.head] = below[t.head]
              /\ \A keys \in [Nodes -> Int] :
                    Ordered(t, below, keys) => Ordered(u, down, keys)
<1>. DEFINE u == Rotate(t, n, s)
            down == BelowRotated(t, below, n, s)
            c == Kid(t, s, n)
            o == Opposite(s)
            inner == Kid(t, o, c)
            outer == Kid(t, s, c)
            other == Kid(t, o, n)
<1>1. /\ n \in Nodes /\ c \in Nodes /\ n # c /\ inner \in Pointer /\ inner # n /\ inner # c
      /\ t.parent[c] = n /\ t.parent[n] # c /\ c \in below[t.head] /\ n \notin below[c]
    BY Around
<1>2. /\ u \in Trees
      /\ u.head = IF n = t.head THEN c ELSE t.head
      /\ \A r \in Side, x \in Nodes :
            Kid(u, r, x) = IF x = n /\ r = s THEN inner
                           ELSE IF x = c /\ r = o THEN n
                           ELSE IF Kid(t, r, x) = n THEN c ELSE Kid(t, r, x)
      /\ \A x \in Nodes :
            /\ u.parent[x] = IF x = n THEN c ELSE IF x = c THEN t.parent[n]
                             ELSE IF x = inner THEN n ELSE t.parent[x]
            /\ u.root[x] <=> IF x = n THEN t.root[c] ELSE IF x = c THEN t.root[n]
                             ELSE t.root[x]
      /\ u.h_diff = RotatedDiff(t, n, c, s)
    BY RotateIs
<1>3. /\ t \in Trees /\ Shape(t, below) /\ Linked(t) /\ Apart(t, below)
      /\ o \in Side /\ o # s /\ \A r \in Side : r = s \/ r = o
      /\ Opposite(o) = s /\ t.head \in Pointer
    BY Sides DEF WellFormed, Trees
<1>4. /\ below[n] = {n} \cup below[c] \cup below[other] /\ n \notin below[c]
      /\ n \notin below[other] /\ below[c] \cap below[other] = {} /\ other \in Pointer
      /\ below[other] \in SUBSET Nodes /\ below[n] \in SUBSET Nodes
    BY <1>1, <1>3, ShapeAt
<1>5. /\ below[c] = {c} \cup below[outer] \cup below[inner] /\ c \notin below[outer]
      /\ c \notin below[inner] /\ below[outer] \cap below[inner] = {} /\ outer \in Pointer
      /\ below[inner] \in SUBSET Nodes
    BY <1>1, <1>3, ShapeAt
<1>6. /\ outer # n /\ outer # c /\ other # n /\ other # c
    <2>1. \A x \in Nodes : x \in below[x]
        BY <1>3, ShapeAt
    <2>. QED BY <2>1, <1>1, <1>4, <1>5
<1>7. /\ below \in [Pointer -> SUBSET Nodes] /\ below[Nil] = {}
      /\ \A x \in Nodes : IsFiniteSet(below[x])
    BY <1>3 DEF Shape
<1>. HIDE DEF u
<1>8. /\ down \in [Pointer -> SUBSET Nodes]
      /\ down[n] = {n} \cup below[other] \cup below[inner]
      /\ down[c] = below[n]
      /\ \A x \in Pointer : x # n /\ x # c => down[x] = below[x]
    <2>1. down = [below EXCEPT ![n] = {n} \cup below[other] \cup below[inner], ![c] = below[n]]
        BY DEF BelowRotated
    <2>2. n \in Pointer /\ c \in Pointer /\ {n} \cup below[other] \cup below[inner] \in SUBSET Nodes
        BY <1>1, <1>4, <1>5, NilIsNoNode
    <2>. HIDE DEF down, c, other, inner
    <2>. QED BY <2>1, <2>2, <1>1, <1>4, <1>7
<1>. HIDE DEF down, c, other, inner, outer, o
<1>9. Shape(u, down)
    <2>1. ASSUME NEW x \in Nodes PROVE IsFiniteSet(down[x])
        <3>1. down[n] \in SUBSET below[n]
            BY <1>4, <1>5, <1>8
        <3>2. IsFiniteSet(down[n])
            BY <3>1, <1>1, <1>7, FS_Subset
        <3>. QED BY <3>2, <1>1, <1>7, <1>8, NilIsNoNode
    <2>2. ASSUME NEW x \in Nodes, NEW r \in Side
          PROVE  /\ down[x] = {x} \cup down[Kid(u, r, x)] \cup down[Kid(u, Opposite(r), x)]
                 /\ x \notin down[Kid(u, r, x)]
                 /\ down[Kid(u, r, x)] \cap down[Kid(u, Opposite(r), x)] = {}
        <3>1. CASE x = n
            <4>1. Kid(u, s, n) = inner /\ Kid(u, o, n) = other
                BY <1>1, <1>2, <1>3, <1>6 DEF other
            <4>2. down[inner] = below[inner] /\ down[other] = below[other]
                BY <1>1, <1>4, <1>6, <1>8
            <4>. QED BY <3>1, <4>1, <4>2, <1>1, <1>3, <1>4, <1>5, <1>8 DEF o
        <3>2. CASE x = c
            <4>1. Kid(u, s, c) = outer /\ Kid(u, o, c) = n
                BY <1>1, <1>2, <1>3, <1>6 DEF outer
            <4>2. down[outer] = below[outer]
                BY <1>5, <1>6, <1>8
            <4>. QED BY <3>2, <4>1, <4>2, <1>1, <1>3, <1>4, <1>5, <1>8 DEF o
        <3>3. CASE x # n /\ x # c
            <4>1. ASSUME NEW q \in Side PROVE down[Kid(u, q, x)] = below[Kid(t, q, x)]
                <5>1. Kid(u, q, x) = IF Kid(t, q, x) = n THEN c ELSE Kid(t, q, x)
                    BY <3>3, <1>2
                <5>2. Kid(t, q, x) # c
                    BY <3>3, <1>1, <1>3, NilIsNoNode DEF Linked
                <5>. QED BY <5>1, <5>2, <1>3, <1>8, KidType
            <4>2. down[x] = below[x]
                BY <3>3, <1>8, NilIsNoNode
            <4>3. Opposite(r) \in Side
                BY Sides
            <4>. QED BY <4>1, <4>2, <4>3, <1>3, ShapeAt
        <3>. QED BY <3>1, <3>2, <3>3
    <2>3. down[Nil] = {}
        BY <1>1, <1>7, <1>8, NilIsNoNode
    <2>. QED BY <2>1, <2>2, <2>3, <1>8 DEF Shape
<1>10. t.head # c
    BY <1>1, <1>3, NilIsNoNode DEF Linked
<1>11. Linked(u)
    <2>1. u.head # Nil => u.parent[u.head] = Nil
        BY <1>1, <1>2, <1>3, <1>10, NilIsNoNode DEF Linked, Pointer, inner
    <2>2. ASSUME NEW x \in Nodes, NEW r \in Side, Kid(u, r, x) # Nil
          PROVE  u.parent[Kid(u, r, x)] = x
        <3>1. CASE x = n
            BY <3>1, <2>2, <1>1, <1>2, <1>3, <1>4, <1>6, NilIsNoNode DEF Linked, Pointer, other, inner
        <3>2. CASE x = c
            <4>1. CASE r = o
                BY <3>2, <4>1, <1>1, <1>2, <1>3
            <4>2. CASE r = s
                <5>1. Kid(u, r, x) = outer
                    BY <3>2, <4>2, <1>1, <1>2, <1>3, <1>6 DEF outer
                <5>2. outer \in Nodes /\ t.parent[outer] = c
                    BY <2>2, <5>1, <1>1, <1>3, <1>5 DEF Linked, Pointer, outer
                <5>3. outer \in below[outer]
                    BY <5>2, <1>3, ShapeAt
                <5>4. outer # inner
                    BY <5>3, <1>5
                <5>. QED BY <3>2, <5>1, <5>2, <5>4, <1>2, <1>6
            <4>. QED BY <4>1, <4>2, <1>3
        <3>3. CASE x # n /\ x # c
            <4>1. Kid(t, r, x) # c /\ (Kid(t, r, x) # Nil => Kid(t, r, x) # inner)
                BY <3>3, <1>1, <1>3, NilIsNoNode DEF Linked, Pointer, inner
            <4>2. Kid(t, r, x) \in Pointer
                BY <1>3, KidType
            <4>. QED BY <3>3, <2>2, <4>1, <4>2, <1>1, <1>2, <1>3, NilIsNoNode DEF Linked, Pointer
        <3>. QED BY <3>1, <3>2, <3>3
    <2>3. ASSUME NEW x \in Nodes, u.parent[x] # Nil
          PROVE  \E r \in Side : Kid(u, r, u.parent[x]) = x
        <3>1. CASE x = n
            BY <3>1, <1>1, <1>2, <1>3
        <3>2. CASE x = c
            <4>1. u.parent[c] = t.parent[n] /\ t.parent[n] \in Nodes
                BY <3>2, <2>3, <1>1, <1>2, <1>3 DEF Trees, Pointer
            <4>2. PICK r \in Side : Kid(t, r, t.parent[n]) = n
                BY <4>1, <1>1, <1>3, NilIsNoNode DEF Linked
            <4>3. t.parent[n] # n
                BY <4>2, <4>1, <1>3, ShapeAt, <1>1
            <4>4. Kid(u, r, t.parent[n]) = c
                BY <4>1, <4>2, <4>3, <1>1, <1>2
            <4>. QED BY <3>2, <4>1, <4>4
        <3>3. CASE x = inner /\ x # n /\ x # c
            BY <3>3, <1>1, <1>2, <1>3
        <3>4. CASE x # inner /\ x # n /\ x # c
            <4>1. u.parent[x] = t.parent[x] /\ t.parent[x] \in Nodes
                BY <3>4, <2>3, <1>2, <1>3 DEF Trees, Pointer
            <4>2. PICK r \in Side : Kid(t, r, t.parent[x]) = x
                BY <4>1, <2>3, <1>3 DEF Linked
            <4>3. ~(t.parent[x] = n /\ r = s) /\ ~(t.parent[x] = c /\ r = o)
                BY <3>4, <4>2 DEF c, inner
            <4>4. Kid(u, r, t.parent[x]) = x
                BY <3>4, <4>1, <4>2, <4>3, <1>2
            <4>. QED BY <4>1, <4>4
        <3>. QED BY <3>1, <3>2, <3>3, <3>4
    <2>4. \A x \in Nodes : u.root[x] <=> x = u.head
        BY <1>1, <1>2, <1>3, <1>10 DEF Linked
    <2>. QED BY <2>1, <2>2, <2>3, <2>4 DEF Linked
<1>12. down[u.head] = below[t.head]
    BY <1>2, <1>3, <1>8, <1>10
<1>13. Apart(u, down)
    <2>1. ASSUME NEW x \in Nodes, x \notin below[t.head]
          PROVE  u.parent[x] = Nil /\ u.h_diff[x] = 0 /\ \A r \in Side : Kid(u, r, x) = Nil
        <3>1. t.parent[x] = Nil /\ t.h_diff[x] = 0 /\ \A r \in Side : Kid(t, r, x) = Nil
            BY <2>1, <1>3 DEF Apart
        <3>2. x # n /\ x # c
            BY <2>1, <1>1
        <3>3. x # inner
            BY <3>1, <3>2, <1>1, <1>3, NilIsNoNode DEF Linked, inner
        <3>4. u.h_diff[x] = t.h_diff[x]
            BY <3>2, <1>2, <1>3 DEF RotatedDiff, Trees
        <3>. QED BY <3>1, <3>2, <3>3, <3>4, <1>1, <1>2, NilIsNoNode
    <2>. QED BY <2>1, <1>12 DEF Apart
<1>14. ASSUME NEW keys \in [Nodes -> Int], Ordered(t, below, keys) PROVE Ordered(u, down, keys)
    <2>. Left \in Side /\ Right \in Side /\ Left # Right
        BY DEF Side, Left, Right
    <2>1. ASSUME NEW x \in Nodes, x # n, x # c, NEW q \in Side
          PROVE  down[Kid(u, q, x)] = below[Kid(t, q, x)]
        <3>1. Kid(u, q, x) = IF Kid(t, q, x) = n THEN c ELSE Kid(t, q, x)
            BY <2>1, <1>2
        <3>2. Kid(t, q, x) # c
            BY <2>1, <1>1, <1>3, NilIsNoNode DEF Linked
        <3>. QED BY <3>1, <3>2, <1>3, <1>8, KidType
    <2>2. /\ down[Kid(u, s, n)] = below[inner] /\ down[Kid(u, o, n)] = below[other]
          /\ down[Kid(u, s, c)] = below[outer]
          /\ down[Kid(u, o, c)] = {n} \cup below[other] \cup below[inner]
        BY <1>1, <1>2, <1>3, <1>4, <1>5, <1>6, <1>8 DEF other, outer
    <2>3. CASE s = Right
        <3>1. o = Left
            BY <2>3 DEF o, Opposite, Left, Right
        <3>2. \A x \in below[other] : keys[x] <= keys[n]
            BY <3>1, <1>14, <1>1 DEF Ordered, other
        <3>3. \A x \in below[c] : keys[n] <= keys[x]
            BY <2>3, <1>14, <1>1 DEF Ordered, c
        <3>4. \A x \in below[inner] : keys[x] <= keys[c]
            BY <3>1, <1>14, <1>1 DEF Ordered, inner
        <3>5. \A x \in below[outer] : keys[c] <= keys[x]
            BY <2>3, <1>14, <1>1 DEF Ordered, outer
        <3>6. \A x \in Nodes : keys[x] \in Int
            OBVIOUS
        <3>7. c \in below[c] /\ below[inner] \subseteq below[c]
            BY <1>5
        <3>8. \A x \in below[other] : keys[x] <= keys[c]
            BY <3>2, <3>3, <3>6, <3>7, <1>1, <1>4
        <3>9. ASSUME NEW x \in Nodes
              PROVE  /\ \A y \in down[Kid(u, Left, x)] : keys[y] <= keys[x]
                     /\ \A y \in down[Kid(u, Right, x)] : keys[x] <= keys[y]
            <4>1. CASE x = n
                BY <4>1, <2>2, <2>3, <3>1, <3>2, <3>3, <3>7
            <4>2. CASE x = c
                BY <4>2, <2>2, <2>3, <3>1, <3>3, <3>4, <3>5, <3>7, <3>8
            <4>3. CASE x # n /\ x # c
                BY <4>3, <2>1, <1>14 DEF Ordered
            <4>. QED BY <4>1, <4>2, <4>3
        <3>. QED BY <3>9 DEF Ordered
    <2>4. CASE s = Left
        <3>1. o = Right
            BY <2>4 DEF o, Opposite, Left, Right
        <3>2. \A x \in below[other] : keys[n] <= keys[x]
            BY <3>1, <1>14, <1>1 DEF Ordered, other
        <3>3. \A x \in below[c] : keys[x] <= keys[n]
            BY <2>4, <1>14, <1>1 DEF Ordered, c
        <3>4. \A x \in below[inner] : keys[c] <= keys[x]
            BY <3>1, <1>14, <1>1 DEF Ordered, inner
        <3>5. \A x \in below[outer] : keys[x] <= keys[c]
            BY <2>4, <1>14, <1>1 DEF Ordered, outer
        <3>6. \A x \in Nodes : keys[x] \in Int
            OBVIOUS
        <3>7. c \in below[c] /\ below[inner] \subseteq below[c]
            BY <1>5
        <3>8. \A x \in below[other] : keys[c] <= keys[x]
            BY <3>2, <3>3, <3>6, <3>7, <1>1, <1>4
        <3>9. ASSUME NEW x \in Nodes
              PROVE  /\ \A y \in down[Kid(u, Left, x)] : keys[y] <= keys[x]
                     /\ \A y \in down[Kid(u, Right, x)] : keys[x] <= keys[y]
            <4>1. CASE x = n
                BY <4>1, <2>2, <2>4, <3>1, <3>2, <3>3, <3>7
            <4>2. CASE x = c
                BY <4>2, <2>2, <2>4, <3>1, <3>3, <3>4, <3>5, <3>7, <3>8
            <4>3. CASE x # n /\ x # c
                BY <4>3, <2>1, <1>14 DEF Ordered
            <4>. QED BY <4>1, <4>2, <4>3
        <3>. QED BY <3>9 DEF Ordered
    <2>. QED BY <2>3, <2>4 DEF Side
<1>15. WellFormed(u, down)
    BY <1>2, <1>9, <1>11, <1>13 DEF WellFormed
<1>. QED BY <1>12, <1>14, <1>15 DEF u, down

-------------------------------------------------------------------------------
(* Taking out a node that has one child or none *)

(* u is t without n; the child of n on side s has its place.               *)
RemovedTo(t, u, n, s) ==
    LET c == Kid(t, s, n)
    IN /\ u \in Trees /\ u.head = IF n = t.head THEN c ELSE t.head
       /\ \A r \in Side, x \in Nodes :
             Kid(u, r, x) = IF x = n THEN Nil ELSE IF Kid(t, r, x) = n THEN c ELSE Kid(t, r, x)
       /\ \A x \in Nodes :
             /\ u.parent[x] = IF x = n THEN Nil ELSE IF x = c THEN t.parent[n] ELSE t.parent[x]
             /\ u.root[x] <=> IF x = n THEN FALSE ELSE IF x = c THEN t.root[n] ELSE t.root[x]
             /\ u.h_diff[x] = IF x = n THEN 0 ELSE t.h_diff[x]

Without(below, n) == [x \in Pointer |-> IF x = n THEN {n} ELSE below[x] \ {n}]

(* The child is hung on n's parent, whatever n still points to itself.     *)
LEMMA HangIs ==
    ASSUME NEW t, NEW below, WellFormed(t, below), NEW n \in below[t.head], NEW s \in Side,
           NEW v \in Trees, v.parent = t.parent, v.root = t.root, v.h_diff = t.h_diff,
           v.head = t.head,
           \A r \in Side, x \in Nodes : x # n => Kid(v, r, x) = Kid(t, r, x)
    PROVE  LET c == Kid(t, s, n)
               up == SetRoot(SetParent(v, c, t.parent[n]), c, t.root[n])
           IN RemovedTo(t, Fresh(Put(up, parent_ptr(t, n), c), n), n, s)
<1>. DEFINE c == Kid(t, s, n)
            a == SetParent(v, c, t.parent[n])
            b == SetRoot(a, c, t.root[n])
            p == parent_ptr(t, n)
            m == p.of
            q == p.side
            d == Put(b, Slot(m, q), c)
            u == Fresh(d, n)
<1>1. t \in Trees /\ t.head \in Pointer /\ n \in Nodes /\ n \in Pointer
    BY BelowNested, NilIsNoNode DEF WellFormed, Trees
<1>2. c \in Pointer /\ c # n /\ t.parent[n] \in Pointer /\ t.root[n] \in BOOLEAN
    <2>1. c \in Pointer /\ t.parent[n] \in Pointer /\ t.root[n] \in BOOLEAN
        BY <1>1, KidType DEF Trees
    <2>2. c # n
        BY <1>1, ShapeAt DEF WellFormed
    <2>. QED BY <2>1, <2>2
<1>3. /\ q \in Side /\ m \in Pointer /\ p = Slot(m, q)
      /\ m = Nil <=> n = t.head
      /\ \A r \in Side, x \in Nodes : Kid(t, r, x) = n <=> x = m /\ r = q
    BY ParentSlot
<1>4. m # n
    BY <1>1, <1>3, ShapeAt DEF WellFormed
<1>. HIDE DEF c, p, m, q
<1>5. ParentSetTo(v, a, c, t.parent[n])
    BY <1>2, SetParentIs
<1>. HIDE DEF a
<1>6. RootSetTo(a, b, c, t.root[n])
    BY <1>2, <1>5, SetRootIs DEF ParentSetTo
<1>. HIDE DEF b
<1>7. PutTo(b, d, m, q, c)
    BY <1>2, <1>3, <1>6, PutIs DEF RootSetTo
<1>. HIDE DEF d
<1>8. ClearedTo(d, u, n)
    BY <1>1, <1>7, FreshIs DEF PutTo
<1>. HIDE DEF u
<1>9. \A r \in Side, x \in Nodes : Kid(d, r, x) = IF x = m /\ r = q THEN c ELSE Kid(v, r, x)
    BY <1>5, <1>6, <1>7 DEF ParentSetTo, RootSetTo, PutTo, Kid
<1>10. \A r \in Side, x \in Nodes :
           Kid(u, r, x) = IF x = n THEN Nil ELSE IF Kid(t, r, x) = n THEN c ELSE Kid(t, r, x)
    BY <1>3, <1>4, <1>8, <1>9 DEF ClearedTo
<1>11. u.head = IF n = t.head THEN c ELSE t.head
    BY <1>3, <1>5, <1>6, <1>7, <1>8 DEF ParentSetTo, RootSetTo, PutTo, ClearedTo
<1>12. ASSUME NEW x \in Nodes
       PROVE  /\ u.parent[x] = IF x = n THEN Nil ELSE IF x = c THEN t.parent[n] ELSE t.parent[x]
              /\ u.root[x] <=> IF x = n THEN FALSE ELSE IF x = c THEN t.root[n] ELSE t.root[x]
              /\ u.h_diff[x] = IF x = n THEN 0 ELSE t.h_diff[x]
    BY <1>5, <1>6, <1>7, <1>8 DEF ParentSetTo, RootSetTo, PutTo, ClearedTo
<1>13. RemovedTo(t, u, n, s)
    BY <1>8, <1>10, <1>11, <1>12 DEF RemovedTo, ClearedTo, c
<1>. QED BY <1>3, <1>13 DEF u, d, b, a, c, p

LEMMA SpliceIs ==
    ASSUME NEW t, NEW below, WellFormed(t, below), NEW n \in below[t.head], NEW s \in Side,
           s = IF Kid(t, Left, n) # Nil THEN Left ELSE Right
    PROVE  RemovedTo(t, Fresh(Splice(t, n), n), n, s)
<1>. DEFINE c == Kid(t, s, n)
            w == SetRoot(SetParent(t, c, t.parent[n]), c, t.root[n])
            v == [t EXCEPT !.kid[s][n] = Nil]
            up == SetRoot(SetParent(v, c, t.parent[n]), c, t.root[n])
<1>1. t \in Trees /\ t.head \in Pointer /\ n \in Nodes /\ c \in Pointer
    BY BelowNested, KidType DEF WellFormed, Trees
<1>2. t.parent[n] \in Pointer /\ t.root[n] \in BOOLEAN
    BY <1>1 DEF Trees
<1>3. Splice(t, n) = Put([w EXCEPT !.kid[s][n] = Nil], parent_ptr(t, n), c)
    BY DEF Splice
<1>4. [w EXCEPT !.kid[s][n] = Nil] = up
    BY <1>1, <1>2 DEF SetRoot, SetParent, Trees
<1>5. /\ v \in Trees /\ v.parent = t.parent /\ v.root = t.root /\ v.h_diff = t.h_diff
      /\ v.head = t.head
      /\ \A r \in Side, x \in Nodes : x # n => Kid(v, r, x) = Kid(t, r, x)
    BY <1>1, KidSet, NilIsNoNode
<1>. HIDE DEF v
<1>6. RemovedTo(t, Fresh(Put(up, parent_ptr(t, n), c), n), n, s)
    BY <1>5, HangIs
<1>. HIDE DEF up
<1>. QED BY <1>3, <1>4, <1>6

LEMMA RemovedShape ==
    ASSUME NEW t, NEW below, WellFormed(t, below), NEW n \in below[t.head], NEW s \in Side,
           Kid(t, Opposite(s), n) = Nil, NEW u, RemovedTo(t, u, n, s)
    PROVE  LET down == Without(below, n)
           IN /\ WellFormed(u, down) /\ down[u.head] = below[t.head] \ {n}
              /\ \A x \in Nodes, r \in Side :
                    x # n => down[Kid(u, r, x)] = below[Kid(t, r, x)] \ {n}
<1>. DEFINE c == Kid(t, s, n)
            down == Without(below, n)
<1>1. /\ t \in Trees /\ Shape(t, below) /\ Linked(t) /\ Apart(t, below)
      /\ t.head \in Pointer /\ n \in Nodes /\ c \in Pointer /\ t.head # Nil
    <2>1. t.head \in Pointer /\ t \in Trees /\ Shape(t, below)
        BY DEF WellFormed, Trees
    <2>2. n \in Nodes
        BY <2>1, BelowNested
    <2>. QED BY <2>1, <2>2, KidType DEF WellFormed, Shape
<1>2. /\ u \in Trees /\ u.head = IF n = t.head THEN c ELSE t.head
      /\ \A r \in Side, x \in Nodes :
            Kid(u, r, x) = IF x = n THEN Nil ELSE IF Kid(t, r, x) = n THEN c ELSE Kid(t, r, x)
      /\ \A x \in Nodes :
            /\ u.parent[x] = IF x = n THEN Nil ELSE IF x = c THEN t.parent[n] ELSE t.parent[x]
            /\ u.root[x] <=> IF x = n THEN FALSE ELSE IF x = c THEN t.root[n] ELSE t.root[x]
            /\ u.h_diff[x] = IF x = n THEN 0 ELSE t.h_diff[x]
    BY DEF RemovedTo
<1>3. /\ below \in [Pointer -> SUBSET Nodes] /\ below[Nil] = {}
      /\ \A x \in Nodes : IsFiniteSet(below[x])
    BY <1>1 DEF Shape
<1>4. /\ below[n] = {n} \cup below[c] /\ n \notin below[c] /\ c # n
    BY <1>1, <1>3, ShapeAt
<1>. HIDE DEF c
<1>5. /\ down \in [Pointer -> SUBSET Nodes]
      /\ down[n] = {n}
      /\ \A x \in Pointer : x # n => down[x] = below[x] \ {n}
      /\ down[c] = below[n] \ {n}
    <2>1. n \in Pointer /\ {n} \in SUBSET Nodes
        BY <1>1, NilIsNoNode
    <2>2. \A x \in Pointer : down[x] = IF x = n THEN {n} ELSE below[x] \ {n}
        BY DEF Without
    <2>3. \A x \in Pointer : (IF x = n THEN {n} ELSE below[x] \ {n}) \in SUBSET Nodes
        BY <1>3, <2>1
    <2>4. down \in [Pointer -> SUBSET Nodes]
        BY <2>3 DEF Without
    <2>. HIDE DEF down
    <2>. QED BY <2>1, <2>2, <2>4, <1>1, <1>4
<1>. HIDE DEF down
<1>6. ASSUME NEW x \in Nodes, x # n, NEW r \in Side
      PROVE  down[Kid(u, r, x)] = below[Kid(t, r, x)] \ {n}
    <2>1. Kid(u, r, x) = IF Kid(t, r, x) = n THEN c ELSE Kid(t, r, x)
        BY <1>2, <1>6
    <2>. QED BY <2>1, <1>1, <1>5, KidType
<1>7. Shape(u, down)
    <2>1. down[Nil] = {}
        BY <1>1, <1>3, <1>5, NilIsNoNode
    <2>2. ASSUME NEW x \in Nodes PROVE IsFiniteSet(down[x])
        <3>1. down[x] \in SUBSET below[x]
            BY <1>1, <1>5, ShapeAt, Sides, NilIsNoNode
        <3>. QED BY <3>1, <1>3, FS_Subset
    <2>3. ASSUME NEW x \in Nodes, NEW r \in Side
          PROVE  /\ down[x] = {x} \cup down[Kid(u, r, x)] \cup down[Kid(u, Opposite(r), x)]
                 /\ x \notin down[Kid(u, r, x)]
                 /\ down[Kid(u, r, x)] \cap down[Kid(u, Opposite(r), x)] = {}
        <3>1. CASE x = n
            BY <3>1, <2>1, <1>2, <1>5, Sides
        <3>2. CASE x # n
            <4>1. /\ down[Kid(u, r, x)] = below[Kid(t, r, x)] \ {n}
                  /\ down[Kid(u, Opposite(r), x)] = below[Kid(t, Opposite(r), x)] \ {n}
                  /\ down[x] = below[x] \ {n}
                BY <3>2, <1>5, <1>6, Sides, NilIsNoNode
            <4>. QED BY <3>2, <4>1, <1>1, ShapeAt
        <3>. QED BY <3>1, <3>2
    <2>. QED BY <2>1, <2>2, <2>3, <1>5 DEF Shape
<1>8. c # Nil => c \in Nodes /\ t.parent[c] = n
    BY <1>1 DEF Linked, Pointer, c
<1>9. Linked(u)
    <2>1. u.head # Nil => u.parent[u.head] = Nil
        <3>1. CASE n = t.head
            BY <3>1, <1>1, <1>2, <1>4, <1>8, NilIsNoNode DEF Linked
        <3>2. CASE n # t.head
            BY <3>2, <1>1, <1>2, <1>8, NilIsNoNode DEF Linked, Pointer
        <3>. QED BY <3>1, <3>2
    <2>2. ASSUME NEW x \in Nodes, NEW r \in Side, Kid(u, r, x) # Nil
          PROVE  u.parent[Kid(u, r, x)] = x
        <3>1. x # n /\ Kid(u, r, x) = IF Kid(t, r, x) = n THEN c ELSE Kid(t, r, x)
            BY <2>2, <1>2
        <3>2. CASE Kid(t, r, x) = n
            BY <2>2, <3>1, <3>2, <1>1, <1>2, <1>4, <1>8, NilIsNoNode DEF Linked
        <3>3. CASE Kid(t, r, x) # n
            <4>1. Kid(t, r, x) \in Nodes /\ t.parent[Kid(t, r, x)] = x
                BY <2>2, <3>1, <3>3, <1>1, KidType DEF Linked, Pointer
            <4>2. Kid(t, r, x) # c
                BY <4>1, <3>1, <1>8, NilIsNoNode
            <4>. QED BY <3>1, <3>3, <4>1, <4>2, <1>2
        <3>. QED BY <3>2, <3>3
    <2>3. ASSUME NEW x \in Nodes, u.parent[x] # Nil
          PROVE  \E r \in Side : Kid(u, r, u.parent[x]) = x
        <3>1. x # n
            BY <2>3, <1>2
        <3>2. CASE x = c
            <4>1. u.parent[x] = t.parent[n] /\ t.parent[n] \in Nodes
                BY <2>3, <3>1, <3>2, <1>1, <1>2 DEF Trees, Pointer
            <4>2. PICK r \in Side : Kid(t, r, t.parent[n]) = n
                BY <4>1, <1>1, NilIsNoNode DEF Linked
            <4>3. t.parent[n] # n
                BY <4>1, <4>2, <1>1, ShapeAt
            <4>. QED BY <3>2, <4>1, <4>2, <4>3, <1>2
        <3>3. CASE x # c
            <4>1. u.parent[x] = t.parent[x] /\ t.parent[x] \in Nodes
                BY <2>3, <3>1, <3>3, <1>1, <1>2 DEF Trees, Pointer
            <4>2. PICK r \in Side : Kid(t, r, t.parent[x]) = x
                BY <4>1, <1>1, NilIsNoNode DEF Linked
            <4>3. t.parent[x] # n
                <5>1. ASSUME t.parent[x] = n PROVE FALSE
                    <6>1. r = Opposite(s)
                        BY <4>2, <5>1, <3>3, Sides DEF c
                    <6>. QED BY <6>1, <4>2, <5>1, NilIsNoNode
                <5>. QED BY <5>1
            <4>. QED BY <3>1, <4>1, <4>2, <4>3, <1>2
        <3>. QED BY <3>2, <3>3
    <2>4. ASSUME NEW x \in Nodes PROVE u.root[x] <=> x = u.head
        <3>1. c # t.head
            BY <1>1, <1>8, NilIsNoNode DEF Linked
        <3>. QED BY <3>1, <1>1, <1>2, <1>4, <1>8, NilIsNoNode DEF Linked
    <2>. QED BY <2>1, <2>2, <2>3, <2>4 DEF Linked
<1>10. down[u.head] = below[t.head] \ {n}
    BY <1>1, <1>2, <1>5
<1>11. Apart(u, down)
    <2>1. ASSUME NEW x \in Nodes, x \notin down[u.head]
          PROVE  u.parent[x] = Nil /\ u.h_diff[x] = 0 /\ \A r \in Side : Kid(u, r, x) = Nil
        <3>1. CASE x = n
            BY <3>1, <1>2
        <3>2. CASE x # n
            <4>1. x \notin below[t.head]
                BY <2>1, <3>2, <1>10
            <4>2. t.parent[x] = Nil /\ t.h_diff[x] = 0 /\ \A r \in Side : Kid(t, r, x) = Nil
                BY <4>1, <1>1 DEF Apart
            <4>3. x # c
                BY <4>2, <1>1, <1>8, NilIsNoNode
            <4>. QED BY <3>2, <4>2, <4>3, <1>1, <1>2, NilIsNoNode
        <3>. QED BY <3>1, <3>2
    <2>. QED BY <2>1 DEF Apart
<1>12. WellFormed(u, down)
    BY <1>2, <1>7, <1>9, <1>11 DEF WellFormed
<1>. QED BY <1>6, <1>10, <1>12 DEF down

LEMMA RemovedOrder ==
    ASSUME NEW t, NEW below, WellFormed(t, below), NEW n \in below[t.head], NEW s \in Side,
           Kid(t, Opposite(s), n) = Nil, NEW u, RemovedTo(t, u, n, s),
           NEW keys, Ordered(t, below, keys)
    PROVE  Ordered(u, Without(below, n), keys)
<1>. DEFINE down == Without(below, n)
<1>. Left \in Side /\ Right \in Side
    BY DEF Side
<1>1. \A x \in Nodes, r \in Side : x # n => down[Kid(u, r, x)] = below[Kid(t, r, x)] \ {n}
    BY RemovedShape
<1>2. \A r \in Side : Kid(u, r, n) = Nil /\ down[Nil] = {}
    <2>1. n \in Nodes
        BY BelowNested DEF WellFormed, Trees
    <2>2. WellFormed(u, down)
        BY RemovedShape
    <2>. QED BY <2>1, <2>2 DEF RemovedTo, WellFormed, Shape
<1>. HIDE DEF down
<1>3. ASSUME NEW x \in Nodes
      PROVE  /\ \A y \in down[Kid(u, Left, x)] : keys[y] <= keys[x]
             /\ \A y \in down[Kid(u, Right, x)] : keys[x] <= keys[y]
    BY <1>1, <1>2 DEF Ordered
<1>4. Ordered(u, down, keys)
    BY <1>3 DEF Ordered
<1>. QED BY <1>4 DEF down

-------------------------------------------------------------------------------
(* Two nodes that exchange their places *)

Swap(a, b) == [x \in Pointer |-> IF x = a THEN b ELSE IF x = b THEN a ELSE x]

(* t with each node where f has it.                                        *)
Relabelled(t, f) ==
    [kid |-> [s \in Side |-> [x \in Nodes |-> f[Kid(t, s, f[x])]]],
     parent |-> [x \in Nodes |-> f[t.parent[f[x]]]],
     root |-> [x \in Nodes |-> t.root[f[x]]],
     h_diff |-> [x \in Nodes |-> t.h_diff[f[x]]],
     head |-> f[t.head]]

BelowSwapped(below, f) == [x \in Pointer |-> {y \in Nodes : f[y] \in below[f[x]]}]

LEMMA SwapIs ==
    ASSUME NEW a \in Nodes, NEW b \in Nodes
    PROVE  LET f == Swap(a, b)
           IN /\ f \in [Pointer -> Pointer] /\ f[Nil] = Nil /\ f[a] = b /\ f[b] = a
              /\ \A x \in Pointer : f[f[x]] = x /\ (f[x] = Nil <=> x = Nil)
              /\ \A x \in Nodes : f[x] \in Nodes
              /\ \A x \in Pointer : x # a /\ x # b => f[x] = x
BY NilIsNoNode DEF Swap

LEMMA RelabelledIs ==
    ASSUME NEW t \in Trees, NEW a \in Nodes, NEW b \in Nodes
    PROVE  LET f == Swap(a, b)
               u == Relabelled(t, f)
           IN /\ u \in Trees /\ u.head = f[t.head]
              /\ \A s \in Side, x \in Nodes : Kid(u, s, x) = f[Kid(t, s, f[x])]
              /\ \A x \in Nodes :
                    /\ u.parent[x] = f[t.parent[f[x]]]
                    /\ u.root[x] = t.root[f[x]]
                    /\ u.h_diff[x] = t.h_diff[f[x]]
<1>. DEFINE f == Swap(a, b)
            u == Relabelled(t, f)
<1>1. f \in [Pointer -> Pointer] /\ \A x \in Nodes : f[x] \in Nodes
    BY SwapIs
<1>. HIDE DEF f
<1>2. \A s \in Side, x \in Nodes : Kid(t, s, f[x]) \in Pointer
    BY <1>1, KidType
<1>3. \A x \in Nodes : /\ t.parent[f[x]] \in Pointer /\ t.root[f[x]] \in BOOLEAN
                       /\ t.h_diff[f[x]] \in Int
    BY <1>1 DEF Trees
<1>4. t.head \in Pointer
    BY DEF Trees
<1>5. /\ u.kid = [s \in Side |-> [x \in Nodes |-> f[Kid(t, s, f[x])]]]
      /\ u.parent = [x \in Nodes |-> f[t.parent[f[x]]]]
      /\ u.root = [x \in Nodes |-> t.root[f[x]]]
      /\ u.h_diff = [x \in Nodes |-> t.h_diff[f[x]]]
      /\ u.head = f[t.head]
      /\ u = [kid |-> u.kid, parent |-> u.parent, root |-> u.root, h_diff |-> u.h_diff,
              head |-> u.head]
    BY DEF Relabelled
<1>. HIDE DEF u
<1>6. /\ u.kid \in [Side -> [Nodes -> Pointer]] /\ u.parent \in [Nodes -> Pointer]
      /\ u.root \in [Nodes -> BOOLEAN] /\ u.h_diff \in [Nodes -> Int] /\ u.head \in Pointer
    BY <1>1, <1>2, <1>3, <1>4, <1>5
<1>7. u \in Trees
    BY <1>5, <1>6 DEF Trees
<1>8. \A s \in Side, x \in Nodes : Kid(u, s, x) = f[Kid(t, s, f[x])]
    BY <1>5 DEF Kid
<1>9. \A x \in Nodes :
         /\ u.parent[x] = f[t.parent[f[x]]]
         /\ u.root[x] = t.root[f[x]]
         /\ u.h_diff[x] = t.h_diff[f[x]]
    BY <1>5
<1>10. u.head = f[t.head]
    BY <1>5
<1>. HIDE DEF Relabelled
<1>. QED BY <1>7, <1>8, <1>9, <1>10 DEF f, u

LEMMA RelabelledShape ==
    ASSUME NEW t, NEW below, WellFormed(t, below), NEW a \in Nodes, NEW b \in Nodes,
           a \in below[t.head], b \in below[t.head]
    PROVE  LET f == Swap(a, b)
               u == Relabelled(t, f)
               down == BelowSwapped(below, f)
           IN /\ WellFormed(u, down) /\ down[u.head] = below[t.head]
              /\ \A x \in Nodes, s \in Side :
                    down[Kid(u, s, x)] = {y \in Nodes : f[y] \in below[Kid(t, s, f[x])]}
<1>. DEFINE f == Swap(a, b)
            u == Relabelled(t, f)
            down == BelowSwapped(below, f)
<1>1. /\ t \in Trees /\ Shape(t, below) /\ Linked(t) /\ Apart(t, below) /\ t.head \in Pointer
      /\ below \in [Pointer -> SUBSET Nodes]
    BY DEF WellFormed, Trees, Shape
<1>2. /\ f \in [Pointer -> Pointer] /\ f[Nil] = Nil /\ f[a] = b /\ f[b] = a
      /\ \A x \in Pointer : f[f[x]] = x /\ (f[x] = Nil <=> x = Nil)
      /\ \A x \in Nodes : f[x] \in Nodes
      /\ \A x \in Pointer : x # a /\ x # b => f[x] = x
    BY SwapIs
<1>3. /\ u \in Trees /\ u.head = f[t.head]
      /\ \A s \in Side, x \in Nodes : Kid(u, s, x) = f[Kid(t, s, f[x])]
      /\ \A x \in Nodes :
            /\ u.parent[x] = f[t.parent[f[x]]]
            /\ u.root[x] = t.root[f[x]]
            /\ u.h_diff[x] = t.h_diff[f[x]]
    BY <1>1, RelabelledIs
<1>. HIDE DEF f, u
<1>4. /\ down \in [Pointer -> SUBSET Nodes]
      /\ \A x \in Pointer : down[x] = {y \in Nodes : f[y] \in below[f[x]]}
    BY DEF BelowSwapped
<1>. HIDE DEF down
<1>5. ASSUME NEW x \in Nodes, NEW s \in Side
      PROVE  down[Kid(u, s, x)] = {y \in Nodes : f[y] \in below[Kid(t, s, f[x])]}
    <2>1. Kid(t, s, f[x]) \in Pointer
        BY <1>1, <1>2, KidType
    <2>. QED BY <2>1, <1>2, <1>3, <1>4
<1>6. Shape(u, down)
    <2>1. down[Nil] = {}
        BY <1>1, <1>2, <1>4, NilIsNoNode DEF Shape
    <2>2. ASSUME NEW x \in Nodes PROVE IsFiniteSet(down[x])
        <3>1. IsFiniteSet(below[f[x]])
            BY <1>1, <1>2 DEF Shape
        <3>2. IsFiniteSet((below[f[x]] \cup {a}) \cup {b})
            BY <3>1, FS_AddElement
        <3>3. down[x] \in SUBSET ((below[f[x]] \cup {a}) \cup {b})
            BY <1>2, <1>4, NilIsNoNode
        <3>. QED BY <3>2, <3>3, FS_Subset
    <2>3. ASSUME NEW x \in Nodes, NEW r \in Side
          PROVE  /\ down[x] = {x} \cup down[Kid(u, r, x)] \cup down[Kid(u, Opposite(r), x)]
                 /\ x \notin down[Kid(u, r, x)]
                 /\ down[Kid(u, r, x)] \cap down[Kid(u, Opposite(r), x)] = {}
        <3>. DEFINE z == f[x]
                    k == Kid(t, r, z)
                    j == Kid(t, Opposite(r), z)
        <3>1. z \in Nodes /\ x \in Pointer
            BY <1>2, NilIsNoNode
        <3>2. /\ below[z] = {z} \cup below[k] \cup below[j]
              /\ z \notin below[k] /\ below[k] \cap below[j] = {}
            BY <3>1, <1>1, ShapeAt
        <3>3. /\ down[Kid(u, r, x)] = {y \in Nodes : f[y] \in below[k]}
              /\ down[Kid(u, Opposite(r), x)] = {y \in Nodes : f[y] \in below[j]}
              /\ down[x] = {y \in Nodes : f[y] \in below[z]}
            BY <1>4, <1>5, <3>1, Sides
        <3>4. \A y \in Nodes : f[y] = z => y = x
            BY <1>2, NilIsNoNode
        <3>. HIDE DEF k, j
        <3>. QED BY <3>1, <3>2, <3>3, <3>4
    <2>. QED BY <2>1, <2>2, <2>3, <1>4 DEF Shape
<1>7. Linked(u)
    <2>1. u.head # Nil => u.parent[u.head] = Nil
        <3>1. t.head # Nil => t.head \in Nodes /\ t.parent[t.head] = Nil
            BY <1>1 DEF Linked, Pointer
        <3>. QED BY <3>1, <1>1, <1>2, <1>3
    <2>2. ASSUME NEW x \in Nodes, NEW r \in Side, Kid(u, r, x) # Nil
          PROVE  u.parent[Kid(u, r, x)] = x
        <3>1. f[x] \in Nodes /\ Kid(t, r, f[x]) \in Pointer
            BY <1>1, <1>2, KidType
        <3>2. Kid(t, r, f[x]) # Nil
            BY <3>1, <2>2, <1>2, <1>3
        <3>3. t.parent[Kid(t, r, f[x])] = f[x] /\ Kid(t, r, f[x]) \in Nodes
            BY <3>1, <3>2, <1>1 DEF Linked, Pointer
        <3>4. Kid(u, r, x) = f[Kid(t, r, f[x])] /\ Kid(u, r, x) \in Nodes
            BY <3>3, <1>2, <1>3
        <3>5. u.parent[Kid(u, r, x)] = f[t.parent[f[f[Kid(t, r, f[x])]]]]
            BY <3>4, <1>3
        <3>6. f[f[Kid(t, r, f[x])]] = Kid(t, r, f[x]) /\ f[f[x]] = x
            BY <3>1, <1>2, NilIsNoNode
        <3>. QED BY <3>3, <3>5, <3>6
    <2>3. ASSUME NEW x \in Nodes, u.parent[x] # Nil
          PROVE  \E r \in Side : Kid(u, r, u.parent[x]) = x
        <3>1. f[x] \in Nodes /\ t.parent[f[x]] \in Pointer
            BY <1>1, <1>2 DEF Trees
        <3>2. t.parent[f[x]] # Nil
            BY <3>1, <2>3, <1>2, <1>3
        <3>3. PICK r \in Side : Kid(t, r, t.parent[f[x]]) = f[x]
            BY <3>1, <3>2, <1>1 DEF Linked
        <3>4. u.parent[x] = f[t.parent[f[x]]] /\ u.parent[x] \in Nodes
            BY <3>1, <3>2, <1>2, <1>3 DEF Pointer
        <3>5. Kid(u, r, u.parent[x]) = f[Kid(t, r, f[f[t.parent[f[x]]]])]
            BY <3>4, <1>3
        <3>6. f[f[t.parent[f[x]]]] = t.parent[f[x]] /\ f[f[x]] = x
            BY <3>1, <1>2, NilIsNoNode
        <3>. QED BY <3>3, <3>5, <3>6
    <2>4. ASSUME NEW x \in Nodes PROVE u.root[x] <=> x = u.head
        BY <1>1, <1>2, <1>3, NilIsNoNode DEF Linked
    <2>. QED BY <2>1, <2>2, <2>3, <2>4 DEF Linked
<1>8. down[u.head] = below[t.head]
    <2>1. u.head \in Pointer /\ f[u.head] = t.head
        BY <1>1, <1>2, <1>3
    <2>2. down[u.head] = {y \in Nodes : f[y] \in below[t.head]}
        BY <2>1, <1>4
    <2>3. below[t.head] \in SUBSET Nodes
        BY <1>1
    <2>. QED BY <2>2, <2>3, <1>2, NilIsNoNode
<1>9. Apart(u, down)
    <2>1. ASSUME NEW x \in Nodes, x \notin below[t.head]
          PROVE  u.parent[x] = Nil /\ u.h_diff[x] = 0 /\ \A r \in Side : Kid(u, r, x) = Nil
        <3>1. f[x] = x
            BY <2>1, <1>2, NilIsNoNode
        <3>. QED BY <3>1, <2>1, <1>1, <1>2, <1>3 DEF Apart
    <2>. QED BY <2>1, <1>8 DEF Apart
<1>10. WellFormed(u, down)
    BY <1>3, <1>6, <1>7, <1>9 DEF WellFormed
<1>. QED BY <1>5, <1>8, <1>10 DEF f, u, down

(* Trees with the same pointers and balances are the same.                 *)
LEMMA TreesEqual ==
    ASSUME NEW t \in Trees, NEW u \in Trees, u.head = t.head,
           \A s \in Side, x \in Nodes : Kid(u, s, x) = Kid(t, s, x),
           \A x \in Nodes : /\ u.parent[x] = t.parent[x]
                            /\ u.root[x] = t.root[x]
                            /\ u.h_diff[x] = t.h_diff[x]
    PROVE  u = t
<1>1. u.parent = t.parent
    <2>1. u.parent \in [Nodes -> Pointer] /\ t.parent \in [Nodes -> Pointer]
        BY DEF Trees
    <2>. QED BY <2>1
<1>2. u.root = t.root
    <2>1. u.root \in [Nodes -> BOOLEAN] /\ t.root \in [Nodes -> BOOLEAN]
        BY DEF Trees
    <2>. QED BY <2>1
<1>3. u.h_diff = t.h_diff
    <2>1. u.h_diff \in [Nodes -> Int] /\ t.h_diff \in [Nodes -> Int]
        BY DEF Trees
    <2>. QED BY <2>1
<1>4. u.kid = t.kid
    <2>1. u.kid \in [Side -> [Nodes -> Pointer]] /\ t.kid \in [Side -> [Nodes -> Pointer]]
        BY DEF Trees
    <2>2. ASSUME NEW s \in Side PROVE u.kid[s] = t.kid[s]
        <3>1. u.kid[s] \in [Nodes -> Pointer] /\ t.kid[s] \in [Nodes -> Pointer]
            BY <2>1
        <3>2. \A x \in Nodes : u.kid[s][x] = t.kid[s][x]
            BY DEF Kid
        <3>. QED BY <3>1, <3>2
    <2>. QED BY <2>1, <2>2
<1>5. /\ u = [kid |-> u.kid, parent |-> u.parent, root |-> u.root, h_diff |-> u.h_diff,
              head |-> u.head]
      /\ t = [kid |-> t.kid, parent |-> t.parent, root |-> t.root, h_diff |-> t.h_diff,
              head |-> t.head]
    BY DEF Trees
<1>. QED BY <1>1, <1>2, <1>3, <1>4, <1>5

(* The children of n have it for their parent.                             *)
AdoptedTo(t, u, n) ==
    /\ u \in Trees /\ u.kid = t.kid /\ u.root = t.root /\ u.h_diff = t.h_diff /\ u.head = t.head
    /\ \A x \in Nodes :
          u.parent[x] = IF \E s \in Side : Kid(t, s, n) = x THEN n ELSE t.parent[x]

LEMMA AdoptIs ==
    ASSUME NEW t \in Trees, NEW n \in Nodes
    PROVE  AdoptedTo(t, Adopt(t, n), n)
<1>. DEFINE l == Kid(t, Left, n)
            r == Kid(t, Right, n)
            v == SetParent(t, l, n)
            u == SetParent(v, r, n)
<1>1. l \in Pointer /\ r \in Pointer /\ n \in Pointer
    BY KidType, NilIsNoNode DEF Side
<1>2. ParentSetTo(t, v, l, n)
    <2>. HIDE DEF l
    <2>. QED BY <1>1, SetParentIs
<1>3. ParentSetTo(v, u, r, n)
    <2>. HIDE DEF l, r, v
    <2>. QED BY <1>1, <1>2, SetParentIs DEF ParentSetTo
<1>4. Adopt(t, n) = u
    BY DEF Adopt
<1>. HIDE DEF u, v
<1>5. AdoptedTo(t, u, n)
    BY <1>2, <1>3 DEF ParentSetTo, AdoptedTo, Side
<1>. QED BY <1>4, <1>5

(* swap_positions() exchanges the places of two nodes, next to each other  *)
(* or not.                                                                 *)
LEMMA SwappedIs ==
    ASSUME NEW t, NEW below, WellFormed(t, below), NEW a \in below[t.head],
           NEW b \in below[t.head], a # b
    PROVE  Swapped(t, a, b) = Relabelled(t, Swap(a, b))
<1>. DEFINE f == Swap(a, b)
            pa == parent_ptr(t, a)
            pb == parent_ptr(t, b)
            ma == pa.of
            mb == pb.of
            sa == pa.side
            sb == pb.side
            cut == Put(t, Slot(ma, sa), Nil)
            released == Put(cut, Slot(mb, sb), Nil)
            exchanged == [kid |-> [s \in Side |-> Exchanged(released.kid[s], a, b)],
                          parent |-> Exchanged(released.parent, a, b),
                          root |-> Exchanged(released.root, a, b),
                          h_diff |-> Exchanged(released.h_diff, a, b),
                          head |-> released.head]
            half == Put(exchanged, Slot(f[ma], sa), b)
            reset == Put(half, Slot(f[mb], sb), a)
            one == Adopt(reset, a)
            u == Adopt(one, b)
<1>1. /\ t \in Trees /\ t.head \in Pointer /\ a \in Nodes /\ b \in Nodes
      /\ a \in Pointer /\ b \in Pointer /\ Nil \in Pointer
    BY BelowNested, NilIsNoNode DEF WellFormed, Trees
<1>2. /\ f \in [Pointer -> Pointer] /\ f[Nil] = Nil /\ f[a] = b /\ f[b] = a
      /\ \A x \in Pointer : f[f[x]] = x /\ (f[x] = Nil <=> x = Nil)
      /\ \A x \in Nodes : f[x] \in Nodes
      /\ \A x \in Pointer : x # a /\ x # b => f[x] = x
    BY <1>1, SwapIs
<1>3. /\ sa \in Side /\ ma \in Pointer /\ pa = Slot(ma, sa) /\ (ma = Nil <=> a = t.head)
      /\ \A s \in Side, x \in Nodes : Kid(t, s, x) = a <=> x = ma /\ s = sa
    BY ParentSlot
<1>4. /\ sb \in Side /\ mb \in Pointer /\ pb = Slot(mb, sb) /\ (mb = Nil <=> b = t.head)
      /\ \A s \in Side, x \in Nodes : Kid(t, s, x) = b <=> x = mb /\ s = sb
    BY ParentSlot
<1>5. ma # a /\ mb # b
    <2>1. \A s \in Side : Kid(t, s, a) # a /\ Kid(t, s, b) # b
        BY <1>1, ShapeAt DEF WellFormed
    <2>. QED BY <2>1, <1>1, <1>3, <1>4
<1>6. /\ MovedSlot(pa, a, b) = Slot(f[ma], sa)
      /\ MovedSlot(pb, b, a) = Slot(f[mb], sb)
    <2>. HIDE DEF f, pa, pb
    <2>. QED BY <1>1, <1>2, <1>3, <1>4, <1>5 DEF MovedSlot, Slot
<1>7. Swapped(t, a, b) = u
    <2>1. pa = Slot(ma, sa) /\ pb = Slot(mb, sb)
        BY <1>3, <1>4
    <2>. DEFINE rel == Put(Put(t, pa, Nil), pb, Nil)
                exch == [kid |-> [s \in Side |-> Exchanged(rel.kid[s], a, b)],
                         parent |-> Exchanged(rel.parent, a, b),
                         root |-> Exchanged(rel.root, a, b),
                         h_diff |-> Exchanged(rel.h_diff, a, b),
                         head |-> rel.head]
                put == Put(Put(exch, MovedSlot(pa, a, b), b), MovedSlot(pb, b, a), a)
    <2>2. Swapped(t, a, b) = Adopt(Adopt(put, a), b)
        BY DEF Swapped
    <2>3. rel = released
        BY <2>1
    <2>4. exch = exchanged
        BY <2>3
    <2>5. put = reset
        BY <2>4, <1>6
    <2>. QED BY <2>2, <2>5
<1>. HIDE DEF f, pa, pb, ma, mb, sa, sb
<1>8. PutTo(t, cut, ma, sa, Nil)
    BY <1>1, <1>3, PutIs
<1>. HIDE DEF cut
<1>9. PutTo(cut, released, mb, sb, Nil)
    <2>1. cut \in Trees
        BY <1>8 DEF PutTo
    <2>. QED BY <2>1, <1>1, <1>4, PutIs
<1>. HIDE DEF released
<1>10. /\ released \in Trees
       /\ released.parent = t.parent /\ released.root = t.root /\ released.h_diff = t.h_diff
       /\ released.head = IF t.head = a \/ t.head = b THEN Nil ELSE t.head
       /\ \A s \in Side, x \in Nodes :
             Kid(released, s, x) = IF Kid(t, s, x) = a \/ Kid(t, s, x) = b THEN Nil ELSE Kid(t, s, x)
    BY <1>3, <1>4, <1>8, <1>9 DEF PutTo
<1>11. /\ exchanged \in Trees /\ exchanged.head = released.head
       /\ \A s \in Side, x \in Nodes : Kid(exchanged, s, x) = Kid(released, s, f[x])
       /\ \A x \in Nodes :
             /\ exchanged.parent[x] = t.parent[f[x]]
             /\ exchanged.root[x] = t.root[f[x]]
             /\ exchanged.h_diff[x] = t.h_diff[f[x]]
    <2>1. /\ \A s \in Side : released.kid[s] \in [Nodes -> Pointer]
          /\ released.parent \in [Nodes -> Pointer] /\ released.root \in [Nodes -> BOOLEAN]
          /\ released.h_diff \in [Nodes -> Int] /\ released.head \in Pointer
        BY <1>10 DEF Trees
    <2>2. \A x \in Nodes : f[x] = IF x = a THEN b ELSE IF x = b THEN a ELSE x
        BY <1>1, <1>2, NilIsNoNode
    <2>3. ASSUME NEW R, NEW g \in [Nodes -> R]
          PROVE  /\ Exchanged(g, a, b) \in [Nodes -> R]
                 /\ \A x \in Nodes : Exchanged(g, a, b)[x] = g[f[x]]
        BY <1>1, <2>2 DEF Exchanged
    <2>4. /\ Exchanged(released.parent, a, b) \in [Nodes -> Pointer]
          /\ \A x \in Nodes : Exchanged(released.parent, a, b)[x] = released.parent[f[x]]
        BY <2>1, <2>3
    <2>5. /\ Exchanged(released.root, a, b) \in [Nodes -> BOOLEAN]
          /\ \A x \in Nodes : Exchanged(released.root, a, b)[x] = released.root[f[x]]
        BY <2>1, <2>3
    <2>6. /\ Exchanged(released.h_diff, a, b) \in [Nodes -> Int]
          /\ \A x \in Nodes : Exchanged(released.h_diff, a, b)[x] = released.h_diff[f[x]]
        BY <2>1, <2>3
    <2>7. ASSUME NEW s \in Side
          PROVE  /\ Exchanged(released.kid[s], a, b) \in [Nodes -> Pointer]
                 /\ \A x \in Nodes : Exchanged(released.kid[s], a, b)[x] = released.kid[s][f[x]]
        BY <2>1, <2>3
    <2>8. /\ exchanged.kid = [s \in Side |-> Exchanged(released.kid[s], a, b)]
          /\ exchanged.parent = Exchanged(released.parent, a, b)
          /\ exchanged.root = Exchanged(released.root, a, b)
          /\ exchanged.h_diff = Exchanged(released.h_diff, a, b)
          /\ exchanged.head = released.head
          /\ exchanged = [kid |-> exchanged.kid, parent |-> exchanged.parent,
                          root |-> exchanged.root, h_diff |-> exchanged.h_diff,
                          head |-> exchanged.head]
        OBVIOUS
    <2>. HIDE DEF exchanged
    <2>9. exchanged.kid \in [Side -> [Nodes -> Pointer]]
        BY <2>7, <2>8
    <2>10. exchanged \in Trees
        BY <2>1, <2>4, <2>5, <2>6, <2>8, <2>9 DEF Trees
    <2>11. ASSUME NEW s \in Side, NEW x \in Nodes
           PROVE  Kid(exchanged, s, x) = Kid(released, s, f[x])
        BY <2>7, <2>8 DEF Kid
    <2>. QED BY <2>4, <2>5, <2>6, <2>8, <2>10, <2>11, <1>10
<1>. HIDE DEF exchanged
<1>12. f[ma] \in Pointer /\ f[mb] \in Pointer
    BY <1>2, <1>3, <1>4
<1>13. PutTo(exchanged, half, f[ma], sa, b)
    BY <1>1, <1>3, <1>11, <1>12, PutIs
<1>. HIDE DEF half
<1>14. PutTo(half, reset, f[mb], sb, a)
    <2>1. half \in Trees
        BY <1>13 DEF PutTo
    <2>. QED BY <2>1, <1>1, <1>4, <1>12, PutIs
<1>. HIDE DEF reset
<1>15. ASSUME NEW s \in Side, NEW x \in Nodes PROVE Kid(reset, s, x) = f[Kid(t, s, f[x])]
    <2>1. Kid(reset, s, x) = IF x = f[mb] /\ s = sb THEN a
                             ELSE IF x = f[ma] /\ s = sa THEN b ELSE Kid(released, s, f[x])
        BY <1>11, <1>13, <1>14 DEF PutTo
    <2>2. f[x] \in Nodes /\ x \in Pointer /\ Kid(t, s, f[x]) \in Pointer
        BY <1>1, <1>2, KidType, NilIsNoNode
    <2>3. (x = f[mb] <=> f[x] = mb) /\ (x = f[ma] <=> f[x] = ma)
        BY <2>2, <1>2, <1>3, <1>4
    <2>4. (Kid(t, s, f[x]) = a <=> f[x] = ma /\ s = sa) /\ (Kid(t, s, f[x]) = b <=> f[x] = mb /\ s = sb)
        BY <2>2, <1>3, <1>4
    <2>5. Kid(released, s, f[x]) = IF Kid(t, s, f[x]) = a \/ Kid(t, s, f[x]) = b THEN Nil
                                   ELSE Kid(t, s, f[x])
        BY <2>2, <1>10
    <2>. QED BY <2>1, <2>2, <2>3, <2>4, <2>5, <1>2
<1>16. reset.head = f[t.head]
    <2>1. (f[ma] = Nil <=> a = t.head) /\ (f[mb] = Nil <=> b = t.head)
        BY <1>2, <1>3, <1>4
    <2>. QED BY <2>1, <1>1, <1>2, <1>10, <1>11, <1>13, <1>14 DEF PutTo
<1>17. /\ reset \in Trees
       /\ \A x \in Nodes : /\ reset.parent[x] = t.parent[f[x]]
                           /\ reset.root[x] = t.root[f[x]]
                           /\ reset.h_diff[x] = t.h_diff[f[x]]
    BY <1>11, <1>13, <1>14 DEF PutTo
<1>18. AdoptedTo(reset, one, a)
    BY <1>1, <1>17, AdoptIs
<1>. HIDE DEF one
<1>19. AdoptedTo(one, u, b)
    BY <1>1, <1>18, AdoptIs DEF AdoptedTo
<1>. HIDE DEF u
<1>20. ASSUME NEW x \in Nodes PROVE u.parent[x] = f[t.parent[f[x]]]
    <2>1. u.parent[x] = IF \E s \in Side : Kid(reset, s, b) = x THEN b
                        ELSE IF \E s \in Side : Kid(reset, s, a) = x THEN a
                        ELSE t.parent[f[x]]
        BY <1>17, <1>18, <1>19 DEF AdoptedTo, Kid
    <2>2. \A s \in Side : Kid(reset, s, b) = f[Kid(t, s, a)] /\ Kid(reset, s, a) = f[Kid(t, s, b)]
        BY <1>1, <1>2, <1>15
    <2>3. \A s \in Side : Kid(t, s, a) \in Pointer /\ Kid(t, s, b) \in Pointer
        BY <1>1, KidType
    <2>4. x \in Pointer /\ f[x] \in Nodes /\ t.parent[f[x]] \in Pointer
        BY <1>1, <1>2, NilIsNoNode DEF Trees
    <2>5. \A s \in Side : /\ Kid(reset, s, b) = x <=> Kid(t, s, a) = f[x]
                          /\ Kid(reset, s, a) = x <=> Kid(t, s, b) = f[x]
        BY <2>2, <2>3, <2>4, <1>2
    <2>6. /\ (\E s \in Side : Kid(t, s, a) = f[x]) <=> t.parent[f[x]] = a
          /\ (\E s \in Side : Kid(t, s, b) = f[x]) <=> t.parent[f[x]] = b
        BY <2>4, <1>1, NilIsNoNode DEF WellFormed, Linked
    <2>. QED BY <2>1, <2>4, <2>5, <2>6, <1>2
<1>. DEFINE v == Relabelled(t, f)
<1>21. /\ v \in Trees /\ v.head = f[t.head]
       /\ \A s \in Side, x \in Nodes : Kid(v, s, x) = f[Kid(t, s, f[x])]
       /\ \A x \in Nodes :
             /\ v.parent[x] = f[t.parent[f[x]]]
             /\ v.root[x] = t.root[f[x]]
             /\ v.h_diff[x] = t.h_diff[f[x]]
    BY <1>1, RelabelledIs DEF f
<1>. HIDE DEF v
<1>22. /\ u \in Trees /\ u.head = v.head
       /\ \A s \in Side, x \in Nodes : Kid(u, s, x) = Kid(v, s, x)
       /\ \A x \in Nodes : /\ u.parent[x] = v.parent[x]
                           /\ u.root[x] = v.root[x]
                           /\ u.h_diff[x] = v.h_diff[x]
    BY <1>15, <1>16, <1>17, <1>18, <1>19, <1>20, <1>21 DEF AdoptedTo, Kid
<1>23. u = v
    BY <1>21, <1>22, TreesEqual
<1>. QED BY <1>7, <1>23 DEF v, f

-------------------------------------------------------------------------------
(* Taking out a node that has two children *)

(* The successor of such a node.                                           *)
LEMMA SuccessorIs ==
    ASSUME NEW t, NEW below, WellFormed(t, below), NEW n \in below[t.head],
           \A s \in Side : Kid(t, s, n) # Nil
    PROVE  LET m == Successor(t, n)
               q == t.parent[m]
           IN /\ m \in Nodes /\ m \in below[t.head] /\ m # n
              /\ m \in below[Kid(t, Right, n)] /\ Kid(t, Left, m) = Nil
              /\ m \notin below[Kid(t, Left, n)]
              /\ IsLeftChild(t, n) <=> q # n
              /\ q \in Nodes
              /\ q # n => /\ q \in below[Kid(t, Right, n)] /\ q \in below[t.head]
                          /\ Kid(t, Left, q) = m /\ Kid(t, Right, q) # m
              /\ q = n => Kid(t, Right, n) = m
<1>. DEFINE r == Kid(t, Right, n)
            m == Successor(t, n)
            q == t.parent[m]
<1>. Left \in Side /\ Right \in Side /\ Opposite(Right) = Left /\ Opposite(Left) = Right
    BY DEF Side, Opposite, Left, Right
<1>1. /\ t \in Trees /\ t.head \in Pointer /\ n \in Nodes /\ Shape(t, below) /\ Linked(t)
    BY BelowNested DEF WellFormed, Trees
<1>2. r \in Nodes /\ r \in below[n] /\ t.parent[r] = n /\ r \in below[r]
    <2>1. r \in Nodes
        BY <1>1, KidType DEF Pointer
    <2>2. r \in below[r]
        BY <2>1, <1>1, ShapeAt
    <2>. HIDE DEF r
    <2>. QED BY <2>1, <2>2, <1>1, ShapeAt DEF Linked, r
<1>3. /\ m \in below[r] /\ m \in Nodes /\ Kid(t, Left, m) = Nil
      /\ \A a \in below[r] : m \in below[a] => m = a \/ m \in below[Kid(t, Left, a)]
    BY <1>1, <1>2, ExtremeBelow DEF Successor
<1>. HIDE DEF r, m
<1>4. /\ below[r] \subseteq below[n] /\ n \notin below[r] /\ below[r] \cap below[Kid(t, Left, n)] = {}
    BY <1>1, ShapeAt DEF r
<1>5. m \in below[n] /\ m # n /\ m \notin below[Kid(t, Left, n)]
    BY <1>3, <1>4
<1>6. m \in below[t.head]
    BY <1>1, <1>5, BelowNested
<1>7. CASE m = r
    BY <1>1, <1>2, <1>3, <1>4, <1>5, <1>6, <1>7 DEF IsLeftChild, m, r
<1>8. CASE m # r
    <2>1. /\ q \in below[r] /\ q \in Nodes /\ \E s \in Side : Kid(t, s, q) = m
        BY <1>1, <1>2, <1>3, <1>8, BelowParent, NilIsNoNode
    <2>2. q # n /\ q \in below[t.head]
        BY <2>1, <1>1, <1>4, BelowNested
    <2>3. m \in below[m]
        BY <1>1, <1>3, ShapeAt
    <2>4. m # q /\ m \in below[q]
        BY <2>1, <2>3, <1>1, ShapeAt
    <2>5. m \in below[Kid(t, Left, q)]
        BY <2>1, <2>4, <1>3
    <2>6. Kid(t, Right, q) # m
        BY <2>1, <2>3, <2>5, <1>1, ShapeAt
    <2>7. Kid(t, Left, q) = m
        BY <2>1, <2>6 DEF Side
    <2>. QED BY <2>1, <2>2, <2>6, <2>7, <1>3, <1>5, <1>6, <1>8 DEF IsLeftChild, m, r
<1>. QED BY <1>7, <1>8

(* m takes over what n points to, and its balance.                         *)
TakenTo(t, u, m, n, d, p, r) ==
    /\ u.h_diff[m] = d /\ u.parent[m] = p /\ (u.root[m] <=> r)
    /\ u \in Trees /\ u.head = t.head
    /\ \A s \in Side, x \in Nodes :
          Kid(u, s, x) = IF x = n THEN Nil ELSE IF x = m THEN Kid(t, s, n) ELSE Kid(t, s, x)
    /\ \A x \in Nodes : x # m =>
          /\ u.parent[x] = t.parent[x]
          /\ u.root[x] = t.root[x]
          /\ u.h_diff[x] = t.h_diff[x]

LEMMA TakenIs ==
    ASSUME NEW t \in Trees, NEW m \in Nodes, NEW n \in Nodes, m # n,
           NEW d \in Int, NEW p \in Pointer, NEW r \in BOOLEAN
    PROVE  TakenTo(t, Took(t, m, n, d, p, r), m, n, d, p, r)
<1>. DEFINE l == Kid(t, Left, n)
            k == Kid(t, Right, n)
            u == Took(t, m, n, d, p, r)
            a == [t EXCEPT !.kid[Left][m] = l]
            b == [a EXCEPT !.kid[Right][m] = k]
            e == [b EXCEPT !.kid[Left][n] = Nil]
            f == [e EXCEPT !.kid[Right][n] = Nil]
<1>. Left \in Side /\ Right \in Side /\ Left # Right /\ \A s \in Side : s = Left \/ s = Right
    BY DEF Side, Left, Right
<1>1. l \in Pointer /\ k \in Pointer /\ Nil \in Pointer
    BY KidType, NilIsNoNode
<1>2. \A s \in Side : Kid(t, s, n) = IF s = Left THEN l ELSE k
    OBVIOUS
<1>3. u = [f EXCEPT !.h_diff[m] = d, !.parent[m] = p, !.root[m] = r]
    BY DEF Trees, Took
<1>. HIDE DEF u, l, k
<1>4. /\ a \in Trees /\ a.parent = t.parent /\ a.root = t.root /\ a.h_diff = t.h_diff
      /\ a.head = t.head
      /\ \A s \in Side, x \in Nodes :
            Kid(a, s, x) = IF x = m /\ s = Left THEN l ELSE Kid(t, s, x)
    BY <1>1, KidSet
<1>. HIDE DEF a
<1>5. /\ b \in Trees /\ b.parent = t.parent /\ b.root = t.root /\ b.h_diff = t.h_diff
      /\ b.head = t.head
      /\ \A s \in Side, x \in Nodes :
            Kid(b, s, x) = IF x = m /\ s = Right THEN k ELSE Kid(a, s, x)
    BY <1>1, <1>4, KidSet
<1>. HIDE DEF b
<1>6. /\ e \in Trees /\ e.parent = t.parent /\ e.root = t.root /\ e.h_diff = t.h_diff
      /\ e.head = t.head
      /\ \A s \in Side, x \in Nodes :
            Kid(e, s, x) = IF x = n /\ s = Left THEN Nil ELSE Kid(b, s, x)
    BY <1>1, <1>5, KidSet
<1>. HIDE DEF e
<1>7. /\ f \in Trees /\ f.parent = t.parent /\ f.root = t.root /\ f.h_diff = t.h_diff
      /\ f.head = t.head
      /\ \A s \in Side, x \in Nodes :
            Kid(f, s, x) = IF x = n /\ s = Right THEN Nil ELSE Kid(e, s, x)
    BY <1>1, <1>6, KidSet
<1>. HIDE DEF f
<1>8. /\ u.kid = f.kid /\ u.head = f.head
      /\ u.parent = [f.parent EXCEPT ![m] = p]
      /\ u.root = [f.root EXCEPT ![m] = r]
      /\ u.h_diff = [f.h_diff EXCEPT ![m] = d]
      /\ u = [kid |-> u.kid, parent |-> u.parent, root |-> u.root, h_diff |-> u.h_diff,
              head |-> u.head]
    BY <1>3, <1>7 DEF Trees
<1>9. /\ f.kid \in [Side -> [Nodes -> Pointer]] /\ f.parent \in [Nodes -> Pointer]
      /\ f.root \in [Nodes -> BOOLEAN] /\ f.h_diff \in [Nodes -> Int] /\ f.head \in Pointer
    BY <1>7 DEF Trees
<1>10. u \in Trees
    <2>1. /\ u.kid \in [Side -> [Nodes -> Pointer]] /\ u.parent \in [Nodes -> Pointer]
          /\ u.root \in [Nodes -> BOOLEAN] /\ u.h_diff \in [Nodes -> Int] /\ u.head \in Pointer
        BY <1>8, <1>9
    <2>. QED BY <1>8, <2>1 DEF Trees
<1>11. u.h_diff[m] = d /\ u.parent[m] = p /\ u.root[m] = r
    BY <1>8, <1>9
<1>12. \A x \in Nodes : x # m => /\ u.parent[x] = t.parent[x]
                                 /\ u.root[x] = t.root[x]
                                 /\ u.h_diff[x] = t.h_diff[x]
    BY <1>7, <1>8, <1>9
<1>13. \A s \in Side, x \in Nodes : Kid(u, s, x) = Kid(f, s, x)
    BY <1>8 DEF Kid
<1>14. ASSUME NEW s \in Side, NEW x \in Nodes
       PROVE  Kid(u, s, x) = IF x = n THEN Nil ELSE IF x = m THEN Kid(t, s, n) ELSE Kid(t, s, x)
    BY <1>2, <1>4, <1>5, <1>6, <1>7, <1>13
<1>15. u.head = t.head
    BY <1>7, <1>8
<1>16. TakenTo(t, u, m, n, d, p, r)
    BY <1>10, <1>11, <1>12, <1>14, <1>15 DEF TakenTo
<1>. QED BY <1>16 DEF u

(* Replace() comes to an exchange of the node with its successor, which is *)
(* then taken out.                                                         *)
LEMMA ReplaceIs ==
    ASSUME NEW t, NEW below, WellFormed(t, below), NEW n \in below[t.head],
           \A s \in Side : Kid(t, s, n) # Nil
    PROVE  LET e == Relabelled(t, Swap(n, Successor(t, n)))
           IN RemovedTo(e, Fresh(Replace(t, n), n), n, Right) /\ Kid(e, Left, n) = Nil
<1>. DEFINE m == Successor(t, n)
            q == t.parent[m]
            k == Kid(t, Right, m)
            f == Swap(n, m)
            e == Relabelled(t, f)
            pm == parent_ptr(t, m)
            pn == parent_ptr(t, n)
            w == IF IsLeftChild(t, n) THEN q ELSE m
            cut == Put(t, Slot(pm.of, pm.side), k)
            led == SetParent(cut, k, w)
            taken == Took(led, m, n, t.h_diff[n], t.parent[n], t.root[n])
            hung == Adopt(taken, m)
            placed == Put(hung, Slot(pn.of, pn.side), m)
            u == Fresh(placed, n)
<1>. Left \in Side /\ Right \in Side /\ Left # Right /\ \A s \in Side : s = Left \/ s = Right
    BY DEF Side, Left, Right
<1>1. /\ t \in Trees /\ t.head \in Pointer /\ n \in Nodes /\ Shape(t, below) /\ Linked(t)
      /\ n \in Pointer /\ Nil \in Pointer
    BY BelowNested, NilIsNoNode DEF WellFormed, Trees
<1>2. /\ m \in Nodes /\ m \in below[t.head] /\ m # n
      /\ m \in below[Kid(t, Right, n)] /\ Kid(t, Left, m) = Nil
      /\ m \notin below[Kid(t, Left, n)]
      /\ IsLeftChild(t, n) <=> q # n
      /\ q \in Nodes
    BY SuccessorIs
<1>3. /\ pm.side \in Side /\ pm.of \in Pointer /\ pm = Slot(pm.of, pm.side) /\ pm.of = q
      /\ \A s \in Side, x \in Nodes : Kid(t, s, x) = m <=> x = q /\ s = pm.side
    BY <1>2, ParentSlot
<1>4. /\ pn.side \in Side /\ pn.of \in Pointer /\ pn = Slot(pn.of, pn.side)
      /\ pn.of = t.parent[n] /\ (pn.of = Nil <=> n = t.head)
      /\ \A s \in Side, x \in Nodes : Kid(t, s, x) = n <=> x = pn.of /\ s = pn.side
    BY ParentSlot
<1>5. Fresh(Replace(t, n), n) = u
    <2>. DEFINE cut2 == Put(t, pm, k)
                taken2 == Took(SetParent(cut2, k, w), m, n, t.h_diff[n], t.parent[n], t.root[n])
    <2>1. Replace(t, n) = Put(Adopt(taken2, m), pn, m)
        BY DEF Replace
    <2>2. cut2 = cut
        BY <1>3
    <2>3. taken2 = taken
        BY <2>2
    <2>4. pn = Slot(pn.of, pn.side)
        BY <1>4
    <2>. HIDE DEF taken2, taken, m, pn
    <2>. QED BY <2>1, <2>3, <2>4
<1>6. /\ f \in [Pointer -> Pointer] /\ f[Nil] = Nil /\ f[n] = m /\ f[m] = n
      /\ \A x \in Pointer : f[f[x]] = x /\ (f[x] = Nil <=> x = Nil)
      /\ \A x \in Nodes : f[x] \in Nodes
      /\ \A x \in Pointer : x # n /\ x # m => f[x] = x
    BY <1>1, <1>2, SwapIs
<1>7. /\ e \in Trees /\ e.head = f[t.head]
      /\ \A s \in Side, x \in Nodes : Kid(e, s, x) = f[Kid(t, s, f[x])]
      /\ \A x \in Nodes :
            /\ e.parent[x] = f[t.parent[f[x]]]
            /\ e.root[x] = t.root[f[x]]
            /\ e.h_diff[x] = t.h_diff[f[x]]
    BY <1>1, <1>2, RelabelledIs
<1>8. /\ k \in Pointer /\ w \in Pointer /\ t.parent[n] \in Pointer /\ t.root[n] \in BOOLEAN
      /\ t.h_diff[n] \in Int
    BY <1>1, <1>2, KidType, NilIsNoNode DEF Trees
<1>9. w = IF q = n THEN m ELSE q
    BY <1>2
<1>10. PutTo(t, cut, pm.of, pm.side, k)
    <2>. HIDE DEF m, pm, k
    <2>. QED BY <1>1, <1>3, <1>8, PutIs
<1>. HIDE DEF cut, w
<1>11. ParentSetTo(cut, led, k, w)
    <2>. HIDE DEF k
    <2>1. cut \in Trees
        BY <1>10 DEF PutTo
    <2>. QED BY <2>1, <1>8, SetParentIs
<1>. HIDE DEF led, m, q, k, f, e
<1>12. TakenTo(led, taken, m, n, t.h_diff[n], t.parent[n], t.root[n])
    <2>1. led \in Trees
        BY <1>11 DEF ParentSetTo
    <2>. QED BY <2>1, <1>1, <1>2, <1>8, TakenIs
<1>. HIDE DEF taken
<1>13. AdoptedTo(taken, hung, m)
    BY <1>2, <1>12, AdoptIs DEF TakenTo
<1>. HIDE DEF hung
<1>14. PutTo(hung, placed, pn.of, pn.side, m)
    <2>1. hung \in Trees /\ m \in Pointer
        BY <1>2, <1>13, NilIsNoNode DEF AdoptedTo
    <2>. HIDE DEF pn
    <2>. QED BY <2>1, <1>4, PutIs
<1>. HIDE DEF placed
<1>15. ClearedTo(placed, u, n)
    <2>1. placed \in Trees
        BY <1>14 DEF PutTo
    <2>. QED BY <2>1, <1>1, FreshIs
<1>. HIDE DEF u, pm, pn
<1>. DEFINE pp == t.parent[n]
<1>16. /\ k # n /\ k # m /\ pp # n /\ pp # m /\ q # m /\ n # Nil /\ m # Nil /\ q # Nil
       /\ t.head # m /\ \A s \in Side : Kid(t, s, n) # n /\ Kid(t, s, m) # n
    <2>1. n \notin below[m]
        <3>1. Kid(t, Right, n) \in Pointer
            BY <1>1, KidType
        <3>2. below[m] \subseteq below[Kid(t, Right, n)]
            BY <3>1, <1>1, <1>2, BelowNested
        <3>. QED BY <3>2, <1>1, ShapeAt
    <2>2. \A s \in Side : Kid(t, s, m) # n /\ Kid(t, s, m) # m /\ Kid(t, s, n) # n
        BY <2>1, <1>1, <1>2, ShapeAt
    <2>3. q # m /\ pp # m /\ pp # n
        BY <2>2, <1>1, <1>2, <1>3, <1>4
    <2>4. t.head # m
        BY <1>1, <1>2, NilIsNoNode DEF Linked, q
    <2>. QED BY <2>2, <2>3, <2>4, <1>1, <1>2, NilIsNoNode DEF k
<1>. DEFINE Kc(s, x) == IF x = q /\ s = pm.side THEN k ELSE Kid(t, s, x)
<1>17. \A s \in Side, x \in Nodes :
          Kid(taken, s, x) = IF x = n THEN Nil ELSE IF x = m THEN Kc(s, n) ELSE Kc(s, x)
    BY <1>1, <1>3, <1>10, <1>11, <1>12 DEF PutTo, ParentSetTo, TakenTo, Kid
<1>18. \A s \in Side, x \in Nodes :
          Kid(u, s, x) = IF x = n THEN Nil ELSE IF x = pp /\ s = pn.side THEN m
                         ELSE IF x = m THEN Kc(s, n) ELSE Kc(s, x)
    BY <1>4, <1>13, <1>14, <1>15, <1>17 DEF PutTo, AdoptedTo, ClearedTo, Kid
<1>19. f[k] = k /\ Kid(e, Right, n) = k /\ Kid(e, Left, n) = Nil
    <2>1. f[k] = k
        BY <1>6, <1>8, <1>16
    <2>2. Kid(e, Right, n) = f[Kid(t, Right, f[n])] /\ Kid(e, Left, n) = f[Kid(t, Left, f[n])]
        BY <1>1, <1>7
    <2>. QED BY <2>1, <2>2, <1>2, <1>6 DEF k
<1>20. ASSUME NEW r \in Side, NEW x \in Nodes
       PROVE  Kid(u, r, x) = IF x = n THEN Nil ELSE IF Kid(e, r, x) = n THEN k ELSE Kid(e, r, x)
    <2>1. CASE x = n
        BY <2>1, <1>18
    <2>2. CASE x = m
        <3>1. Kid(u, r, x) = Kc(r, n)
            BY <2>2, <1>2, <1>16, <1>18
        <3>2. Kid(e, r, x) = f[Kid(t, r, n)] /\ Kid(t, r, n) \in Pointer
            BY <2>2, <1>1, <1>2, <1>6, <1>7, KidType
        <3>3. Kid(t, r, n) = m <=> n = q /\ r = pm.side
            BY <1>1, <1>3
        <3>. QED BY <3>1, <3>2, <3>3, <2>2, <1>2, <1>6, <1>16
    <2>3. CASE x # n /\ x # m
        <3>1. Kid(u, r, x) = IF x = pp /\ r = pn.side THEN m ELSE Kc(r, x)
            BY <2>3, <1>18
        <3>2. Kid(e, r, x) = f[Kid(t, r, x)] /\ Kid(t, r, x) \in Pointer
            <4>1. f[x] = x
                BY <2>3, <1>6, NilIsNoNode
            <4>. QED BY <4>1, <1>1, <1>7, KidType
        <3>3. /\ Kid(t, r, x) = m <=> x = q /\ r = pm.side
              /\ Kid(t, r, x) = n <=> x = pp /\ r = pn.side
            BY <1>3, <1>4
        <3>. QED BY <3>1, <3>2, <3>3, <2>3, <1>2, <1>6
    <2>. QED BY <2>1, <2>2, <2>3
<1>21. u.head = IF n = e.head THEN k ELSE e.head
    <2>1. u.head = IF pp = Nil THEN m ELSE t.head
        BY <1>4, <1>10, <1>11, <1>12, <1>13, <1>14, <1>15, <1>3, <1>16
           DEF PutTo, ParentSetTo, TakenTo, AdoptedTo, ClearedTo
    <2>2. e.head = IF n = t.head THEN m ELSE t.head
        BY <1>1, <1>6, <1>7, <1>16
    <2>. QED BY <2>1, <2>2, <1>2, <1>4
<1>22. \A x \in Nodes : /\ u.root[x] <=> IF x = n THEN FALSE ELSE IF x = m THEN t.root[n] ELSE t.root[x]
                        /\ u.h_diff[x] = IF x = n THEN 0 ELSE IF x = m THEN t.h_diff[n] ELSE t.h_diff[x]
    BY <1>10, <1>11, <1>12, <1>13, <1>14, <1>15
       DEF PutTo, ParentSetTo, TakenTo, AdoptedTo, ClearedTo
<1>23. ASSUME NEW x \in Nodes
       PROVE  /\ u.root[x] <=> IF x = n THEN FALSE ELSE IF x = k THEN e.root[n] ELSE e.root[x]
              /\ u.h_diff[x] = IF x = n THEN 0 ELSE e.h_diff[x]
    <2>1. /\ x # n /\ x # m => e.root[x] = t.root[x] /\ e.h_diff[x] = t.h_diff[x]
          /\ e.root[m] = t.root[n] /\ e.h_diff[m] = t.h_diff[n] /\ e.root[n] = t.root[m]
        BY <1>1, <1>2, <1>6, <1>7, NilIsNoNode
    <2>2. x = k => t.parent[x] = m
        BY <1>1, <1>2, NilIsNoNode DEF Linked, k
    <2>3. x = k => ~t.root[x]
        BY <2>2, <1>1, <1>16, NilIsNoNode DEF Linked
    <2>4. ~t.root[m]
        BY <1>1, <1>2, <1>16 DEF Linked
    <2>. QED BY <2>1, <2>3, <2>4, <1>16, <1>22
<1>24. ASSUME NEW x \in Nodes
       PROVE  u.parent[x] = IF x = n THEN Nil ELSE IF x = k THEN e.parent[n] ELSE e.parent[x]
    <2>1. u.parent[x] = IF x = n THEN Nil ELSE IF \E s \in Side : Kid(taken, s, m) = x THEN m
                        ELSE IF x = m THEN pp ELSE IF x = k THEN w ELSE t.parent[x]
        BY <1>10, <1>11, <1>12, <1>13, <1>14, <1>15
           DEF PutTo, ParentSetTo, TakenTo, AdoptedTo, ClearedTo
    <2>2. \A s \in Side : Kid(taken, s, m) = Kc(s, n)
        BY <1>2, <1>17
    <2>3. e.parent[n] = w
        <3>1. e.parent[n] = f[q]
            BY <1>1, <1>6, <1>7 DEF q
        <3>. QED BY <3>1, <1>2, <1>6, <1>9, <1>16, NilIsNoNode
    <2>4. CASE x = n
        BY <2>1, <2>4
    <2>5. CASE x = m
        <3>1. \A s \in Side : Kc(s, n) # m
            BY <1>1, <1>3, <1>16
        <3>2. u.parent[x] = pp
            BY <3>1, <2>1, <2>2, <2>5, <1>2
        <3>3. e.parent[x] = f[pp]
            BY <2>5, <1>2, <1>6, <1>7
        <3>4. f[pp] = pp
            BY <1>6, <1>8, <1>16
        <3>. QED BY <3>2, <3>3, <3>4, <2>5, <1>2, <1>16
    <2>6. CASE x # n /\ x # m /\ x = k
        <3>1. t.parent[x] = m
            BY <2>6, <1>1, <1>2, NilIsNoNode DEF Linked, k
        <3>2. \A s \in Side : Kid(t, s, n) # x
            BY <3>1, <1>1, <1>2, NilIsNoNode DEF Linked
        <3>3. (\E s \in Side : Kc(s, n) = x) <=> q = n
            BY <3>2, <2>6, <1>3
        <3>. QED BY <3>3, <2>1, <2>2, <2>3, <2>6, <1>9
    <2>7. CASE x # n /\ x # m /\ x # k
        <3>1. (\E s \in Side : Kc(s, n) = x) <=> (\E s \in Side : Kid(t, s, n) = x)
            BY <2>7, <1>1, <1>3
        <3>2. (\E s \in Side : Kid(t, s, n) = x) <=> t.parent[x] = n
            BY <1>1, NilIsNoNode DEF Linked
        <3>3. t.parent[x] # m
            <4>1. ASSUME t.parent[x] = m PROVE FALSE
                <5>1. PICK s \in Side : Kid(t, s, m) = x
                    BY <4>1, <1>1, <1>16 DEF Linked
                <5>. QED BY <5>1, <2>7, <1>2, NilIsNoNode DEF k
            <4>. QED BY <4>1
        <3>4. e.parent[x] = f[t.parent[x]] /\ t.parent[x] \in Pointer
            <4>1. f[x] = x
                BY <2>7, <1>6, NilIsNoNode
            <4>. QED BY <4>1, <1>1, <1>7 DEF Trees
        <3>. QED BY <3>1, <3>2, <3>3, <3>4, <2>1, <2>2, <2>7, <1>6
    <2>. QED BY <2>4, <2>5, <2>6, <2>7
<1>25. u \in Trees
    BY <1>15 DEF ClearedTo
<1>26. RemovedTo(e, u, n, Right)
    BY <1>19, <1>20, <1>21, <1>23, <1>24, <1>25 DEF RemovedTo
<1>. QED BY <1>5, <1>19, <1>26 DEF e, f, m

(* The leftmost node has the least key.                                    *)
LEMMA ExtremeLeast ==
    ASSUME NEW t \in Trees, NEW below, Shape(t, below), NEW keys \in [Nodes -> Int],
           Ordered(t, below, keys), NEW n \in Nodes, NEW x \in below[n]
    PROVE  keys[Extreme(t, Left, n)] <= keys[x]
<1>. DEFINE E(m) == Extreme(t, Left, m)
            S == {m \in Pointer : m # Nil => \A y \in below[m] : keys[E(m)] <= keys[y]}
<1>. Left \in Side /\ Opposite(Left) = Right
    BY DEF Side, Opposite
<1>1. Nil \in S
    BY NilIsNoNode
<1>2. ASSUME NEW m \in Nodes, \A s \in Side : Kid(t, s, m) \in S PROVE m \in S
    <2>. DEFINE l == Kid(t, Left, m)
                r == Kid(t, Right, m)
    <2>1. /\ l \in Pointer /\ below[m] = {m} \cup below[l] \cup below[r]
          /\ below[m] \in SUBSET Nodes /\ E(m) = IF l = Nil THEN m ELSE E(l)
          /\ below[Nil] = {}
        BY <1>2, ShapeAt, ExtremeIs DEF Shape
    <2>2. /\ \A y \in below[l] : keys[y] <= keys[m]
          /\ \A y \in below[r] : keys[m] <= keys[y]
        BY <1>2 DEF Ordered
    <2>3. ASSUME l # Nil PROVE E(l) \in below[l] /\ \A y \in below[l] : keys[E(l)] <= keys[y]
        <3>1. l \in Nodes /\ l \in S
            BY <2>1, <2>3, <1>2 DEF Pointer
        <3>2. E(l) \in below[l]
            <4>. HIDE DEF l
            <4>. QED BY <3>1, ExtremeBelow
        <3>. QED BY <3>1, <3>2, <2>3
    <2>. HIDE DEF l, r, E
    <2>4. ASSUME NEW y \in below[m] PROVE keys[E(m)] <= keys[y]
        <3>1. y \in Nodes
            BY <2>1, <2>4
        <3>2. CASE l = Nil
            <4>1. y = m \/ y \in below[r]
                BY <3>2, <2>1, <2>4
            <4>2. keys[m] <= keys[y]
                BY <4>1, <3>1, <2>2
            <4>. QED BY <4>2, <3>2, <2>1
        <3>3. CASE l # Nil
            <4>1. keys[E(l)] <= keys[m] /\ E(l) \in Nodes
                BY <3>3, <2>1, <2>2, <2>3
            <4>2. y = m \/ y \in below[l] \/ y \in below[r]
                BY <2>1, <2>4
            <4>3. keys[m] \in Int /\ keys[y] \in Int /\ keys[E(l)] \in Int
                BY <3>1, <4>1
            <4>4. CASE y \in below[r]
                <5>1. keys[m] <= keys[y]
                    BY <4>4, <2>2
                <5>2. keys[E(l)] <= keys[y]
                    BY <5>1, <4>1, <4>3
                <5>. QED BY <5>2, <3>3, <2>1
            <4>. QED BY <4>1, <4>2, <4>4, <3>3, <2>1, <2>3
        <3>. QED BY <3>2, <3>3
    <2>. QED BY <2>4, NilIsNoNode
<1>. HIDE DEF S
<1>3. Pointer \subseteq S
    BY <1>1, <1>2, TreeInduction
<1>4. n \in S
    BY <1>3, NilIsNoNode
<1>. QED BY <1>4, NilIsNoNode DEF S

LEMMA ReplaceShape ==
    ASSUME NEW t, NEW below, WellFormed(t, below), NEW n \in below[t.head],
           \A s \in Side : Kid(t, s, n) # Nil
    PROVE  LET u == Fresh(Replace(t, n), n)
               down == Without(BelowSwapped(below, Swap(n, Successor(t, n))), n)
           IN /\ WellFormed(u, down) /\ down[u.head] = below[t.head] \ {n}
              /\ \A keys \in [Nodes -> Int] :
                    Ordered(t, below, keys) => Ordered(u, down, keys)
<1>. DEFINE m == Successor(t, n)
            f == Swap(n, m)
            e == Relabelled(t, f)
            mid == BelowSwapped(below, f)
            down == Without(mid, n)
            u == Fresh(Replace(t, n), n)
<1>. Left \in Side /\ Right \in Side /\ Opposite(Right) = Left
    BY DEF Side, Opposite, Left, Right
<1>1. /\ t \in Trees /\ t.head \in Pointer /\ n \in Nodes /\ n \in Pointer /\ Shape(t, below)
    BY BelowNested, NilIsNoNode DEF WellFormed, Trees
<1>2. /\ m \in Nodes /\ m \in below[t.head] /\ m # n
      /\ m \in below[Kid(t, Right, n)] /\ m \notin below[Kid(t, Left, n)]
    BY SuccessorIs
<1>3. RemovedTo(e, u, n, Right) /\ Kid(e, Left, n) = Nil
    BY ReplaceIs
<1>4. /\ f[n] = m /\ f[m] = n /\ \A x \in Pointer : x # n /\ x # m => f[x] = x
    BY <1>1, <1>2, SwapIs
<1>. DEFINE r == Kid(t, Right, n)
<1>5. r \in Nodes /\ m = Extreme(t, Left, r)
    BY <1>1, KidType DEF Pointer, Successor
<1>. HIDE DEF m, f, r
<1>6. /\ WellFormed(e, mid) /\ mid[e.head] = below[t.head]
      /\ \A x \in Nodes, s \in Side :
            mid[Kid(e, s, x)] = {y \in Nodes : f[y] \in below[Kid(t, s, f[x])]}
    BY <1>1, <1>2, RelabelledShape DEF f
<1>. HIDE DEF e, mid, u
<1>7. /\ WellFormed(u, down) /\ down[u.head] = mid[e.head] \ {n}
      /\ \A x \in Nodes, s \in Side :
            x # n => down[Kid(u, s, x)] = mid[Kid(e, s, x)] \ {n}
    BY <1>3, <1>6, RemovedShape
<1>8. \A s \in Side : down[Kid(u, s, n)] = {}
    <2>1. \A s \in Side : Kid(u, s, n) = Nil
        BY <1>1, <1>3 DEF RemovedTo
    <2>. QED BY <2>1, <1>7 DEF WellFormed, Shape
<1>. HIDE DEF down
<1>9. ASSUME NEW keys \in [Nodes -> Int], Ordered(t, below, keys) PROVE Ordered(u, down, keys)
    <2>1. \A y \in below[Kid(t, Left, n)] : y \in Nodes /\ keys[y] <= keys[m]
        <3>1. ASSUME NEW y \in below[Kid(t, Left, n)] PROVE y \in Nodes /\ keys[y] <= keys[m]
            <4>1. y \in Nodes /\ keys[y] <= keys[n] /\ keys[n] <= keys[m]
                BY <3>1, <1>1, <1>2, <1>9, ShapeAt DEF Ordered
            <4>2. keys[y] \in Int /\ keys[n] \in Int /\ keys[m] \in Int
                BY <4>1, <1>1, <1>2
            <4>. QED BY <4>1, <4>2
        <3>. QED BY <3>1
    <2>2. \A y \in below[r] : keys[m] <= keys[y]
        BY <1>1, <1>5, <1>9, ExtremeLeast
    <2>3. ASSUME NEW x \in Nodes, NEW s \in Side, NEW y \in down[Kid(u, s, x)]
          PROVE  /\ s = Left => keys[y] <= keys[x]
                 /\ s = Right => keys[x] <= keys[y]
        <3>1. x # n
            BY <2>3, <1>8
        <3>2. y \in Nodes /\ f[y] \in below[Kid(t, s, f[x])] /\ y # n
            BY <2>3, <3>1, <1>6, <1>7
        <3>3. s = Left \/ s = Right
            BY DEF Side
        <3>4. CASE x = m
            <4>1. f[y] \in below[Kid(t, s, n)]
                BY <3>2, <3>4, <1>4
            <4>2. y # m
                BY <4>1, <1>1, <1>4, ShapeAt
            <4>3. y \in below[Kid(t, s, n)]
                BY <4>1, <4>2, <3>2, <1>4, NilIsNoNode
            <4>. QED BY <4>3, <3>3, <3>4, <2>1, <2>2 DEF r
        <3>5. CASE x # m
            <4>1. f[y] \in below[Kid(t, s, x)]
                BY <3>1, <3>2, <3>5, <1>4, NilIsNoNode
            <4>2. y \in below[Kid(t, s, x)]
                <5>1. CASE y = m
                    <6>1. n \in below[Kid(t, s, x)] /\ Kid(t, s, x) \in Pointer
                        BY <5>1, <4>1, <1>1, <1>4, KidType
                    <6>2. m \in below[n]
                        BY <1>1, <1>2, ShapeAt
                    <6>. QED BY <5>1, <6>1, <6>2, <1>1, BelowNested
                <5>2. CASE y # m
                    BY <5>2, <4>1, <3>2, <1>4, NilIsNoNode
                <5>. QED BY <5>1, <5>2
            <4>. QED BY <4>2, <3>3, <1>9 DEF Ordered
        <3>. QED BY <3>4, <3>5
    <2>. QED BY <2>3 DEF Ordered, Left, Right
<1>. QED BY <1>6, <1>7, <1>9 DEF down, mid, e, f, m, u

-------------------------------------------------------------------------------
(* Adding a node where there is none *)

(* u is t with n at the child pointer of m on side s, or at Root::ptr.     *)
AddedTo(t, u, n, m, s) ==
    /\ u \in Trees /\ u.head = IF m = Nil THEN n ELSE t.head
    /\ \A r \in Side, x \in Nodes :
          Kid(u, r, x) = IF x = m /\ r = s THEN n ELSE Kid(t, r, x)
    /\ \A x \in Nodes :
          /\ u.parent[x] = IF x = n THEN m ELSE t.parent[x]
          /\ u.root[x] <=> IF x = n THEN m = Nil ELSE t.root[x]
          /\ u.h_diff[x] = t.h_diff[x]

With(below, n, m) == [x \in Pointer |-> IF m \in below[x] THEN below[x] \cup {n} ELSE below[x]]

(* What meets the tree is in it.                                           *)
LEMMA InTree ==
    ASSUME NEW t, NEW below, WellFormed(t, below), NEW x \in Nodes, NEW y \in below[t.head],
           y \in below[x]
    PROVE  x \in below[t.head]
<1>1. t \in Trees /\ t.head \in Pointer /\ Shape(t, below) /\ Linked(t)
    BY DEF WellFormed, Trees
<1>2. t.head \in Nodes
    BY <1>1 DEF Shape, Pointer
<1>3. x \in below[t.head] \/ t.head \in below[x]
    BY <1>1, <1>2, BelowLaminar
<1>4. CASE t.head \in below[x]
    <2>1. t.parent[t.head] = Nil
        BY <1>1, <1>2, NilIsNoNode DEF Linked
    <2>2. x \in Pointer
        BY NilIsNoNode
    <2>3. t.head = x
        BY <2>1, <2>2, <1>1, <1>4, BelowParent, NilIsNoNode
    <2>. QED BY <2>3, <1>1, ShapeAt DEF Side
<1>. QED BY <1>3, <1>4

(* A node outside it is alone.                                             *)
LEMMA OutOfTree ==
    ASSUME NEW t, NEW below, WellFormed(t, below), NEW n \in Nodes \ below[t.head]
    PROVE  /\ below[n] = {n} /\ n # t.head /\ ~t.root[n] /\ t.parent[n] = Nil
           /\ t.h_diff[n] = 0 /\ \A s \in Side : Kid(t, s, n) = Nil
           /\ \A x \in Pointer : n \in below[x] => x = n
           /\ \A s \in Side, x \in Nodes : Kid(t, s, x) # n
<1>1. t \in Trees /\ t.head \in Pointer /\ Shape(t, below) /\ Linked(t) /\ Apart(t, below)
    BY DEF WellFormed, Trees
<1>2. t.parent[n] = Nil /\ t.h_diff[n] = 0 /\ \A s \in Side : Kid(t, s, n) = Nil
    BY <1>1 DEF Apart
<1>3. below[n] = {n}
    <2>1. Left \in Side /\ Opposite(Left) \in Side
        BY DEF Side, Opposite
    <2>2. Kid(t, Left, n) = Nil /\ Kid(t, Opposite(Left), n) = Nil /\ below[Nil] = {}
        BY <2>1, <1>1, <1>2 DEF Shape
    <2>3. below[n] = {n} \cup below[Kid(t, Left, n)] \cup below[Kid(t, Opposite(Left), n)]
        BY <2>1, <1>1, ShapeAt
    <2>. QED BY <2>2, <2>3
<1>4. n # t.head
    BY <1>1, <1>3
<1>5. ASSUME NEW x \in Pointer, n \in below[x] PROVE x = n
    BY <1>1, <1>2, <1>5, BelowParent, NilIsNoNode
<1>6. \A s \in Side, x \in Nodes : Kid(t, s, x) # n
    BY <1>1, <1>2, NilIsNoNode DEF Linked
<1>7. ~t.root[n]
    BY <1>1, <1>4 DEF Linked
<1>. QED BY <1>2, <1>3, <1>4, <1>5, <1>6, <1>7

LEMMA AddedShape ==
    ASSUME NEW t, NEW below, WellFormed(t, below), NEW n \in Nodes \ below[t.head],
           NEW m \in Pointer, NEW s \in Side,
           m = Nil => t.head = Nil,
           m # Nil => m \in below[t.head] /\ Kid(t, s, m) = Nil,
           NEW u, AddedTo(t, u, n, m, s)
    PROVE  LET down == With(below, n, m)
           IN /\ WellFormed(u, down) /\ down[u.head] = below[t.head] \cup {n}
              /\ down[n] = {n}
<1>. DEFINE down == With(below, n, m)
<1>1. t \in Trees /\ t.head \in Pointer /\ Shape(t, below) /\ Linked(t) /\ Apart(t, below)
    BY DEF WellFormed, Trees
<1>2. /\ below \in [Pointer -> SUBSET Nodes] /\ below[Nil] = {}
      /\ \A x \in Nodes : IsFiniteSet(below[x])
    BY <1>1 DEF Shape
<1>3. /\ below[n] = {n} /\ n # t.head /\ ~t.root[n] /\ t.parent[n] = Nil
      /\ t.h_diff[n] = 0 /\ \A r \in Side : Kid(t, r, n) = Nil
      /\ \A x \in Pointer : n \in below[x] => x = n
      /\ \A r \in Side, x \in Nodes : Kid(t, r, x) # n
    BY OutOfTree
<1>4. /\ u \in Trees /\ u.head = IF m = Nil THEN n ELSE t.head
      /\ \A r \in Side, x \in Nodes :
            Kid(u, r, x) = IF x = m /\ r = s THEN n ELSE Kid(t, r, x)
      /\ \A x \in Nodes :
            /\ u.parent[x] = IF x = n THEN m ELSE t.parent[x]
            /\ u.root[x] <=> IF x = n THEN m = Nil ELSE t.root[x]
            /\ u.h_diff[x] = t.h_diff[x]
    BY DEF AddedTo
<1>5. /\ m # n /\ n \in Pointer /\ n # Nil /\ (m # Nil => m \in Nodes /\ m \in below[m])
      /\ \A x \in Pointer : m \in below[x] => m \in Nodes /\ m # Nil
    <2>1. m # n /\ n \in Pointer /\ n # Nil
        BY <1>3, NilIsNoNode
    <2>2. m # Nil => m \in Nodes
        BY DEF Pointer
    <2>3. m # Nil => m \in below[m]
        BY <2>2, <1>1, ShapeAt
    <2>4. \A x \in Pointer : m \in below[x] => m \in Nodes
        BY <1>2
    <2>. QED BY <2>1, <2>2, <2>3, <2>4, NilIsNoNode
<1>6. /\ down \in [Pointer -> SUBSET Nodes]
      /\ \A x \in Pointer : down[x] = IF m \in below[x] THEN below[x] \cup {n} ELSE below[x]
    <2>1. \A x \in Pointer : down[x] = IF m \in below[x] THEN below[x] \cup {n} ELSE below[x]
        BY DEF With
    <2>2. \A x \in Pointer : (IF m \in below[x] THEN below[x] \cup {n} ELSE below[x]) \in SUBSET Nodes
        BY <1>2
    <2>. QED BY <2>1, <2>2 DEF With
<1>. HIDE DEF down
<1>7. down[n] = {n} /\ down[Nil] = {} /\ down[u.head] = below[t.head] \cup {n}
    <2>1. down[n] = {n}
        BY <1>3, <1>5, <1>6
    <2>2. down[Nil] = {}
        BY <1>2, <1>6, NilIsNoNode
    <2>3. m # Nil => down[t.head] = below[t.head] \cup {n}
        BY <1>1, <1>6
    <2>. QED BY <2>1, <2>2, <2>3, <1>2, <1>4
<1>8. Shape(u, down)
    <2>1. ASSUME NEW x \in Nodes PROVE IsFiniteSet(down[x])
        <3>1. IsFiniteSet(below[x] \cup {n})
            BY <1>2, FS_AddElement
        <3>2. down[x] \in SUBSET (below[x] \cup {n})
            BY <1>6, NilIsNoNode
        <3>. QED BY <3>1, <3>2, FS_Subset
    <2>2. ASSUME NEW x \in Nodes, NEW r \in Side
          PROVE  /\ down[x] = {x} \cup down[Kid(u, r, x)] \cup down[Kid(u, Opposite(r), x)]
                 /\ x \notin down[Kid(u, r, x)]
                 /\ down[Kid(u, r, x)] \cap down[Kid(u, Opposite(r), x)] = {}
        <3>. DEFINE k == Kid(t, r, x)
                    j == Kid(t, Opposite(r), x)
        <3>1. /\ k \in Pointer /\ j \in Pointer /\ x \in Pointer
              /\ below[x] = {x} \cup below[k] \cup below[j]
              /\ x \notin below[k] /\ x \notin below[j] /\ below[k] \cap below[j] = {}
            BY <1>1, ShapeAt, NilIsNoNode
        <3>2. k # n /\ j # n /\ n \notin below[k] /\ n \notin below[j]
            BY <3>1, <1>3, Sides
        <3>3. /\ Kid(u, r, x) = IF x = m /\ r = s THEN n ELSE k
              /\ Kid(u, Opposite(r), x) = IF x = m /\ Opposite(r) = s THEN n ELSE j
            BY <1>4, Sides
        <3>4. /\ x = m /\ r = s => k = Nil
              /\ x = m /\ Opposite(r) = s => j = Nil
            BY <1>5, NilIsNoNode
        <3>. HIDE DEF k, j
        <3>5. CASE x = m
            <4>1. r = s \/ Opposite(r) = s
                BY Sides
            <4>2. down[x] = below[x] \cup {n} /\ down[k] = below[k] /\ down[j] = below[j]
                BY <3>1, <3>5, <1>6
            <4>3. Opposite(r) # r
                BY Sides
            <4>. QED BY <4>1, <4>2, <4>3, <3>1, <3>2, <3>3, <3>4, <3>5, <1>2, <1>5, <1>7
        <3>6. CASE x # m
            <4>1. Kid(u, r, x) = k /\ Kid(u, Opposite(r), x) = j
                BY <3>3, <3>6
            <4>2. x = n => below[k] = {} /\ below[j] = {} /\ m \notin below[x]
                BY <3>1, <1>3, <1>5
            <4>. QED BY <4>1, <4>2, <3>1, <3>2, <3>6, <1>6
        <3>. QED BY <3>5, <3>6
    <2>. QED BY <2>1, <2>2, <1>6, <1>7 DEF Shape
<1>9. Linked(u)
    <2>1. u.head # Nil => u.parent[u.head] = Nil
        <3>1. CASE m = Nil
            BY <3>1, <1>4
        <3>2. CASE m # Nil
            BY <3>2, <1>1, <1>3, <1>4, NilIsNoNode DEF Linked, Pointer
        <3>. QED BY <3>1, <3>2
    <2>2. ASSUME NEW x \in Nodes, NEW r \in Side, Kid(u, r, x) # Nil
          PROVE  u.parent[Kid(u, r, x)] = x
        <3>1. CASE x = m /\ r = s
            BY <3>1, <1>4
        <3>2. CASE ~(x = m /\ r = s)
            <4>1. Kid(u, r, x) = Kid(t, r, x) /\ Kid(t, r, x) \in Nodes
                BY <3>2, <2>2, <1>1, <1>4, KidType DEF Pointer
            <4>. QED BY <4>1, <1>1, <1>3, <1>4, NilIsNoNode DEF Linked
        <3>. QED BY <3>1, <3>2
    <2>3. ASSUME NEW x \in Nodes, u.parent[x] # Nil
          PROVE  \E r \in Side : Kid(u, r, u.parent[x]) = x
        <3>1. CASE x = n
            BY <3>1, <2>3, <1>4, <1>5
        <3>2. CASE x # n
            <4>1. u.parent[x] = t.parent[x] /\ t.parent[x] \in Nodes
                BY <3>2, <2>3, <1>1, <1>4 DEF Trees, Pointer
            <4>2. PICK r \in Side : Kid(t, r, t.parent[x]) = x
                BY <4>1, <1>1, NilIsNoNode DEF Linked
            <4>3. ~(t.parent[x] = m /\ r = s)
                BY <4>1, <4>2, NilIsNoNode
            <4>. QED BY <4>1, <4>2, <4>3, <1>4
        <3>. QED BY <3>1, <3>2
    <2>4. ASSUME NEW x \in Nodes PROVE u.root[x] <=> x = u.head
        BY <1>1, <1>3, <1>4, NilIsNoNode DEF Linked
    <2>. QED BY <2>1, <2>2, <2>3, <2>4 DEF Linked
<1>10. Apart(u, down)
    <2>1. ASSUME NEW x \in Nodes, x \notin down[u.head]
          PROVE  u.parent[x] = Nil /\ u.h_diff[x] = 0 /\ \A r \in Side : Kid(u, r, x) = Nil
        <3>1. x # n /\ x \notin below[t.head]
            BY <2>1, <1>7
        <3>2. x # m
            BY <3>1, NilIsNoNode
        <3>. QED BY <3>1, <3>2, <1>1, <1>4 DEF Apart
    <2>. QED BY <2>1 DEF Apart
<1>11. WellFormed(u, down)
    BY <1>4, <1>8, <1>9, <1>10 DEF WellFormed
<1>. QED BY <1>7, <1>11 DEF down

LEMMA AddedOrder ==
    ASSUME NEW t, NEW below, WellFormed(t, below), NEW n \in Nodes \ below[t.head],
           NEW m \in Pointer, NEW s \in Side,
           m = Nil => t.head = Nil,
           m # Nil => m \in below[t.head] /\ Kid(t, s, m) = Nil,
           NEW u, AddedTo(t, u, n, m, s),
           key \in [Nodes -> Int], Ordered(t, below, key),
           m # Nil => Allowed(t, below, t.head, key[n], m),
           m # Nil /\ s = Left => key[n] <= key[m],
           m # Nil /\ s = Right => key[m] <= key[n]
    PROVE  Ordered(u, With(below, n, m), key)
<1>. DEFINE down == With(below, n, m)
<1>. Left \in Side /\ Right \in Side
    BY DEF Side
<1>1. t \in Trees /\ t.head \in Pointer /\ Shape(t, below)
    BY DEF WellFormed, Trees
<1>2. down[n] = {n}
    BY AddedShape
<1>3. \A x \in Pointer : down[x] = IF m \in below[x] THEN below[x] \cup {n} ELSE below[x]
    BY DEF With
<1>. HIDE DEF down
<1>4. \A r \in Side, x \in Nodes :
            Kid(u, r, x) = IF x = m /\ r = s THEN n ELSE Kid(t, r, x)
    BY DEF AddedTo
<1>5. ASSUME NEW x \in Nodes, NEW r \in Side, NEW y \in down[Kid(u, r, x)]
      PROVE  /\ r = Left => key[y] <= key[x]
             /\ r = Right => key[x] <= key[y]
    <2>1. CASE x = m /\ r = s
        BY <2>1, <1>2, <1>4, <1>5, NilIsNoNode
    <2>2. CASE ~(x = m /\ r = s)
        <3>. DEFINE k == Kid(t, r, x)
        <3>1. k \in Pointer /\ Kid(u, r, x) = k
            BY <2>2, <1>1, <1>4, KidType
        <3>2. y \in below[k] \/ (y = n /\ m \in below[k])
            BY <3>1, <1>3, <1>5
        <3>3. CASE y \in below[k]
            BY <3>3 DEF Ordered
        <3>4. CASE y = n /\ m \in below[k]
            <4>1. m \in below[x] /\ m \in Nodes /\ m # Nil
                BY <3>1, <3>4, <1>1, ShapeAt, NilIsNoNode
            <4>2. x \in below[t.head]
                BY <4>1, InTree
            <4>. QED BY <3>4, <4>1, <4>2 DEF Allowed
        <3>. QED BY <3>2, <3>3, <3>4
    <2>. QED BY <2>1, <2>2
<1>6. Ordered(u, down, key)
    BY <1>5 DEF Ordered, Left, Right
<1>. QED BY <1>6 DEF down

LEMMA FreshApart ==
    ASSUME NEW t, NEW below, WellFormed(t, below), NEW n \in Nodes \ below[t.head]
    PROVE  Fresh(t, n) = t
<1>. DEFINE u == Fresh(t, n)
<1>1. t \in Trees
    BY DEF WellFormed
<1>2. ClearedTo(t, u, n)
    BY <1>1, FreshIs
<1>. HIDE DEF u
<1>3. /\ ~t.root[n] /\ t.parent[n] = Nil /\ t.h_diff[n] = 0
      /\ \A s \in Side : Kid(t, s, n) = Nil
    BY OutOfTree
<1>4. ASSUME NEW x \in Nodes PROVE u.root[x] = t.root[x]
    <2>1. u.root[x] \in BOOLEAN /\ t.root[x] \in BOOLEAN
        BY <1>1, <1>2 DEF Trees, ClearedTo
    <2>. QED BY <2>1, <1>2, <1>3 DEF ClearedTo
<1>5. u \in Trees /\ u.head = t.head
    BY <1>2 DEF ClearedTo
<1>6. \A s \in Side, x \in Nodes : Kid(u, s, x) = Kid(t, s, x)
    BY <1>2, <1>3 DEF ClearedTo
<1>7. \A x \in Nodes : u.parent[x] = t.parent[x] /\ u.h_diff[x] = t.h_diff[x]
    BY <1>2, <1>3 DEF ClearedTo
<1>8. u = t
    BY <1>1, <1>4, <1>5, <1>6, <1>7, TreesEqual
<1>. QED BY <1>8 DEF u

(* The first node of a tree.                                               *)
LEMMA FirstAdded ==
    ASSUME NEW t, NEW below, WellFormed(t, below), NEW n \in Nodes \ below[t.head],
           NEW u, u = [t EXCEPT !.head = n, !.root[n] = TRUE, !.parent[n] = Nil]
    PROVE  AddedTo(t, u, n, Nil, Left)
<1>1. /\ t.kid \in [Side -> [Nodes -> Pointer]] /\ t.parent \in [Nodes -> Pointer]
      /\ t.root \in [Nodes -> BOOLEAN] /\ t.h_diff \in [Nodes -> Int] /\ n \in Pointer
      /\ Nil \in Pointer
    BY NilIsNoNode DEF WellFormed, Trees
<1>2. /\ u.kid = t.kid /\ u.head = n /\ u.h_diff = t.h_diff
      /\ u.root = [t.root EXCEPT ![n] = TRUE]
      /\ u.parent = [t.parent EXCEPT ![n] = Nil]
      /\ u = [kid |-> u.kid, parent |-> u.parent, root |-> u.root, h_diff |-> u.h_diff,
              head |-> u.head]
    BY DEF WellFormed, Trees
<1>3. u.root \in [Nodes -> BOOLEAN] /\ u.parent \in [Nodes -> Pointer]
    BY <1>1, <1>2
<1>4. u \in Trees
    BY <1>1, <1>2, <1>3 DEF Trees
<1>5. \A s \in Side, x \in Nodes : Kid(u, s, x) = Kid(t, s, x)
    BY <1>2 DEF Kid
<1>6. \A x \in Nodes : /\ u.parent[x] = IF x = n THEN Nil ELSE t.parent[x]
                       /\ u.root[x] <=> IF x = n THEN TRUE ELSE t.root[x]
    BY <1>1, <1>2
<1>. QED BY <1>2, <1>4, <1>5, <1>6, NilIsNoNode DEF AddedTo

LEMMA NextAdded ==
    ASSUME NEW t, NEW below, WellFormed(t, below), NEW n \in Nodes, NEW m \in Nodes,
           NEW s \in Side
    PROVE  AddedTo(t, [Put(t, Slot(m, s), n) EXCEPT !.root[n] = FALSE, !.parent[n] = m], n, m, s)
<1>. DEFINE v == Put(t, Slot(m, s), n)
            u == [v EXCEPT !.root[n] = FALSE, !.parent[n] = m]
<1>1. m \in Pointer /\ n \in Pointer /\ t \in Trees
    BY NilIsNoNode DEF WellFormed
<1>2. PutTo(t, v, m, s, n)
    BY <1>1, PutIs
<1>3. u = [v EXCEPT !.root[n] = FALSE, !.parent[n] = m]
    OBVIOUS
<1>. HIDE DEF v, u
<1>4. /\ v.kid \in [Side -> [Nodes -> Pointer]] /\ v.parent \in [Nodes -> Pointer]
      /\ v.root \in [Nodes -> BOOLEAN] /\ v.h_diff \in [Nodes -> Int] /\ v.head \in Pointer
    BY <1>2 DEF PutTo, Trees
<1>5. /\ u.kid = v.kid /\ u.head = v.head /\ u.h_diff = v.h_diff
      /\ u.root = [v.root EXCEPT ![n] = FALSE]
      /\ u.parent = [v.parent EXCEPT ![n] = m]
      /\ u = [kid |-> u.kid, parent |-> u.parent, root |-> u.root, h_diff |-> u.h_diff,
              head |-> u.head]
    BY <1>2, <1>3 DEF PutTo, Trees
<1>6. u.root \in [Nodes -> BOOLEAN] /\ u.parent \in [Nodes -> Pointer]
    BY <1>1, <1>4, <1>5
<1>7. u \in Trees
    BY <1>4, <1>5, <1>6 DEF Trees
<1>8. \A r \in Side, x \in Nodes : Kid(u, r, x) = Kid(v, r, x)
    BY <1>5 DEF Kid
<1>9. \A x \in Nodes : /\ u.parent[x] = IF x = n THEN m ELSE v.parent[x]
                       /\ u.root[x] <=> IF x = n THEN FALSE ELSE v.root[x]
    BY <1>1, <1>4, <1>5
<1>10. AddedTo(t, u, n, m, s)
    BY <1>2, <1>5, <1>7, <1>8, <1>9, NilIsNoNode DEF AddedTo, PutTo
<1>. QED BY <1>10 DEF u, v

-------------------------------------------------------------------------------
(* Heights *)

Larger(a, b) == IF a > b THEN a ELSE b

Heights(h) == h \in [Pointer -> Nat] /\ h[Nil] = 0

(* The height and the balance of n, if the child on side s had height k.   *)
LevelWith(t, h, n, s, k) ==
    /\ h[n] = 1 + Larger(k, h[Kid(t, Opposite(s), n)])
    /\ Sign(s) * t.h_diff[n] = k - h[Kid(t, Opposite(s), n)]
    /\ t.h_diff[n] \in -1..1

Level(t, h, n) == LevelWith(t, h, n, Right, h[Kid(t, Right, n)])

(* every node but m *)
Levels(t, h, m) == \A n \in Nodes : n # m => Level(t, h, n)

(* What rebalance(s, rem) finds at n: its height is the one from before    *)
(* the side s grew, or the other one shrank.                               *)
Pending(t, h, n, s, rem) ==
    LET k == h[Kid(t, s, n)]
        o == h[Kid(t, Opposite(s), n)]
    IN /\ Sign(s) * t.h_diff[n] + 1 = k - o /\ t.h_diff[n] \in -1..1
       /\ h[n] = IF rem THEN 1 + Larger(k, o + 1) ELSE 1 + Larger(k - 1, o)

LEMMA LevelSide ==
    ASSUME NEW t \in Trees, NEW h, Heights(h), NEW n \in Nodes, NEW s \in Side
    PROVE  Level(t, h, n) <=> LevelWith(t, h, n, s, h[Kid(t, s, n)])
<1>1. /\ Opposite(Right) = Left /\ Opposite(Left) = Right /\ Left \in Side /\ Right \in Side
      /\ (s = Left \/ s = Right) /\ Sign(Left) = -1 /\ Sign(Right) = 1
    BY DEF Side, Opposite, Left, Right, Sign
<1>. DEFINE l == h[Kid(t, Left, n)]
            r == h[Kid(t, Right, n)]
<1>2. l \in Nat /\ r \in Nat /\ t.h_diff[n] \in Int /\ h[n] \in Nat
    BY <1>1, KidType, NilIsNoNode DEF Heights, Trees
<1>3. /\ LevelWith(t, h, n, Right, r) <=> /\ h[n] = 1 + Larger(r, l)
                                          /\ 1 * t.h_diff[n] = r - l /\ t.h_diff[n] \in -1..1
      /\ LevelWith(t, h, n, Left, l) <=> /\ h[n] = 1 + Larger(l, r)
                                         /\ (-1) * t.h_diff[n] = l - r /\ t.h_diff[n] \in -1..1
    BY <1>1 DEF LevelWith
<1>. HIDE DEF l, r
<1>4. Larger(r, l) = Larger(l, r)
    BY <1>2 DEF Larger
<1>5. 1 * t.h_diff[n] = r - l <=> (-1) * t.h_diff[n] = l - r
    BY <1>2
<1>6. LevelWith(t, h, n, Right, r) <=> LevelWith(t, h, n, Left, l)
    BY <1>3, <1>4, <1>5
<1>. QED BY <1>1, <1>6 DEF Level, l, r

(* Where the iteration above goes on.                                      *)
LEMMA NextPending ==
    ASSUME NEW t \in Trees, NEW h, Heights(h), NEW n \in Nodes, NEW s \in Side, NEW k \in Nat,
           LevelWith(t, h, n, s, k)
    PROVE  /\ h[Kid(t, s, n)] = k => Level(t, h, n)
           /\ h[Kid(t, s, n)] = k + 1 => Pending(t, h, n, s, FALSE)
           /\ h[Kid(t, s, n)] = k - 1 => Pending(t, h, n, Opposite(s), TRUE)
<1>. DEFINE g == h[Kid(t, s, n)]
            o == h[Kid(t, Opposite(s), n)]
            d == t.h_diff[n]
            e == Sign(s)
<1>1. /\ Opposite(s) \in Side /\ Opposite(Opposite(s)) = s /\ Sign(Opposite(s)) = -e
      /\ e \in {-1, 1}
    BY Sides
<1>2. g \in Nat /\ o \in Nat /\ d \in -1..1 /\ h[n] \in Nat
    BY <1>1, KidType, NilIsNoNode DEF Heights, LevelWith
<1>3. h[n] = 1 + Larger(k, o) /\ e * d = k - o
    BY DEF LevelWith
<1>. HIDE DEF g, o, d, e
<1>4. g = k => Level(t, h, n)
    BY LevelSide DEF g
<1>5. ASSUME g = k + 1 PROVE Pending(t, h, n, s, FALSE)
    <2>1. e * d + 1 = g - o
        BY <1>1, <1>2, <1>3, <1>5
    <2>2. h[n] = 1 + Larger(g - 1, o)
        BY <1>2, <1>3, <1>5
    <2>. QED BY <2>1, <2>2, <1>2 DEF Pending, g, o, d, e
<1>6. ASSUME g = k - 1 PROVE Pending(t, h, n, Opposite(s), TRUE)
    <2>1. (-e) * d + 1 = o - g
        BY <1>1, <1>2, <1>3, <1>6
    <2>2. h[n] = 1 + Larger(o, g + 1)
        BY <1>2, <1>3, <1>6 DEF Larger
    <2>. QED BY <2>1, <2>2, <1>1, <1>2 DEF Pending, g, o, d
<1>. QED BY <1>4, <1>5, <1>6 DEF g

(* Nodes that exchange their places exchange their heights.                *)
LEMMA RelabelledLevels ==
    ASSUME NEW t \in Trees, NEW h, Heights(h), Levels(t, h, Nil), NEW a \in Nodes, NEW b \in Nodes
    PROVE  LET f == Swap(a, b)
               g == [x \in Pointer |-> h[f[x]]]
           IN Heights(g) /\ Levels(Relabelled(t, f), g, Nil)
<1>. DEFINE f == Swap(a, b)
            g == [x \in Pointer |-> h[f[x]]]
            u == Relabelled(t, f)
<1>1. /\ f \in [Pointer -> Pointer] /\ f[Nil] = Nil
      /\ \A x \in Pointer : f[f[x]] = x /\ (f[x] = Nil <=> x = Nil)
      /\ \A x \in Nodes : f[x] \in Nodes
    BY SwapIs
<1>2. /\ u \in Trees /\ u.head = f[t.head]
      /\ \A s \in Side, x \in Nodes : Kid(u, s, x) = f[Kid(t, s, f[x])]
      /\ \A x \in Nodes :
            /\ u.parent[x] = f[t.parent[f[x]]]
            /\ u.root[x] = t.root[f[x]]
            /\ u.h_diff[x] = t.h_diff[f[x]]
    BY RelabelledIs
<1>. HIDE DEF f, u
<1>3. Heights(g)
    BY <1>1, NilIsNoNode DEF Heights
<1>4. \A x \in Pointer : g[x] = h[f[x]]
    OBVIOUS
<1>. HIDE DEF g
<1>5. ASSUME NEW x \in Nodes PROVE Level(u, g, x)
    <2>1. f[x] \in Nodes /\ f[x] # Nil /\ x \in Pointer
        BY <1>1, NilIsNoNode
    <2>2. Level(t, h, f[x])
        BY <2>1 DEF Levels
    <2>3. \A s \in Side : g[Kid(u, s, x)] = h[Kid(t, s, f[x])]
        <3>1. \A s \in Side : Kid(t, s, f[x]) \in Pointer
            BY <2>1, KidType
        <3>. QED BY <3>1, <1>1, <1>2, <1>4
    <2>4. g[x] = h[f[x]] /\ u.h_diff[x] = t.h_diff[f[x]]
        BY <2>1, <1>2, <1>4
    <2>5. Right \in Side /\ Opposite(Right) \in Side
        BY DEF Side, Opposite
    <2>. QED BY <2>2, <2>3, <2>4, <2>5 DEF Level, LevelWith
<1>6. Levels(u, g, Nil)
    BY <1>5 DEF Levels
<1>. QED BY <1>3, <1>6 DEF f, g, u

(* Where the kids are the same and as high, the node is level as before.   *)
LEMMA LevelKept ==
    ASSUME NEW t, NEW u, NEW h, NEW g, NEW n, Level(t, h, n),
           g[n] = h[n], u.h_diff[n] = t.h_diff[n],
           \A s \in Side : g[Kid(u, s, n)] = h[Kid(t, s, n)]
    PROVE  Level(u, g, n)
<1>1. Right \in Side /\ Opposite(Right) \in Side
    BY DEF Side, Opposite
<1>. QED BY <1>1 DEF Level, LevelWith

LEMMA LevelAlone ==
    ASSUME NEW t \in Trees, NEW h, Heights(h), NEW n \in Nodes, \A s \in Side : Kid(t, s, n) = Nil
    PROVE  Level(t, h, n) <=> h[n] = 1 /\ t.h_diff[n] = 0
<1>1. /\ Right \in Side /\ Opposite(Right) \in Side /\ Sign(Right) = 1
    BY DEF Side, Opposite, Sign, Left, Right
<1>2. h[Kid(t, Right, n)] = 0 /\ h[Kid(t, Opposite(Right), n)] = 0
    BY <1>1 DEF Heights
<1>3. Level(t, h, n) <=> /\ h[n] = 1 + Larger(0, 0) /\ 1 * t.h_diff[n] = 0 - 0
                         /\ t.h_diff[n] \in -1..1
    BY <1>1, <1>2 DEF Level, LevelWith
<1>4. t.h_diff[n] \in Int /\ Larger(0, 0) = 0
    BY DEF Trees, Larger
<1>. QED BY <1>3, <1>4

LEMMA AddedLevels ==
    ASSUME NEW t, NEW below, WellFormed(t, below), NEW n \in Nodes \ below[t.head],
           NEW m \in Pointer, NEW s \in Side,
           m # Nil => m \in below[t.head] /\ Kid(t, s, m) = Nil,
           NEW u, AddedTo(t, u, n, m, s), NEW h, Heights(h), Levels(t, h, Nil)
    PROVE  Levels(u, h, m) /\ (m # Nil => Pending(u, h, m, s, FALSE))
<1>1. t \in Trees /\ u \in Trees
    BY DEF WellFormed, AddedTo
<1>2. /\ \A r \in Side, x \in Nodes :
            Kid(u, r, x) = IF x = m /\ r = s THEN n ELSE Kid(t, r, x)
      /\ \A x \in Nodes : u.h_diff[x] = t.h_diff[x]
    BY DEF AddedTo
<1>3. \A x \in Nodes : Level(t, h, x)
    BY NilIsNoNode DEF Levels
<1>4. Levels(u, h, m)
    <2>1. ASSUME NEW x \in Nodes, x # m PROVE Level(u, h, x)
        <3>1. \A r \in Side : h[Kid(u, r, x)] = h[Kid(t, r, x)]
            BY <2>1, <1>2
        <3>. QED BY <3>1, <1>2, <1>3, LevelKept
    <2>. QED BY <2>1 DEF Levels
<1>5. ASSUME m # Nil PROVE Pending(u, h, m, s, FALSE)
    <2>1. m \in Nodes /\ Kid(t, s, m) = Nil /\ Opposite(s) \in Side /\ Opposite(s) # s
        BY <1>5, Sides DEF Pointer
    <2>2. h[n] = 1
        <3>1. \A r \in Side : Kid(t, r, n) = Nil
            BY OutOfTree
        <3>2. Level(t, h, n)
            BY <1>3
        <3>. QED BY <3>1, <3>2, <1>1, LevelAlone
    <2>3. LevelWith(t, h, m, s, 0)
        <3>1. LevelWith(t, h, m, s, h[Kid(t, s, m)])
            BY <2>1, <1>1, <1>3, LevelSide
        <3>. QED BY <3>1, <2>1 DEF Heights
    <2>4. LevelWith(u, h, m, s, 0)
        BY <2>1, <2>3, <1>2 DEF LevelWith
    <2>5. h[Kid(u, s, m)] = 0 + 1
        BY <2>1, <2>2, <1>2
    <2>. QED BY <2>1, <2>4, <2>5, <1>1, NextPending
<1>. QED BY <1>4, <1>5

LEMMA RemovedLevels ==
    ASSUME NEW t, NEW below, WellFormed(t, below), NEW n \in below[t.head], NEW s \in Side,
           Kid(t, Opposite(s), n) = Nil, NEW u, RemovedTo(t, u, n, s),
           NEW h, Heights(h), Levels(t, h, Nil)
    PROVE  LET g == [h EXCEPT ![n] = 1]
           IN /\ Heights(g)
              /\ t.parent[n] = Nil => Levels(u, g, Nil)
              /\ \A p \in Nodes, r \in Side : Kid(t, r, p) = n =>
                    Levels(u, g, p) /\ Pending(u, g, p, Opposite(r), TRUE)
<1>. DEFINE g == [h EXCEPT ![n] = 1]
            c == Kid(t, s, n)
<1>1. /\ t \in Trees /\ t.head \in Pointer /\ n \in Nodes /\ Shape(t, below) /\ Linked(t)
      /\ c \in Pointer
    BY BelowNested, KidType DEF WellFormed, Trees
<1>2. /\ u \in Trees
      /\ \A r \in Side, x \in Nodes :
            Kid(u, r, x) = IF x = n THEN Nil ELSE IF Kid(t, r, x) = n THEN c ELSE Kid(t, r, x)
      /\ \A x \in Nodes : u.h_diff[x] = IF x = n THEN 0 ELSE t.h_diff[x]
    BY DEF RemovedTo
<1>3. c # n
    BY <1>1, ShapeAt
<1>4. \A x \in Nodes : Level(t, h, x)
    BY NilIsNoNode DEF Levels
<1>5. Heights(g) /\ g[n] = 1 /\ \A x \in Pointer : x # n => g[x] = h[x]
    BY <1>1, NilIsNoNode DEF Heights
<1>. HIDE DEF g
<1>6. ASSUME NEW x \in Nodes, t.parent[n] = Nil \/ \A r \in Side : Kid(t, r, x) # n
      PROVE  Level(u, g, x)
    <2>1. \A r \in Side : Kid(t, r, x) # n /\ Kid(t, r, x) \in Pointer
        BY <1>1, <1>6, KidType, NilIsNoNode DEF Linked
    <2>2. CASE x = n
        BY <2>2, <1>1, <1>2, <1>5, LevelAlone
    <2>3. CASE x # n
        <3>1. \A r \in Side : g[Kid(u, r, x)] = h[Kid(t, r, x)]
            BY <2>1, <2>3, <1>2, <1>5
        <3>2. g[x] = h[x] /\ u.h_diff[x] = t.h_diff[x]
            BY <2>3, <1>2, <1>5, NilIsNoNode
        <3>. QED BY <3>1, <3>2, <1>4, LevelKept
    <2>. QED BY <2>2, <2>3
<1>7. t.parent[n] = Nil => Levels(u, g, Nil)
    BY <1>6 DEF Levels
<1>8. ASSUME NEW p \in Nodes, NEW r \in Side, Kid(t, r, p) = n
      PROVE  Levels(u, g, p) /\ Pending(u, g, p, Opposite(r), TRUE)
    <2>1. \A x \in Nodes, q \in Side : Kid(t, q, x) = n => x = p
        BY <1>1, <1>8, NilIsNoNode DEF Linked
    <2>2. Levels(u, g, p)
        BY <2>1, <1>6 DEF Levels
    <2>3. p # n /\ p \in Pointer /\ Opposite(r) \in Side
        BY <1>1, <1>8, ShapeAt, Sides, NilIsNoNode
    <2>4. Kid(t, Opposite(r), p) # n /\ Kid(t, Opposite(r), p) \in Pointer
        <3>1. n \in below[n]
            BY <1>1, ShapeAt
        <3>. QED BY <3>1, <1>1, <1>8, ShapeAt
    <2>5. Kid(u, r, p) = c /\ Kid(u, Opposite(r), p) = Kid(t, Opposite(r), p)
        BY <2>3, <2>4, <1>2, <1>8
    <2>6. LevelWith(t, h, p, r, h[n])
        BY <1>1, <1>4, <1>8, LevelSide
    <2>7. g[Kid(u, Opposite(r), p)] = h[Kid(t, Opposite(r), p)] /\ g[p] = h[p]
          /\ u.h_diff[p] = t.h_diff[p]
        BY <2>3, <2>4, <2>5, <1>2, <1>5
    <2>8. LevelWith(u, g, p, r, h[n])
        BY <2>6, <2>7 DEF LevelWith
    <2>9. h[n] \in Nat /\ h[c] \in Nat /\ h[n] = 1 + h[c]
        <3>1. LevelWith(t, h, n, s, h[c])
            BY <1>1, <1>4, LevelSide
        <3>2. h[n] = 1 + Larger(h[c], 0)
            BY <3>1 DEF LevelWith, Heights
        <3>3. h[n] \in Nat /\ h[c] \in Nat
            BY <1>1, NilIsNoNode DEF Heights
        <3>. QED BY <3>2, <3>3 DEF Larger
    <2>10. g[Kid(u, r, p)] = h[n] - 1
        BY <2>5, <2>9, <1>1, <1>3, <1>5
    <2>11. Pending(u, g, p, Opposite(r), TRUE)
        BY <2>8, <2>9, <2>10, <1>2, <1>5, NextPending
    <2>. QED BY <2>2, <2>11
<1>. QED BY <1>5, <1>7, <1>8 DEF g

(* A rotation keeps every h_diff the difference of the heights, also where *)
(* it is not within -1..1.                                                 *)
Exact(t, h, n, s) ==
    /\ h[n] = 1 + Larger(h[Kid(t, s, n)], h[Kid(t, Opposite(s), n)])
    /\ Sign(s) * t.h_diff[n] = h[Kid(t, s, n)] - h[Kid(t, Opposite(s), n)]

(* its parent's point of view                                              *)
Leans(t, h, n, s) == Sign(s) * t.h_diff[n] = h[Kid(t, s, n)] - h[Kid(t, Opposite(s), n)]

(* Nothing changed at x.                                                   *)
Same(t, u, h, g, x) ==
    /\ g[x] = h[x] /\ u.h_diff[x] = t.h_diff[x]
    /\ \A r \in Side : Kid(u, r, x) = Kid(t, r, x) /\ g[Kid(u, r, x)] = h[Kid(t, r, x)]

(* The heights after n sank under its child on side s.                     *)
Sunk(t, h, n, s) ==
    1 + Larger(h[Kid(t, Opposite(s), Kid(t, s, n))], h[Kid(t, Opposite(s), n)])
Raised(t, h, n, s) == 1 + Larger(h[Kid(t, s, Kid(t, s, n))], Sunk(t, h, n, s))
HeightsRotated(t, h, n, s) ==
    [h EXCEPT ![n] = Sunk(t, h, n, s), ![Kid(t, s, n)] = Raised(t, h, n, s)]

(* The parent of n has top in its place, and is the same otherwise.        *)
PlaceTaken(t, u, h, g, n, top) ==
    \A p \in Nodes, r \in Side : Kid(t, r, p) = n =>
        /\ p # n /\ p # top /\ Kid(u, r, p) = top
        /\ Kid(u, Opposite(r), p) = Kid(t, Opposite(r), p)
        /\ g[Kid(u, Opposite(r), p)] = h[Kid(t, Opposite(r), p)]
        /\ g[p] = h[p] /\ u.h_diff[p] = t.h_diff[p]

LEMMA RotateDiffs ==
    ASSUME NEW t, NEW below, WellFormed(t, below), NEW n \in below[t.head], NEW s \in Side,
           Kid(t, s, n) # Nil, NEW h, Heights(h), Leans(t, h, n, s),
           Exact(t, h, Kid(t, s, n), s)
    PROVE  LET u == Rotate(t, n, s)
               c == Kid(t, s, n)
           IN /\ Sign(s) * u.h_diff[n] = h[Kid(t, Opposite(s), c)] - h[Kid(t, Opposite(s), n)]
              /\ Sign(s) * u.h_diff[c] = h[Kid(t, s, c)] - Sunk(t, h, n, s)
              /\ \A x \in Nodes : x # n /\ x # c => u.h_diff[x] = t.h_diff[x]
<1>. DEFINE u == Rotate(t, n, s)
            c == Kid(t, s, n)
            o == Opposite(s)
            e == Sign(s)
            d == t.h_diff[n]
            dc == t.h_diff[c]
            inner == h[Kid(t, o, c)]
            outer == h[Kid(t, s, c)]
            other == h[Kid(t, o, n)]
            hn == e * d
            hc == e * dc
            n2 == IF hc <= 0 THEN hn - 1 ELSE hn - (hc + 1)
            c2 == IF n2 >= 0 THEN hc - 1 ELSE hc + n2 - 1
<1>1. /\ t \in Trees /\ n \in Nodes /\ c \in Nodes /\ n # c /\ o \in Side
    BY Around, Sides DEF WellFormed
<1>2. /\ inner \in Nat /\ outer \in Nat /\ other \in Nat /\ d \in Int /\ dc \in Int
      /\ e \in {-1, 1}
    <2>1. Kid(t, o, c) \in Pointer /\ Kid(t, s, c) \in Pointer /\ Kid(t, o, n) \in Pointer
        BY <1>1, KidType
    <2>. QED BY <2>1, <1>1, Sides DEF Heights, Trees
<1>3. e * d = (1 + Larger(outer, inner)) - other /\ e * dc = outer - inner
    <2>. HIDE DEF c
    <2>1. h[c] = 1 + Larger(outer, inner) /\ e * dc = outer - inner
        BY DEF Exact, c
    <2>2. e * d = h[c] - other
        BY DEF Leans, c
    <2>. QED BY <2>1, <2>2
<1>4. u.h_diff = [t.h_diff EXCEPT ![n] = e * n2, ![c] = e * c2]
    <2>1. u.h_diff = RotatedDiff(t, n, c, s)
        BY RotateIs
    <2>. QED BY <2>1 DEF RotatedDiff
<1>. HIDE DEF u, c, e, d, dc, inner, outer, other
<1>5. /\ n2 = inner - other
      /\ c2 = outer - (1 + Larger(inner, other))
      /\ e * (e * n2) = n2 /\ e * (e * c2) = c2
    <2>1. hn = (1 + Larger(outer, inner)) - other /\ hc = outer - inner
        BY <1>3
    <2>. HIDE DEF hn, hc
    <2>2. n2 = inner - other
        BY <2>1, <1>2 DEF Larger
    <2>. HIDE DEF n2
    <2>3. c2 = outer - (1 + Larger(inner, other))
        BY <2>1, <2>2, <1>2 DEF Larger
    <2>. HIDE DEF c2
    <2>4. n2 \in Int /\ c2 \in Int
        BY <2>2, <2>3, <1>2 DEF Larger
    <2>5. e * (e * n2) = n2 /\ e * (e * c2) = c2
        BY <2>4, <1>2
    <2>. QED BY <2>2, <2>3, <2>5
<1>. HIDE DEF n2, c2, hn, hc
<1>6. t.h_diff \in [Nodes -> Int]
    BY <1>1 DEF Trees
<1>7. /\ e * u.h_diff[n] = n2 /\ e * u.h_diff[c] = c2
      /\ \A x \in Nodes : x # n /\ x # c => u.h_diff[x] = t.h_diff[x]
    BY <1>1, <1>4, <1>5, <1>6
<1>8. Sunk(t, h, n, s) = 1 + Larger(inner, other)
    BY DEF Sunk, inner, other, c
<1>. QED BY <1>5, <1>7, <1>8 DEF u, c, e, inner, outer, other

LEMMA RotateLevels ==
    ASSUME NEW t, NEW below, WellFormed(t, below), NEW n \in below[t.head], NEW s \in Side,
           Kid(t, s, n) # Nil, NEW h, Heights(h), Leans(t, h, n, s),
           Exact(t, h, Kid(t, s, n), s)
    PROVE  LET u == Rotate(t, n, s)
               c == Kid(t, s, n)
               g == HeightsRotated(t, h, n, s)
           IN /\ Heights(g) /\ g[n] = Sunk(t, h, n, s) /\ g[c] = Raised(t, h, n, s)
              /\ \A x \in Pointer : x # n /\ x # c => g[x] = h[x]
              /\ Kid(u, s, n) = Kid(t, Opposite(s), c) /\ Kid(u, Opposite(s), n) = Kid(t, Opposite(s), n)
              /\ Kid(u, s, c) = Kid(t, s, c) /\ Kid(u, Opposite(s), c) = n
              /\ Exact(u, g, n, s) /\ Exact(u, g, c, s)
              /\ g[Kid(u, s, n)] = h[Kid(t, Opposite(s), c)]
              /\ g[Kid(u, Opposite(s), n)] = h[Kid(t, Opposite(s), n)]
              /\ g[Kid(u, s, c)] = h[Kid(t, s, c)]
<1>. DEFINE u == Rotate(t, n, s)
            c == Kid(t, s, n)
            g == HeightsRotated(t, h, n, s)
            o == Opposite(s)
            inner == Kid(t, o, c)
            outer == Kid(t, s, c)
            other == Kid(t, o, n)
<1>1. /\ t \in Trees /\ n \in Nodes /\ c \in Nodes /\ n # c /\ o \in Side /\ o # s
      /\ inner \in Pointer /\ inner # n /\ inner # c /\ Shape(t, below) /\ n \notin below[c]
    BY Around, Sides DEF WellFormed
<1>2. outer \in Pointer /\ other \in Pointer /\ outer # n /\ outer # c /\ other # n /\ other # c
    <2>. HIDE DEF c
    <2>1. outer \in Pointer /\ other \in Pointer
        BY <1>1, KidType
    <2>2. outer # c /\ other # n
        BY <1>1, ShapeAt
    <2>3. outer # n
        BY <1>1, ShapeAt
    <2>4. other # c
        <3>1. c \in below[c]
            BY <1>1, ShapeAt
        <3>. QED BY <3>1, <1>1, ShapeAt DEF c
    <2>. QED BY <2>1, <2>2, <2>3, <2>4
<1>3. /\ Sign(s) * u.h_diff[n] = h[inner] - h[other]
      /\ Sign(s) * u.h_diff[c] = h[outer] - Sunk(t, h, n, s)
    BY RotateDiffs
<1>4. \A r \in Side, x \in Nodes :
          Kid(u, r, x) = IF x = n /\ r = s THEN inner ELSE IF x = c /\ r = o THEN n
                         ELSE IF Kid(t, r, x) = n THEN c ELSE Kid(t, r, x)
    BY RotateIs
<1>5. g = [h EXCEPT ![n] = Sunk(t, h, n, s), ![c] = Raised(t, h, n, s)]
    BY DEF HeightsRotated
<1>6. /\ Sunk(t, h, n, s) = 1 + Larger(h[inner], h[other])
      /\ Raised(t, h, n, s) = 1 + Larger(h[outer], Sunk(t, h, n, s))
    BY DEF Sunk, Raised
<1>. HIDE DEF u, c, g, inner, outer, other, o
<1>7. h[inner] \in Nat /\ h[outer] \in Nat /\ h[other] \in Nat
    BY <1>1, <1>2 DEF Heights
<1>8. Sunk(t, h, n, s) \in Nat /\ Raised(t, h, n, s) \in Nat
    BY <1>6, <1>7 DEF Larger
<1>9. /\ Heights(g) /\ g[n] = Sunk(t, h, n, s) /\ g[c] = Raised(t, h, n, s)
      /\ \A x \in Pointer : x # n /\ x # c => g[x] = h[x]
    <2>1. h \in [Pointer -> Nat] /\ h[Nil] = 0 /\ n \in Pointer /\ c \in Pointer
        BY <1>1, NilIsNoNode DEF Heights
    <2>2. g \in [Pointer -> Nat]
        BY <2>1, <1>5, <1>8
    <2>. QED BY <2>1, <2>2, <1>1, <1>5, NilIsNoNode DEF Heights
<1>10. /\ Kid(u, s, n) = inner /\ Kid(u, o, n) = other
       /\ Kid(u, s, c) = outer /\ Kid(u, o, c) = n
    <2>1. Kid(t, o, n) = other /\ Kid(t, s, c) = outer
        BY DEF other, outer
    <2>2. Kid(u, s, n) = inner
        BY <1>1, <1>4
    <2>3. Kid(u, o, n) = other
        BY <2>1, <1>1, <1>2, <1>4
    <2>4. Kid(u, s, c) = outer
        BY <2>1, <1>1, <1>2, <1>4
    <2>5. Kid(u, o, c) = n
        BY <1>1, <1>4
    <2>. QED BY <2>2, <2>3, <2>4, <2>5
<1>11. g[inner] = h[inner] /\ g[other] = h[other] /\ g[outer] = h[outer]
    BY <1>1, <1>2, <1>9
<1>12. Exact(u, g, n, s) /\ Exact(u, g, c, s)
    BY <1>3, <1>6, <1>9, <1>10, <1>11 DEF Exact, o
<1>. QED BY <1>9, <1>10, <1>11, <1>12 DEF u, c, g, inner, outer, other, o

(* The rest of the tree does not notice.                                   *)
LEMMA RotateAround ==
    ASSUME NEW t, NEW below, WellFormed(t, below), NEW n \in below[t.head], NEW s \in Side,
           Kid(t, s, n) # Nil, NEW h, Heights(h), Leans(t, h, n, s),
           Exact(t, h, Kid(t, s, n), s)
    PROVE  LET u == Rotate(t, n, s)
               c == Kid(t, s, n)
               g == HeightsRotated(t, h, n, s)
           IN /\ \A x \in Nodes : x # n /\ x # c /\ (\A r \in Side : Kid(t, r, x) # n)
                                  => Same(t, u, h, g, x)
              /\ PlaceTaken(t, u, h, g, n, c)
<1>. DEFINE u == Rotate(t, n, s)
            c == Kid(t, s, n)
            g == HeightsRotated(t, h, n, s)
            inner == Kid(t, Opposite(s), c)
<1>1. /\ t \in Trees /\ n \in Nodes /\ c \in Nodes /\ n # c /\ Shape(t, below) /\ Linked(t)
      /\ t.parent[c] = n /\ t.parent[n] # c
    BY Around DEF WellFormed
<1>2. /\ \A r \in Side, x \in Nodes :
            Kid(u, r, x) = IF x = n /\ r = s THEN inner ELSE IF x = c /\ r = Opposite(s) THEN n
                           ELSE IF Kid(t, r, x) = n THEN c ELSE Kid(t, r, x)
    BY RotateIs
<1>3. \A x \in Nodes : x # n /\ x # c => u.h_diff[x] = t.h_diff[x]
    BY RotateDiffs
<1>4. \A x \in Pointer : x # n /\ x # c => g[x] = h[x]
    BY RotateLevels
<1>5. \A x \in Nodes, r \in Side : Kid(t, r, x) = c => x = n
    BY <1>1, NilIsNoNode DEF Linked
<1>. HIDE DEF u, c, g, inner
<1>6. ASSUME NEW x \in Nodes, x # n, x # c, \A r \in Side : Kid(t, r, x) # n
      PROVE  Same(t, u, h, g, x)
    <2>1. \A r \in Side : Kid(u, r, x) = Kid(t, r, x) /\ Kid(t, r, x) # c /\ Kid(t, r, x) \in Pointer
        BY <1>1, <1>2, <1>5, <1>6, KidType
    <2>2. \A r \in Side : g[Kid(u, r, x)] = h[Kid(t, r, x)]
        BY <2>1, <1>4, <1>6
    <2>3. g[x] = h[x]
        BY <1>4, <1>6, NilIsNoNode
    <2>. QED BY <2>1, <2>2, <2>3, <1>3, <1>6 DEF Same
<1>7. ASSUME NEW p \in Nodes, NEW r \in Side, Kid(t, r, p) = n
      PROVE  /\ p # n /\ p # c /\ Kid(u, r, p) = c
             /\ Kid(u, Opposite(r), p) = Kid(t, Opposite(r), p)
             /\ g[Kid(u, Opposite(r), p)] = h[Kid(t, Opposite(r), p)]
             /\ g[p] = h[p] /\ u.h_diff[p] = t.h_diff[p]
    <2>1. p # n
        BY <1>1, <1>7, ShapeAt
    <2>2. p # c
        BY <1>1, <1>7, NilIsNoNode DEF Linked
    <2>3. Opposite(r) \in Side /\ Opposite(Opposite(r)) = r
        BY Sides
    <2>4. Kid(t, Opposite(r), p) # n /\ Kid(t, Opposite(r), p) # c /\ Kid(t, Opposite(r), p) \in Pointer
        <3>1. n \in below[n]
            BY <1>1, ShapeAt
        <3>2. Kid(t, Opposite(r), p) # n
            BY <3>1, <1>1, <1>7, ShapeAt
        <3>. QED BY <3>2, <2>1, <2>3, <1>1, <1>5, KidType
    <2>5. Kid(u, Opposite(r), p) = Kid(t, Opposite(r), p) /\ Kid(u, r, p) = c
        BY <2>1, <2>2, <2>3, <2>4, <1>2, <1>7
    <2>. QED BY <2>1, <2>2, <2>4, <2>5, <1>3, <1>4, NilIsNoNode
<1>8. PlaceTaken(t, u, h, g, n, c)
    BY <1>7 DEF PlaceTaken
<1>. QED BY <1>6, <1>8 DEF u, c, g

LEMMA ExactSide ==
    ASSUME NEW t \in Trees, NEW h, Heights(h), NEW n \in Nodes, NEW s \in Side, Exact(t, h, n, s)
    PROVE  Exact(t, h, n, Opposite(s))
<1>. DEFINE k == h[Kid(t, s, n)]
            o == h[Kid(t, Opposite(s), n)]
            d == t.h_diff[n]
            e == Sign(s)
<1>1. /\ Opposite(s) \in Side /\ Opposite(Opposite(s)) = s /\ Sign(Opposite(s)) = -e
      /\ e \in {-1, 1}
    BY Sides
<1>2. k \in Nat /\ o \in Nat /\ d \in Int
    BY <1>1, KidType DEF Heights, Trees
<1>3. h[n] = 1 + Larger(k, o) /\ e * d = k - o
    BY DEF Exact
<1>. HIDE DEF k, o, d, e
<1>4. h[n] = 1 + Larger(o, k) /\ (-e) * d = o - k
    BY <1>1, <1>2, <1>3 DEF Larger
<1>. QED BY <1>1, <1>4 DEF Exact, k, o, d

LEMMA LevelExact ==
    ASSUME NEW t \in Trees, NEW h, Heights(h), NEW n \in Nodes, NEW s \in Side
    PROVE  Level(t, h, n) <=>
               Exact(t, h, n, s) /\ h[Kid(t, s, n)] - h[Kid(t, Opposite(s), n)] \in -1..1
<1>. DEFINE k == h[Kid(t, s, n)]
            o == h[Kid(t, Opposite(s), n)]
            d == t.h_diff[n]
            e == Sign(s)
<1>1. Opposite(s) \in Side /\ e \in {-1, 1}
    BY Sides
<1>2. k \in Nat /\ o \in Nat /\ d \in Int
    BY <1>1, KidType DEF Heights, Trees
<1>3. /\ Level(t, h, n) <=> h[n] = 1 + Larger(k, o) /\ e * d = k - o /\ d \in -1..1
      /\ Exact(t, h, n, s) <=> h[n] = 1 + Larger(k, o) /\ e * d = k - o
    BY LevelSide DEF LevelWith, Exact
<1>. HIDE DEF k, o, d, e
<1>4. e * d = k - o => (d \in -1..1 <=> k - o \in -1..1)
    BY <1>1, <1>2
<1>. QED BY <1>3, <1>4 DEF k, o

LEMMA SameLevel ==
    ASSUME NEW t, NEW u, NEW h, NEW g, NEW n, Level(t, h, n), Same(t, u, h, g, n)
    PROVE  Level(u, g, n)
BY LevelKept DEF Same

(* Everything but n's parent is level in u; there, top has n's place.      *)
Beside(t, u, h, g, n, top) ==
    /\ Heights(g)
    /\ \A x \in Nodes : (\A r \in Side : Kid(t, r, x) # n) => Level(u, g, x)
    /\ PlaceTaken(t, u, h, g, n, top)

(* One rotation.  The subtree is as high as before the last insertion in   *)
(* it, or one higher, and then it leans.                                   *)
LEMMA SingleTurn ==
    ASSUME NEW t, NEW below, WellFormed(t, below), NEW n \in below[t.head], NEW s \in Side,
           NEW h, Heights(h), Levels(t, h, n), Leans(t, h, n, s),
           h[Kid(t, s, n)] = h[Kid(t, Opposite(s), n)] + 2,
           t.h_diff[Kid(t, s, n)] # -Sign(s)
    PROVE  LET c == Kid(t, s, n)
               u == Rotate(t, n, s)
               g == HeightsRotated(t, h, n, s)
               k == h[Kid(t, Opposite(s), n)]
           IN /\ c # Nil /\ Beside(t, u, h, g, n, c)
              /\ \/ Sign(s) * u.h_diff[c] = -1 /\ g[c] = k + 3
                 \/ Sign(s) * u.h_diff[c] = 0 /\ g[c] = k + 2
<1>. DEFINE c == Kid(t, s, n)
            u == Rotate(t, n, s)
            g == HeightsRotated(t, h, n, s)
            k == h[Kid(t, Opposite(s), n)]
            inner == h[Kid(t, Opposite(s), c)]
            outer == h[Kid(t, s, c)]
<1>1. t \in Trees /\ n \in Nodes /\ Shape(t, below) /\ Opposite(s) \in Side /\ Sign(s) \in {-1, 1}
    BY BelowNested, Sides DEF WellFormed, Trees
<1>2. c # Nil /\ c \in Nodes /\ c # n /\ k \in Nat /\ h[c] = k + 2
    <2>1. Kid(t, Opposite(s), n) \in Pointer /\ c \in Pointer /\ c # n
        BY <1>1, KidType, ShapeAt
    <2>2. k \in Nat
        BY <2>1 DEF Heights
    <2>3. h[c] = k + 2
        OBVIOUS
    <2>. HIDE DEF c, k
    <2>. QED BY <2>1, <2>2, <2>3 DEF Heights, Pointer
<1>3. Exact(t, h, c, s) /\ outer - inner \in -1..1
    <2>1. Level(t, h, c)
        BY <1>2 DEF Levels
    <2>. HIDE DEF c
    <2>. QED BY <2>1, <1>1, <1>2, LevelExact
<1>4. /\ Heights(g) /\ g[n] = Sunk(t, h, n, s) /\ g[c] = Raised(t, h, n, s)
      /\ Exact(u, g, n, s) /\ Exact(u, g, c, s) /\ Kid(u, Opposite(s), c) = n
      /\ g[Kid(u, s, n)] = inner /\ g[Kid(u, Opposite(s), n)] = k /\ g[Kid(u, s, c)] = outer
    BY <1>2, <1>3, RotateLevels
<1>5. /\ \A x \in Nodes : x # n /\ x # c /\ (\A r \in Side : Kid(t, r, x) # n)
                          => Same(t, u, h, g, x)
      /\ PlaceTaken(t, u, h, g, n, c)
    BY <1>2, <1>3, RotateAround
<1>6. u \in Trees
    <2>1. WellFormed(u, BelowRotated(t, below, n, s))
        BY <1>2, RotateShape
    <2>. QED BY <2>1 DEF WellFormed
<1>7. Sunk(t, h, n, s) = 1 + Larger(inner, k) /\ Raised(t, h, n, s) = 1 + Larger(outer, Sunk(t, h, n, s))
    BY DEF Sunk, Raised
<1>8. inner \in Nat /\ outer \in Nat
    <2>. HIDE DEF c
    <2>1. Kid(t, Opposite(s), c) \in Pointer /\ Kid(t, s, c) \in Pointer
        BY <1>1, <1>2, KidType
    <2>. QED BY <2>1 DEF Heights
<1>9. h[c] = 1 + Larger(outer, inner) /\ Sign(s) * t.h_diff[c] = outer - inner
    BY <1>3 DEF Exact
<1>10. outer - inner # -1
    <2>1. t.h_diff[c] \in Int /\ t.h_diff[c] # -Sign(s)
        BY <1>1, <1>2 DEF Trees
    <2>2. Sign(s) * t.h_diff[c] # -1
        BY <2>1, <1>1
    <2>. QED BY <2>2, <1>9
<1>11. /\ g[Kid(u, s, n)] = inner /\ g[Kid(u, Opposite(s), n)] = k
       /\ g[Kid(u, s, c)] = outer /\ g[Kid(u, Opposite(s), c)] = g[n]
    BY <1>4
<1>. HIDE DEF c, u, g, k, inner, outer
<1>12. outer = k + 1 /\ (inner = k \/ inner = k + 1)
    BY <1>2, <1>3, <1>8, <1>9, <1>10 DEF Larger
<1>13. \/ inner = k + 1 /\ g[n] = k + 2 /\ g[c] = k + 3
       \/ inner = k /\ g[n] = k + 1 /\ g[c] = k + 2
    BY <1>2, <1>4, <1>7, <1>12 DEF Larger
<1>14. inner - k \in -1..1 /\ outer - g[n] \in -1..1
    BY <1>2, <1>12, <1>13
<1>15. Level(u, g, n) /\ Level(u, g, c)
    BY <1>1, <1>2, <1>4, <1>6, <1>11, <1>14, LevelExact
<1>16. ASSUME NEW x \in Nodes, \A r \in Side : Kid(t, r, x) # n PROVE Level(u, g, x)
    <2>1. CASE x = n \/ x = c
        BY <2>1, <1>15
    <2>2. CASE x # n /\ x # c
        <3>1. Level(t, h, x) /\ Same(t, u, h, g, x)
            BY <2>2, <1>5, <1>16 DEF Levels
        <3>. QED BY <3>1, SameLevel
    <2>. QED BY <2>1, <2>2
<1>17. Beside(t, u, h, g, n, c)
    BY <1>4, <1>5, <1>16 DEF Beside
<1>18. Sign(s) * u.h_diff[c] = outer - g[n]
    BY <1>4, <1>11 DEF Exact
<1>19. \/ Sign(s) * u.h_diff[c] = -1 /\ g[c] = k + 3
       \/ Sign(s) * u.h_diff[c] = 0 /\ g[c] = k + 2
    BY <1>2, <1>12, <1>13, <1>18
<1>. QED BY <1>2, <1>17, <1>19 DEF c, u, g, k

(* Two rotations, when the child leans the other way.                      *)
LEMMA DoubleTurn ==
    ASSUME NEW t, NEW below, WellFormed(t, below), NEW n \in below[t.head], NEW s \in Side,
           NEW h, Heights(h), Levels(t, h, n), Leans(t, h, n, s),
           h[Kid(t, s, n)] = h[Kid(t, Opposite(s), n)] + 2,
           t.h_diff[Kid(t, s, n)] = -Sign(s)
    PROVE  LET c == Kid(t, s, n)
               m == Kid(t, Opposite(s), c)
               st == Rotate(t, c, Opposite(s))
               h1 == HeightsRotated(t, h, c, Opposite(s))
               u == Rotate(st, n, s)
               g == HeightsRotated(st, h1, n, s)
           IN /\ c # Nil /\ m # Nil /\ Kid(st, s, n) = m
              /\ Sign(s) * st.h_diff[m] \in {1, 2}
              /\ Beside(t, u, h, g, n, m)
              /\ Sign(s) * u.h_diff[m] = 0 /\ g[m] = h[Kid(t, Opposite(s), n)] + 2
<1>. DEFINE o == Opposite(s)
            c == Kid(t, s, n)
            m == Kid(t, o, c)
            st == Rotate(t, c, o)
            h1 == HeightsRotated(t, h, c, o)
            u == Rotate(st, n, s)
            g == HeightsRotated(st, h1, n, s)
            k == h[Kid(t, o, n)]
            outer == h[Kid(t, s, c)]
            ms == h[Kid(t, s, m)]
            mo == h[Kid(t, o, m)]
            down == BelowRotated(t, below, c, o)
<1>1. /\ t \in Trees /\ n \in Nodes /\ Shape(t, below) /\ Linked(t)
      /\ o \in Side /\ Opposite(o) = s /\ o # s /\ Sign(s) \in {-1, 1} /\ Sign(o) = -Sign(s)
      /\ \A r \in Side : r = s \/ r = o
    BY BelowNested, Sides DEF WellFormed, Trees
<1>2. c # Nil /\ c \in Nodes /\ k \in Nat /\ h[c] = k + 2
    <2>1. Kid(t, o, n) \in Pointer /\ c \in Pointer
        BY <1>1, KidType
    <2>2. k \in Nat
        BY <2>1 DEF Heights
    <2>3. h[c] = k + 2
        OBVIOUS
    <2>. HIDE DEF c, k
    <2>. QED BY <2>1, <2>2, <2>3 DEF Heights, Pointer
<1>3. /\ c \in below[t.head] /\ n # c /\ m \in Pointer /\ m # n /\ m # c
      /\ t.parent[c] = n /\ t.parent[n] # c /\ n \notin below[c]
    BY <1>2, Around
<1>4. Exact(t, h, c, s) /\ Exact(t, h, c, o)
    <2>1. Level(t, h, c)
        BY <1>2, <1>3 DEF Levels
    <2>. HIDE DEF c, o
    <2>. QED BY <2>1, <1>1, <1>2, LevelExact
<1>5. outer = k /\ h[m] = k + 1
    <2>1. h[c] = 1 + Larger(outer, h[m]) /\ Sign(s) * t.h_diff[c] = outer - h[m]
        BY <1>4 DEF Exact
    <2>2. Sign(s) * t.h_diff[c] = -1
        <3>1. t.h_diff[c] = -Sign(s)
            OBVIOUS
        <3>. QED BY <3>1, <1>1
    <2>3. outer \in Nat /\ h[m] \in Nat
        <3>. HIDE DEF c, o
        <3>1. Kid(t, s, c) \in Pointer
            BY <1>1, <1>2, KidType
        <3>. HIDE DEF m
        <3>. QED BY <3>1, <1>3 DEF Heights
    <2>. HIDE DEF c, m, outer, k
    <2>. QED BY <2>1, <2>2, <2>3, <1>2 DEF Larger
<1>6. m # Nil /\ m \in Nodes
    <2>. HIDE DEF m
    <2>. QED BY <1>2, <1>3, <1>5 DEF Heights, Pointer
<1>7. /\ Exact(t, h, m, o) /\ ms \in Nat /\ mo \in Nat /\ mo - ms \in -1..1
      /\ h[m] = 1 + Larger(mo, ms)
    <2>1. Level(t, h, m)
        BY <1>3, <1>6 DEF Levels
    <2>. HIDE DEF m, o
    <2>2. Exact(t, h, m, o) /\ mo - ms \in -1..1
        BY <2>1, <1>1, <1>6, LevelExact
    <2>3. Kid(t, s, m) \in Pointer /\ Kid(t, o, m) \in Pointer
        BY <1>1, <1>6, KidType
    <2>. QED BY <2>2, <2>3, <1>1 DEF Exact, Heights
<1>8. Leans(t, h, c, o)
    <2>. HIDE DEF c, o
    <2>. QED BY <1>4 DEF Exact, Leans
<1>9. /\ WellFormed(st, down) /\ down[st.head] = below[t.head]
    BY <1>1, <1>3, <1>6, RotateShape
<1>10. /\ Heights(h1) /\ h1[c] = Sunk(t, h, c, o) /\ h1[m] = Raised(t, h, c, o)
       /\ Kid(st, Opposite(o), m) = c
       /\ Exact(st, h1, c, o) /\ Exact(st, h1, m, o)
       /\ h1[Kid(st, o, c)] = h[Kid(t, Opposite(o), m)]
       /\ h1[Kid(st, Opposite(o), c)] = h[Kid(t, Opposite(o), c)]
       /\ h1[Kid(st, o, m)] = h[Kid(t, o, m)]
    <2>. HIDE DEF c, o
    <2>. QED BY <1>1, <1>3, <1>6, <1>7, <1>8, RotateLevels DEF m
<1>11. /\ \A x \in Nodes : x # c /\ x # m /\ (\A r \in Side : Kid(t, r, x) # c)
                          => Same(t, st, h, h1, x)
       /\ PlaceTaken(t, st, h, h1, c, m)
    <2>. HIDE DEF c, o
    <2>. QED BY <1>1, <1>3, <1>6, <1>7, <1>8, RotateAround DEF m
<1>12. /\ Sunk(t, h, c, o) = 1 + Larger(ms, outer)
       /\ Raised(t, h, c, o) = 1 + Larger(mo, Sunk(t, h, c, o))
    <2>1. Opposite(o) = s
        BY <1>1
    <2>. HIDE DEF o
    <2>. QED BY <2>1 DEF Sunk, Raised
<1>13. h1[c] = k + 1 /\ h1[m] = k + 2 /\ (mo = k \/ mo = k - 1) /\ (ms = k \/ ms = k - 1)
    <2>. HIDE DEF c, m, mo, ms, outer, k, h1
    <2>. QED BY <1>2, <1>5, <1>7, <1>10, <1>12 DEF Larger
<1>14. /\ n # m /\ Kid(st, s, n) = m /\ Kid(st, o, n) = Kid(t, o, n)
       /\ h1[Kid(st, o, n)] = k /\ h1[n] = h[n] /\ st.h_diff[n] = t.h_diff[n]
    <2>1. Kid(t, s, n) = c
        OBVIOUS
    <2>. HIDE DEF c, m, st, h1, o
    <2>. QED BY <2>1, <1>1, <1>11 DEF PlaceTaken, o
<1>. HIDE DEF down, st, h1, o, c, m, outer, ms, mo
<1>15. /\ h1[Kid(st, o, c)] = ms /\ h1[Kid(st, s, c)] = outer /\ h1[Kid(st, o, m)] = mo
       /\ Kid(st, s, m) = c /\ st \in Trees
    BY <1>1, <1>9, <1>10 DEF ms, mo, outer, WellFormed
<1>16. Leans(st, h1, n, s) /\ Exact(st, h1, m, s)
    <2>1. Sign(s) * t.h_diff[n] = h[c] - k
        BY DEF Leans, c, o
    <2>2. Sign(s) * st.h_diff[n] = h1[Kid(st, s, n)] - h1[Kid(st, o, n)]
        BY <2>1, <1>2, <1>13, <1>14
    <2>. QED BY <2>2, <1>1, <1>6, <1>10, <1>15, ExactSide DEF Leans, o
<1>17. Sign(s) * st.h_diff[m] \in {1, 2}
    <2>1. Sign(s) * st.h_diff[m] = h1[Kid(st, s, m)] - h1[Kid(st, o, m)]
        BY <1>16 DEF Exact, o
    <2>. QED BY <2>1, <1>2, <1>13, <1>15
<1>18. n \in down[st.head] /\ Kid(st, s, n) # Nil
    BY <1>6, <1>9, <1>14
<1>19. /\ Heights(g) /\ g[n] = Sunk(st, h1, n, s) /\ g[m] = Raised(st, h1, n, s)
       /\ Exact(u, g, n, s) /\ Exact(u, g, m, s) /\ Kid(u, o, m) = n
       /\ g[Kid(u, s, n)] = h1[Kid(st, o, m)] /\ g[Kid(u, o, n)] = h1[Kid(st, o, n)]
       /\ g[Kid(u, s, m)] = h1[Kid(st, s, m)]
    <2>. DEFINE i == Kid(st, s, n)
    <2>1. i = m
        BY <1>14
    <2>2. Exact(st, h1, i, s)
        BY <2>1, <1>16
    <2>3. /\ Heights(g) /\ g[n] = Sunk(st, h1, n, s) /\ g[i] = Raised(st, h1, n, s)
          /\ Exact(u, g, n, s) /\ Exact(u, g, i, s) /\ Kid(u, Opposite(s), i) = n
          /\ g[Kid(u, s, n)] = h1[Kid(st, Opposite(s), i)]
          /\ g[Kid(u, Opposite(s), n)] = h1[Kid(st, Opposite(s), n)]
          /\ g[Kid(u, s, i)] = h1[Kid(st, s, i)]
        BY <2>2, <1>9, <1>10, <1>16, <1>18, RotateLevels
    <2>. HIDE DEF i, u, g
    <2>. QED BY <2>1, <2>3 DEF o
<1>20. /\ \A x \in Nodes : x # n /\ x # m /\ (\A r \in Side : Kid(st, r, x) # n)
                          => Same(st, u, h1, g, x)
       /\ PlaceTaken(st, u, h1, g, n, m)
    BY <1>9, <1>10, <1>14, <1>16, <1>18, RotateAround
<1>21. u \in Trees
    <2>1. WellFormed(u, BelowRotated(st, down, n, s))
        BY <1>9, <1>18, RotateShape
    <2>. QED BY <2>1 DEF WellFormed
<1>22. g[n] = k + 1 /\ g[m] = k + 2
    <2>1. Sunk(st, h1, n, s) = 1 + Larger(mo, k)
        BY <1>14, <1>15 DEF Sunk, o
    <2>2. Raised(st, h1, n, s) = 1 + Larger(h1[c], Sunk(st, h1, n, s))
        BY <1>14, <1>15 DEF Raised
    <2>. HIDE DEF k, g
    <2>. QED BY <2>1, <2>2, <1>2, <1>13, <1>19 DEF Larger
<1>. HIDE DEF u, g, k
<1>23. Level(u, g, n) /\ Level(u, g, m)
    <2>1. g[Kid(u, s, n)] - g[Kid(u, o, n)] \in -1..1
        BY <1>2, <1>13, <1>14, <1>15, <1>19
    <2>2. g[Kid(u, s, m)] - g[Kid(u, o, m)] \in -1..1
        BY <1>2, <1>13, <1>15, <1>19, <1>22
    <2>. QED BY <2>1, <2>2, <1>1, <1>6, <1>19, <1>21, LevelExact DEF o
<1>24. \A y \in below[c], r \in Side : Kid(t, r, y) # n
    <2>1. ASSUME NEW y \in below[c], NEW r \in Side, Kid(t, r, y) = n PROVE FALSE
        <3>1. y \in Nodes /\ below[y] \subseteq below[c]
            BY <1>1, <1>2, BelowNested, NilIsNoNode
        <3>2. n \in below[n] /\ below[n] \subseteq below[y]
            BY <3>1, <2>1, <1>1, ShapeAt
        <3>. QED BY <3>1, <3>2, <1>3
    <2>. QED BY <2>1
<1>25. c \in below[c] /\ m \in below[c]
    <2>1. c \in below[c] /\ m \in below[m] /\ below[m] \subseteq below[c]
        BY <1>1, <1>2, <1>6, ShapeAt DEF m
    <2>. QED BY <2>1
<1>26. Level(u, g, c)
    <2>1. h1[Kid(st, o, c)] - h1[Kid(st, s, c)] \in -1..1
        BY <1>2, <1>5, <1>13, <1>15
    <2>2. Level(st, h1, c)
        BY <2>1, <1>1, <1>2, <1>10, <1>15, LevelExact
    <2>3. \A r \in Side : Kid(st, r, c) # n
        <3>1. \A r \in Side, x \in Nodes :
                  Kid(st, r, x) = IF x = c /\ r = o THEN Kid(t, Opposite(o), m)
                                  ELSE IF x = m /\ r = Opposite(o) THEN c
                                  ELSE IF Kid(t, r, x) = c THEN m ELSE Kid(t, r, x)
            BY <1>1, <1>3, <1>6, RotateIs DEF st, m
        <3>. QED BY <3>1, <1>1, <1>2, <1>3, <1>24, <1>25
    <2>4. Same(st, u, h1, g, c)
        BY <2>3, <1>2, <1>3, <1>20
    <2>. QED BY <2>2, <2>4, SameLevel
<1>27. \A x \in Nodes, r \in Side : x # n => Kid(t, r, x) # c
    BY <1>1, <1>2, <1>3 DEF Linked
<1>28. ASSUME NEW x \in Nodes, \A r \in Side : Kid(t, r, x) # n PROVE Level(u, g, x)
    <2>1. CASE x = n \/ x = m \/ x = c
        BY <2>1, <1>23, <1>26
    <2>2. CASE x # n /\ x # m /\ x # c
        <3>1. Level(t, h, x) /\ Same(t, st, h, h1, x)
            BY <2>2, <1>11, <1>27 DEF Levels
        <3>2. \A r \in Side : Kid(st, r, x) # n
            BY <3>1, <1>28 DEF Same
        <3>3. Same(st, u, h1, g, x)
            BY <3>2, <2>2, <1>20
        <3>. QED BY <3>1, <3>3, SameLevel
    <2>. QED BY <2>1, <2>2
<1>29. ASSUME NEW p \in Nodes, NEW r \in Side, Kid(t, r, p) = n
       PROVE  /\ p # n /\ p # m /\ Kid(u, r, p) = m
              /\ Kid(u, Opposite(r), p) = Kid(t, Opposite(r), p)
              /\ g[Kid(u, Opposite(r), p)] = h[Kid(t, Opposite(r), p)]
              /\ g[p] = h[p] /\ u.h_diff[p] = t.h_diff[p]
    <2>1. p # n
        BY <1>29, <1>1, ShapeAt
    <2>2. p # c /\ p # m
        BY <1>24, <1>25, <1>29
    <2>3. Same(t, st, h, h1, p)
        BY <2>1, <2>2, <1>11, <1>27
    <2>4. Opposite(r) \in Side
        BY Sides
    <2>5. Kid(st, r, p) = n
        BY <2>3, <1>29 DEF Same
    <2>6. /\ Kid(u, r, p) = m /\ Kid(u, Opposite(r), p) = Kid(st, Opposite(r), p)
          /\ g[Kid(u, Opposite(r), p)] = h1[Kid(st, Opposite(r), p)]
          /\ g[p] = h1[p] /\ u.h_diff[p] = st.h_diff[p]
        BY <2>5, <1>20 DEF PlaceTaken
    <2>. QED BY <2>1, <2>2, <2>3, <2>4, <2>6 DEF Same
<1>30. Beside(t, u, h, g, n, m)
    <2>1. PlaceTaken(t, u, h, g, n, m)
        BY <1>29 DEF PlaceTaken
    <2>. QED BY <2>1, <1>19, <1>28 DEF Beside
<1>31. Sign(s) * u.h_diff[m] = 0
    <2>1. Sign(s) * u.h_diff[m] = g[Kid(u, s, m)] - g[Kid(u, o, m)]
        BY <1>19 DEF Exact, o
    <2>. QED BY <2>1, <1>2, <1>13, <1>15, <1>19, <1>22
<1>. QED BY <1>2, <1>6, <1>14, <1>17, <1>22, <1>30, <1>31 DEF u, g, st, h1, m, c, o, k

-------------------------------------------------------------------------------
(* The calls *)

(* n is the first node of the tree.                                        *)
Leftmost(t, below, n) ==
    /\ n \in below[t.head] /\ Kid(t, Left, n) = Nil
    /\ \A a \in Nodes : n \in below[a] => a = n \/ n \in below[Kid(t, Left, a)]

Running(t, below, p, l) ==
    \/ p = "idle" /\ l = NoLoop /\ \E h : Heights(h) /\ Levels(t, h, Nil)
    \/ /\ p = "rebalance" /\ l \in [node : Nodes, side : Side, rem : BOOLEAN]
       /\ l.node \in below[t.head]
       /\ \E h : /\ Heights(h) /\ Levels(t, h, l.node)
                 /\ Pending(t, h, l.node, l.side, l.rem)
    \/ /\ p = "consume" /\ l \in [node : Nodes, side : Side, rem : BOOLEAN]
       /\ Leftmost(t, below, l.node)
       /\ \A n \in Nodes : t.h_diff[n] \in -1..1

LEMMA RunningDone ==
    ASSUME NEW u, NEW down, NEW h, Heights(h), Levels(u, h, Nil), Return
    PROVE  Running(u, down, pc', loop')
BY DEF Running, Return

LEMMA RunningOn ==
    ASSUME NEW u, NEW down, NEW n \in Nodes, n \in down[u.head], NEW s \in Side,
           NEW rem \in BOOLEAN, NEW h, Heights(h), Levels(u, h, n), Pending(u, h, n, s, rem),
           StartRebalance(n, s, rem)
    PROVE  Running(u, down, pc', loop')
<1>1. pc' = "rebalance" /\ loop' = [node |-> n, side |-> s, rem |-> rem]
    BY NilIsNoNode DEF StartRebalance
<1>2. loop' \in [node : Nodes, side : Side, rem : BOOLEAN]
    BY <1>1
<1>3. loop'.node = n /\ loop'.side = s /\ loop'.rem = rem
    BY <1>1
<1>. QED BY <1>1, <1>2, <1>3 DEF Running

(* What an iteration leaves, for the next one.                             *)
LEMMA ClimbRuns ==
    ASSUME NEW below, WellFormed(tree, below), loop.node \in below[tree.head],
           loop.rem \in BOOLEAN, NEW h, Heights(h), Levels(tree, h, loop.node),
           NEW u \in Trees, NEW top, NEW g, Beside(tree, u, h, g, loop.node, top),
           NEW down, down[u.head] = below[tree.head],
           \/ Return /\ g[top] = h[loop.node]
           \/ Climb /\ ~loop.rem /\ g[top] = h[loop.node] + 1
           \/ Climb /\ loop.rem /\ g[top] = h[loop.node] - 1
    PROVE  Running(u, down, pc', loop')
<1>. DEFINE n == loop.node
            p == tree.parent[n]
            r == parent_ptr(tree, n).side
<1>1. /\ tree \in Trees /\ n \in Nodes /\ Shape(tree, below) /\ Linked(tree)
    BY BelowNested DEF WellFormed, Trees
<1>2. /\ r \in Side /\ p \in Pointer /\ (p # Nil => p \in below[tree.head])
      /\ \A s \in Side, x \in Nodes : Kid(tree, s, x) = n <=> x = p /\ s = r
    BY ParentSlot
<1>. HIDE DEF r
<1>3. /\ Heights(g) /\ PlaceTaken(tree, u, h, g, n, top)
      /\ \A x \in Nodes : (\A s \in Side : Kid(tree, s, x) # n) => Level(u, g, x)
    BY DEF Beside
<1>4. Levels(u, g, p)
    BY <1>2, <1>3 DEF Levels
<1>5. CASE p = Nil
    <2>1. Return
        BY <1>5 DEF Climb, StartRebalance
    <2>. QED BY <2>1, <1>3, <1>4, <1>5, RunningDone
<1>6. CASE p # Nil
    <2>1. p \in Nodes /\ Kid(tree, r, p) = n /\ Opposite(r) \in Side
        BY <1>2, <1>6, Sides DEF Pointer
    <2>2. /\ p # n /\ Kid(u, r, p) = top /\ Kid(u, Opposite(r), p) = Kid(tree, Opposite(r), p)
          /\ g[Kid(u, Opposite(r), p)] = h[Kid(tree, Opposite(r), p)]
          /\ g[p] = h[p] /\ u.h_diff[p] = tree.h_diff[p]
        BY <2>1, <1>2, <1>3 DEF PlaceTaken
    <2>3. LevelWith(tree, h, p, r, h[n])
        <3>1. Level(tree, h, p)
            BY <2>1, <2>2 DEF Levels
        <3>. HIDE DEF p, n
        <3>. QED BY <3>1, <2>1, <1>1, <1>2, LevelSide
    <2>4. LevelWith(u, g, p, r, h[n])
        BY <2>2, <2>3 DEF LevelWith
    <2>5. h[n] \in Nat
        BY <1>1, NilIsNoNode DEF Heights
    <2>. HIDE DEF n, p
    <2>6. /\ g[top] = h[n] => Level(u, g, p)
          /\ g[top] = h[n] + 1 => Pending(u, g, p, r, FALSE)
          /\ g[top] = h[n] - 1 => Pending(u, g, p, Opposite(r), TRUE)
        BY <2>1, <2>2, <2>4, <2>5, <1>2, <1>3, NextPending
    <2>7. CASE Return /\ g[top] = h[n]
        <3>1. Levels(u, g, Nil)
            BY <2>6, <2>7, <1>4 DEF Levels
        <3>. QED BY <3>1, <2>7, <1>3, RunningDone
    <2>8. NextSide = IF loop.rem THEN Opposite(r) ELSE r
        <3>1. IsRight <=> r = Right
            BY <2>1, <1>2, NilIsNoNode DEF IsRight, n, p, Side
        <3>. QED BY <3>1, <1>2 DEF NextSide, Opposite, Side, Left, Right
    <2>9. CASE Climb /\ ~loop.rem /\ g[top] = h[n] + 1
        <3>1. StartRebalance(p, r, FALSE)
            BY <2>8, <2>9 DEF Climb, p, n
        <3>. QED BY <3>1, <2>1, <2>6, <2>9, <1>2, <1>3, <1>4, <1>6, RunningOn
    <2>10. CASE Climb /\ loop.rem /\ g[top] = h[n] - 1
        <3>1. StartRebalance(p, Opposite(r), TRUE)
            BY <2>8, <2>10 DEF Climb, p, n
        <3>. QED BY <3>1, <2>1, <2>6, <2>10, <1>2, <1>3, <1>4, <1>6, RunningOn
    <2>. QED BY <2>7, <2>9, <2>10 DEF n
<1>. QED BY <1>5, <1>6

LEMMA CountedIs ==
    ASSUME NEW below, WellFormed(tree, below), loop.node \in below[tree.head], loop.side \in Side
    PROVE  /\ WellFormed(Counted, below) /\ Counted.head = tree.head
           /\ \A s \in Side, x \in Nodes : Kid(Counted, s, x) = Kid(tree, s, x)
           /\ \A x \in Nodes :
                 /\ Counted.parent[x] = tree.parent[x]
                 /\ Counted.h_diff[x] = IF x = loop.node THEN Sign(loop.side) * Diff
                                        ELSE tree.h_diff[x]
           /\ Diff = Sign(loop.side) * tree.h_diff[loop.node] + 1 /\ Diff \in Int
           /\ \A keys : Ordered(tree, below, keys) => Ordered(Counted, below, keys)
<1>. DEFINE n == loop.node
            d == Sign(loop.side) * Diff
<1>1. /\ tree \in Trees /\ n \in Nodes /\ Shape(tree, below) /\ Linked(tree) /\ Apart(tree, below)
      /\ Sign(loop.side) \in {-1, 1}
    BY BelowNested, Sides DEF WellFormed, Trees
<1>2. Diff = Sign(loop.side) * tree.h_diff[n] + 1 /\ tree.h_diff[n] \in Int
    BY <1>1 DEF Diff, Trees
<1>. HIDE DEF n
<1>3. Diff \in Int /\ d \in Int
    BY <1>1, <1>2
<1>4. Counted = [tree EXCEPT !.h_diff[n] = d]
    BY DEF Counted, n
<1>. HIDE DEF d
<1>5. /\ Counted.kid = tree.kid /\ Counted.parent = tree.parent /\ Counted.root = tree.root
      /\ Counted.head = tree.head /\ Counted.h_diff = [tree.h_diff EXCEPT ![n] = d]
      /\ Counted = [kid |-> Counted.kid, parent |-> Counted.parent, root |-> Counted.root,
                    h_diff |-> Counted.h_diff, head |-> Counted.head]
    BY <1>1, <1>4 DEF Trees
<1>6. /\ tree.kid \in [Side -> [Nodes -> Pointer]] /\ tree.parent \in [Nodes -> Pointer]
      /\ tree.root \in [Nodes -> BOOLEAN] /\ tree.h_diff \in [Nodes -> Int]
      /\ tree.head \in Pointer
    BY <1>1 DEF Trees
<1>7. Counted.h_diff \in [Nodes -> Int]
    BY <1>3, <1>5, <1>6
<1>8. Counted \in Trees
    BY <1>5, <1>6, <1>7 DEF Trees
<1>9. \A x \in Nodes : Counted.h_diff[x] = IF x = n THEN d ELSE tree.h_diff[x]
    BY <1>5, <1>6
<1>10. \A s \in Side, x \in Nodes : Kid(Counted, s, x) = Kid(tree, s, x)
    BY <1>5 DEF Kid
<1>11. Shape(Counted, below)
    BY <1>1, <1>10, Sides DEF Shape
<1>12. Linked(Counted)
    <2>1. \A x \in Nodes : Counted.parent[x] # Nil =>
              \E s \in Side : Kid(Counted, s, Counted.parent[x]) = x
        <3>1. ASSUME NEW x \in Nodes, Counted.parent[x] # Nil
              PROVE  \E s \in Side : Kid(Counted, s, Counted.parent[x]) = x
            <4>1. tree.parent[x] \in Nodes
                BY <3>1, <1>5, <1>6 DEF Pointer
            <4>2. PICK s \in Side : Kid(tree, s, tree.parent[x]) = x
                BY <3>1, <1>1, <1>5 DEF Linked
            <4>. QED BY <4>1, <4>2, <1>5, <1>10
        <3>. QED BY <3>1
    <2>. QED BY <2>1, <1>1, <1>5, <1>10 DEF Linked
<1>13. Apart(Counted, below)
    BY <1>1, <1>5, <1>9, <1>10 DEF Apart, n
<1>14. \A keys : Ordered(tree, below, keys) => Ordered(Counted, below, keys)
    <2>1. Left \in Side /\ Right \in Side
        BY DEF Side
    <2>. QED BY <2>1, <1>10 DEF Ordered
<1>15. WellFormed(Counted, below)
    BY <1>8, <1>11, <1>12, <1>13 DEF WellFormed
<1>. QED BY <1>2, <1>3, <1>5, <1>9, <1>10, <1>14, <1>15 DEF n, d

(* What holds of the tree between the steps.                               *)
Good(t, keys, p, l) ==
    \E below : WellFormed(t, below) /\ Ordered(t, below, keys) /\ Running(t, below, p, l)

LEMMA LeanKeeps ==
    ASSUME NEW below, WellFormed(tree, below), Ordered(tree, below, key),
           Running(tree, below, pc, loop), Lean
    PROVE  Good(tree', key', pc', loop')
<1>. DEFINE n == loop.node
            s == loop.side
            o == Opposite(s)
<1>1. pc = "rebalance" /\ Diff < 2 /\ tree' = Counted /\ key' = key
    BY DEF Lean
<1>2. n \in Nodes /\ s \in Side /\ loop.rem \in BOOLEAN /\ n \in below[tree.head]
    BY <1>1 DEF Running
<1>3. PICK h : Heights(h) /\ Levels(tree, h, n) /\ Pending(tree, h, n, s, loop.rem)
    BY <1>1 DEF Running
<1>. DEFINE k == h[Kid(tree, s, n)]
            j == h[Kid(tree, o, n)]
            g == [h EXCEPT ![n] = 1 + Larger(k, j)]
<1>4. /\ WellFormed(Counted, below) /\ Counted.head = tree.head
      /\ \A r \in Side, x \in Nodes : Kid(Counted, r, x) = Kid(tree, r, x)
      /\ \A x \in Nodes :
            /\ Counted.parent[x] = tree.parent[x]
            /\ Counted.h_diff[x] = IF x = n THEN Sign(s) * Diff ELSE tree.h_diff[x]
      /\ Diff = Sign(s) * tree.h_diff[n] + 1 /\ Diff \in Int
      /\ \A keys : Ordered(tree, below, keys) => Ordered(Counted, below, keys)
    BY <1>2, CountedIs
<1>5. /\ tree \in Trees /\ Counted \in Trees /\ Shape(tree, below) /\ Linked(tree)
      /\ o \in Side /\ Sign(s) \in {-1, 1}
    BY <1>2, <1>4, Sides DEF WellFormed
<1>6. k \in Nat /\ j \in Nat /\ tree.h_diff[n] \in -1..1 /\ Diff = k - j
      /\ h[n] = IF loop.rem THEN 1 + Larger(k, j + 1) ELSE 1 + Larger(k - 1, j)
    <2>1. Kid(tree, s, n) \in Pointer /\ Kid(tree, o, n) \in Pointer
        BY <1>2, <1>5, KidType
    <2>. QED BY <2>1, <1>3, <1>4 DEF Heights, Pending
<1>7. Diff = 0 \/ Diff = 1
    BY <1>1, <1>4, <1>5, <1>6
<1>8. Heights(g) /\ g[n] = 1 + Larger(k, j) /\ \A x \in Pointer : x # n => g[x] = h[x]
    <2>. HIDE DEF k, j, n
    <2>1. 1 + Larger(k, j) \in Nat
        BY <1>6 DEF Larger
    <2>. QED BY <2>1, <1>2, <1>3, NilIsNoNode DEF Heights
<1>. HIDE DEF g, k, j, n, s, o
<1>9. ASSUME NEW x \in Nodes, \A r \in Side : Kid(tree, r, x) # n PROVE Level(Counted, g, x)
    <2>1. \A r \in Side : g[Kid(Counted, r, x)] = h[Kid(tree, r, x)]
        BY <1>4, <1>5, <1>8, <1>9, KidType
    <2>2. CASE x = n
        <3>1. g[Kid(Counted, s, n)] = k /\ g[Kid(Counted, o, n)] = j
            BY <2>1, <2>2, <1>2, <1>5 DEF k, j
        <3>2. Sign(s) * Counted.h_diff[n] = k - j
            BY <1>2, <1>4, <1>5, <1>6
        <3>3. k - j \in -1..1
            BY <1>6, <1>7
        <3>. QED BY <3>1, <3>2, <3>3, <2>2, <1>2, <1>5, <1>8, LevelExact DEF Exact, o
    <2>3. CASE x # n
        <3>1. g[x] = h[x] /\ Counted.h_diff[x] = tree.h_diff[x] /\ Level(tree, h, x)
            BY <2>3, <1>3, <1>4, <1>8, NilIsNoNode DEF Levels
        <3>. QED BY <2>1, <3>1, LevelKept
    <2>. QED BY <2>2, <2>3
<1>10. ASSUME NEW p \in Nodes, NEW r \in Side, Kid(tree, r, p) = n
       PROVE  /\ p # n /\ Kid(Counted, r, p) = n
              /\ Kid(Counted, Opposite(r), p) = Kid(tree, Opposite(r), p)
              /\ g[Kid(Counted, Opposite(r), p)] = h[Kid(tree, Opposite(r), p)]
              /\ g[p] = h[p] /\ Counted.h_diff[p] = tree.h_diff[p]
    <2>1. p # n /\ Opposite(r) \in Side /\ Kid(tree, Opposite(r), p) \in Pointer
        BY <1>5, <1>10, ShapeAt, Sides
    <2>2. Kid(tree, Opposite(r), p) # n
        <3>1. n \in below[n]
            BY <1>2, <1>5, ShapeAt
        <3>. QED BY <3>1, <1>5, <1>10, ShapeAt
    <2>. QED BY <2>1, <2>2, <1>4, <1>8, <1>10, NilIsNoNode
<1>11. Beside(tree, Counted, h, g, n, n)
    <2>1. PlaceTaken(tree, Counted, h, g, n, n)
        BY <1>10 DEF PlaceTaken
    <2>. QED BY <2>1, <1>8, <1>9 DEF Beside
<1>12. \/ Return /\ g[n] = h[n]
       \/ Climb /\ ~loop.rem /\ g[n] = h[n] + 1
       \/ Climb /\ loop.rem /\ g[n] = h[n] - 1
    <2>1. CASE (Diff > 0 /\ ~loop.rem) \/ (Diff <= 0 /\ loop.rem)
        <3>1. Climb
            BY <2>1 DEF Lean
        <3>2. CASE loop.rem
            <4>1. Diff = 0
                BY <3>2, <2>1, <1>7
            <4>. QED BY <3>1, <3>2, <4>1, <1>6, <1>8 DEF Larger
        <3>3. CASE ~loop.rem
            <4>1. Diff = 1
                BY <3>3, <2>1, <1>7
            <4>. QED BY <3>1, <3>3, <4>1, <1>6, <1>8 DEF Larger
        <3>. QED BY <3>2, <3>3
    <2>2. CASE ~((Diff > 0 /\ ~loop.rem) \/ (Diff <= 0 /\ loop.rem))
        <3>1. Return
            BY <2>2 DEF Lean
        <3>2. CASE loop.rem
            <4>1. Diff = 1
                BY <3>2, <2>2, <1>7
            <4>. QED BY <3>1, <3>2, <4>1, <1>6, <1>8 DEF Larger
        <3>3. CASE ~loop.rem
            <4>1. Diff = 0
                BY <3>3, <2>2, <1>7
            <4>. QED BY <3>1, <3>3, <4>1, <1>6, <1>8 DEF Larger
        <3>. QED BY <3>2, <3>3
    <2>. QED BY <2>1, <2>2
<1>13. below[Counted.head] = below[tree.head]
    BY <1>4
<1>14. Running(Counted, below, pc', loop')
    BY <1>2, <1>3, <1>5, <1>11, <1>12, <1>13, ClimbRuns DEF n
<1>. QED BY <1>1, <1>4, <1>14 DEF Good

(* What a turn at n leaves, after one rotation or two.                     *)
StraightenedAt(t, n, s) ==
    IF t.h_diff[Kid(t, s, n)] = -Sign(s) THEN Rotate(t, Kid(t, s, n), Opposite(s)) ELSE t

TurnedTo(t, below, h, n, s, u, top) ==
    /\ \E g : /\ Beside(t, u, h, g, n, top)
              /\ \/ Sign(s) * u.h_diff[top] = -1 /\ g[top] = h[Kid(t, Opposite(s), n)] + 3
                 \/ Sign(s) * u.h_diff[top] = 0 /\ g[top] = h[Kid(t, Opposite(s), n)] + 2
    /\ \E down : /\ WellFormed(u, down) /\ down[u.head] = below[t.head]
                 /\ \A keys \in [Nodes -> Int] :
                       Ordered(t, below, keys) => Ordered(u, down, keys)

LEMMA TurnIs ==
    ASSUME NEW t, NEW below, WellFormed(t, below), NEW n \in below[t.head], NEW s \in Side,
           NEW h, Heights(h), Levels(t, h, n), Leans(t, h, n, s),
           h[Kid(t, s, n)] = h[Kid(t, Opposite(s), n)] + 2
    PROVE  LET c == Kid(t, s, n)
               st == StraightenedAt(t, n, s)
           IN /\ c # Nil
              /\ t.h_diff[c] = -Sign(s) =>
                    Kid(t, Opposite(s), c) # Nil /\ Sign(s) * st.h_diff[Kid(st, s, n)] \in {1, 2}
              /\ TurnedTo(t, below, h, n, s, Rotate(st, n, s), Kid(st, s, n))
<1>. DEFINE c == Kid(t, s, n)
<1>1. CASE t.h_diff[Kid(t, s, n)] = -Sign(s)
    <2>. DEFINE o == Opposite(s)
                m == Kid(t, o, c)
                st1 == Rotate(t, c, o)
                h1 == HeightsRotated(t, h, c, o)
                u == Rotate(st1, n, s)
                g == HeightsRotated(st1, h1, n, s)
    <2>1. /\ c # Nil /\ m # Nil /\ Kid(st1, s, n) = m
          /\ Sign(s) * st1.h_diff[m] \in {1, 2}
          /\ Beside(t, u, h, g, n, m)
          /\ Sign(s) * u.h_diff[m] = 0 /\ g[m] = h[Kid(t, Opposite(s), n)] + 2
        BY <1>1, DoubleTurn
    <2>2. StraightenedAt(t, n, s) = st1
        BY <1>1 DEF StraightenedAt
    <2>3. /\ c \in below[t.head] /\ o \in Side
        BY <2>1, Around, Sides
    <2>. HIDE DEF g, h1, o
    <2>4. \E down : /\ WellFormed(u, down) /\ down[u.head] = below[t.head]
                    /\ \A keys \in [Nodes -> Int] :
                          Ordered(t, below, keys) => Ordered(u, down, keys)
        <3>. HIDE DEF c
        <3>. DEFINE d1 == BelowRotated(t, below, c, o)
        <3>1. /\ WellFormed(st1, d1) /\ d1[st1.head] = below[t.head]
              /\ \A keys \in [Nodes -> Int] :
                    Ordered(t, below, keys) => Ordered(st1, d1, keys)
            BY <2>1, <2>3, RotateShape
        <3>. DEFINE d2 == BelowRotated(st1, d1, n, s)
        <3>. HIDE DEF d1, st1, m
        <3>2. /\ WellFormed(u, d2) /\ d2[u.head] = d1[st1.head]
              /\ \A keys \in [Nodes -> Int] :
                    Ordered(st1, d1, keys) => Ordered(u, d2, keys)
            <4>1. n \in d1[st1.head] /\ Kid(st1, s, n) # Nil
                BY <2>1, <3>1
            <4>. QED BY <3>1, <4>1, RotateShape
        <3>. HIDE DEF d2, u
        <3>. QED BY <3>1, <3>2
    <2>5. TurnedTo(t, below, h, n, s, u, m)
        BY <2>1, <2>4 DEF TurnedTo
    <2>6. TurnedTo(t, below, h, n, s, Rotate(st1, n, s), Kid(st1, s, n))
        BY <2>1, <2>5
    <2>. HIDE DEF st1
    <2>. QED BY <2>1, <2>2, <2>6 DEF o
<1>2. CASE t.h_diff[Kid(t, s, n)] # -Sign(s)
    <2>. DEFINE u == Rotate(t, n, s)
                g == HeightsRotated(t, h, n, s)
                d == BelowRotated(t, below, n, s)
    <2>1. /\ c # Nil /\ Beside(t, u, h, g, n, c)
          /\ \/ Sign(s) * u.h_diff[c] = -1 /\ g[c] = h[Kid(t, Opposite(s), n)] + 3
             \/ Sign(s) * u.h_diff[c] = 0 /\ g[c] = h[Kid(t, Opposite(s), n)] + 2
        BY <1>2, SingleTurn
    <2>2. StraightenedAt(t, n, s) = t
        BY <1>2 DEF StraightenedAt
    <2>3. /\ WellFormed(u, d) /\ d[u.head] = below[t.head]
          /\ \A keys \in [Nodes -> Int] : Ordered(t, below, keys) => Ordered(u, d, keys)
        BY <2>1, RotateShape
    <2>. HIDE DEF g, d
    <2>4. TurnedTo(t, below, h, n, s, u, c)
        BY <2>1, <2>3 DEF TurnedTo
    <2>. QED BY <2>1, <2>2, <2>4, <1>2
<1>. QED BY <1>1, <1>2

(* Where an iteration must rotate, the side it counts for is two higher.   *)
LEMMA TurnBegins ==
    ASSUME NEW below, WellFormed(tree, below), Running(tree, below, pc, loop),
           pc = "rebalance", Diff >= 2
    PROVE  LET n == loop.node
               s == loop.side
               o == Opposite(loop.side)
           IN /\ n \in Nodes /\ s \in Side /\ loop.rem \in BOOLEAN /\ n \in below[tree.head]
              /\ \E h : /\ Heights(h) /\ Levels(tree, h, n) /\ Levels(Counted, h, n)
                        /\ Leans(Counted, h, n, s) /\ h[Kid(tree, o, n)] \in Nat
                        /\ h[Kid(Counted, s, n)] = h[Kid(Counted, o, n)] + 2
                        /\ h[n] = IF loop.rem THEN h[Kid(tree, o, n)] + 3
                                              ELSE h[Kid(tree, o, n)] + 2
<1>. DEFINE n == loop.node
            s == loop.side
            o == Opposite(s)
<1>1. n \in Nodes /\ s \in Side /\ loop.rem \in BOOLEAN /\ n \in below[tree.head]
    BY DEF Running
<1>2. PICK h : Heights(h) /\ Levels(tree, h, n) /\ Pending(tree, h, n, s, loop.rem)
    BY DEF Running
<1>. DEFINE k == h[Kid(tree, s, n)]
            j == h[Kid(tree, o, n)]
<1>3. /\ WellFormed(Counted, below)
      /\ \A r \in Side, x \in Nodes : Kid(Counted, r, x) = Kid(tree, r, x)
      /\ \A x \in Nodes :
            /\ Counted.parent[x] = tree.parent[x]
            /\ Counted.h_diff[x] = IF x = n THEN Sign(s) * Diff ELSE tree.h_diff[x]
      /\ Diff = Sign(s) * tree.h_diff[n] + 1 /\ Diff \in Int
    BY <1>1, CountedIs
<1>4. /\ tree \in Trees /\ o \in Side /\ Sign(s) \in {-1, 1}
    BY <1>1, Sides DEF WellFormed
<1>5. k \in Nat /\ j \in Nat /\ tree.h_diff[n] \in -1..1 /\ Diff = k - j
      /\ h[n] = IF loop.rem THEN 1 + Larger(k, j + 1) ELSE 1 + Larger(k - 1, j)
    <2>1. Kid(tree, s, n) \in Pointer /\ Kid(tree, o, n) \in Pointer
        BY <1>1, <1>4, KidType
    <2>. QED BY <2>1, <1>2, <1>3 DEF Heights, Pending
<1>6. Levels(Counted, h, n)
    <2>1. ASSUME NEW x \in Nodes, x # n PROVE Level(Counted, h, x)
        <3>1. Level(tree, h, x) /\ Counted.h_diff[x] = tree.h_diff[x]
            BY <2>1, <1>2, <1>3 DEF Levels
        <3>2. \A r \in Side : h[Kid(Counted, r, x)] = h[Kid(tree, r, x)]
            BY <1>3
        <3>. QED BY <3>1, <3>2, LevelKept
    <2>. HIDE DEF n
    <2>. QED BY <2>1 DEF Levels
<1>7. h[Kid(Counted, s, n)] = k /\ h[Kid(Counted, o, n)] = j
    BY <1>1, <1>3, <1>4
<1>. HIDE DEF k, j, n, s, o
<1>8. Diff = 2
    BY <1>3, <1>4, <1>5
<1>9. k = j + 2
    BY <1>5, <1>8
<1>10. h[n] = IF loop.rem THEN j + 3 ELSE j + 2
    BY <1>5, <1>9 DEF Larger
<1>11. Sign(s) * Counted.h_diff[n] = k - j
    BY <1>1, <1>3, <1>4, <1>5
<1>12. Leans(Counted, h, n, s)
    BY <1>7, <1>11 DEF Leans, o
<1>. QED BY <1>1, <1>2, <1>5, <1>6, <1>7, <1>9, <1>10, <1>12 DEF n, s, o, k, j

LEMMA TurnLeaves ==
    ASSUME NEW below, WellFormed(tree, below), Running(tree, below, pc, loop),
           pc = "rebalance", Diff >= 2
    PROVE  /\ Followed /\ Asserted
           /\ \E h : /\ Heights(h) /\ Levels(tree, h, loop.node)
                     /\ h[Kid(tree, Opposite(loop.side), loop.node)] \in Nat
                     /\ h[loop.node] = IF loop.rem
                                       THEN h[Kid(tree, Opposite(loop.side), loop.node)] + 3
                                       ELSE h[Kid(tree, Opposite(loop.side), loop.node)] + 2
                     /\ TurnedTo(Counted, below, h, loop.node, loop.side,
                                 Rotate(Straightened, loop.node, loop.side),
                                 Kid(Straightened, loop.side, loop.node))
<1>. DEFINE n == loop.node
            s == loop.side
            o == Opposite(loop.side)
            c == Kid(Counted, s, n)
            st == StraightenedAt(Counted, n, s)
<1>1. n \in Nodes /\ s \in Side /\ loop.rem \in BOOLEAN /\ n \in below[tree.head]
    BY TurnBegins
<1>2. PICK h : /\ Heights(h) /\ Levels(tree, h, n) /\ Levels(Counted, h, n)
               /\ Leans(Counted, h, n, s) /\ h[Kid(tree, o, n)] \in Nat
               /\ h[Kid(Counted, s, n)] = h[Kid(Counted, o, n)] + 2
               /\ h[n] = IF loop.rem THEN h[Kid(tree, o, n)] + 3 ELSE h[Kid(tree, o, n)] + 2
    BY TurnBegins
<1>3. /\ WellFormed(Counted, below) /\ Counted.head = tree.head
      /\ \A r \in Side, x \in Nodes : Kid(Counted, r, x) = Kid(tree, r, x)
      /\ \A x \in Nodes :
            /\ Counted.parent[x] = tree.parent[x]
            /\ Counted.h_diff[x] = IF x = n THEN Sign(s) * Diff ELSE tree.h_diff[x]
    BY <1>1, CountedIs
<1>4. Straightened = st
    BY DEF Straightened, StraightenedAt
<1>5. n \in below[Counted.head]
    BY <1>1, <1>3
<1>. HIDE DEF n, s
<1>6. /\ c # Nil
      /\ Counted.h_diff[c] = -Sign(s) =>
            Kid(Counted, Opposite(s), c) # Nil /\ Sign(s) * st.h_diff[Kid(st, s, n)] \in {1, 2}
      /\ TurnedTo(Counted, below, h, n, s, Rotate(st, n, s), Kid(st, s, n))
    BY <1>1, <1>2, <1>3, <1>5, TurnIs DEF s
<1>7. c \in Nodes /\ n # c /\ c = Kid(tree, s, n) /\ Opposite(s) \in Side
    BY <1>1, <1>3, <1>5, <1>6, Around, Sides
<1>. HIDE DEF c, st
<1>8. Counted.h_diff[c] = tree.h_diff[c] /\ Kid(Counted, Opposite(s), c) = Kid(tree, Opposite(s), c)
    BY <1>3, <1>7
<1>9. Followed
    BY <1>6, <1>7, <1>8 DEF Followed, s, n
<1>10. Asserted
    BY <1>4, <1>6, <1>7, <1>8 DEF Asserted, s, n
<1>. QED BY <1>2, <1>4, <1>6, <1>9, <1>10 DEF n, s

LEMMA RunningSafe ==
    ASSUME NEW below, WellFormed(tree, below), Running(tree, below, pc, loop)
    PROVE  NeverDies
BY TurnLeaves DEF NeverDies

LEMMA TurnKeeps ==
    ASSUME NEW below, WellFormed(tree, below), Ordered(tree, below, key),
           key \in [Nodes -> Int], Running(tree, below, pc, loop), Turn
    PROVE  Good(tree', key', pc', loop')
<1>. DEFINE n == loop.node
            s == loop.side
            o == Opposite(loop.side)
            top == Kid(Straightened, s, n)
            u == Rotate(Straightened, n, s)
<1>1. pc = "rebalance" /\ Diff >= 2 /\ tree' = u /\ key' = key
    BY DEF Turn
<1>2. IF loop.rem # (Sign(s) * u.h_diff[top] = -1) THEN Climb ELSE Return
    BY DEF Turn
<1>3. n \in Nodes /\ s \in Side /\ loop.rem \in BOOLEAN /\ n \in below[tree.head]
    BY <1>1, TurnBegins
<1>4. PICK h : /\ Heights(h) /\ Levels(tree, h, n) /\ h[Kid(tree, o, n)] \in Nat
               /\ h[n] = IF loop.rem THEN h[Kid(tree, o, n)] + 3 ELSE h[Kid(tree, o, n)] + 2
               /\ TurnedTo(Counted, below, h, n, s, u, top)
    BY <1>1, TurnLeaves
<1>5. /\ WellFormed(Counted, below) /\ Counted.head = tree.head
      /\ \A r \in Side, x \in Nodes : Kid(Counted, r, x) = Kid(tree, r, x)
      /\ \A x \in Nodes :
            /\ Counted.parent[x] = tree.parent[x]
            /\ Counted.h_diff[x] = IF x = n THEN Sign(s) * Diff ELSE tree.h_diff[x]
      /\ Ordered(Counted, below, key)
    BY <1>3, CountedIs
<1>6. o \in Side
    BY <1>3, Sides
<1>. DEFINE j == h[Kid(tree, o, n)]
<1>7. j = h[Kid(Counted, Opposite(s), n)]
    BY <1>3, <1>5, <1>6
<1>. HIDE DEF n, s, u, top
<1>8. PICK g : /\ Beside(Counted, u, h, g, n, top)
               /\ \/ Sign(s) * u.h_diff[top] = -1 /\ g[top] = j + 3
                  \/ Sign(s) * u.h_diff[top] = 0 /\ g[top] = j + 2
    BY <1>4, <1>7 DEF TurnedTo
<1>9. PICK down : /\ WellFormed(u, down) /\ down[u.head] = below[tree.head]
                  /\ Ordered(u, down, key)
    BY <1>4, <1>5 DEF TurnedTo
<1>10. Beside(tree, u, h, g, n, top)
    <2>1. ASSUME NEW x \in Nodes, \A r \in Side : Kid(tree, r, x) # n PROVE Level(u, g, x)
        BY <2>1, <1>5, <1>8 DEF Beside
    <2>2. ASSUME NEW p \in Nodes, NEW r \in Side, Kid(tree, r, p) = n
          PROVE  /\ p # n /\ p # top /\ Kid(u, r, p) = top
                 /\ Kid(u, Opposite(r), p) = Kid(tree, Opposite(r), p)
                 /\ g[Kid(u, Opposite(r), p)] = h[Kid(tree, Opposite(r), p)]
                 /\ g[p] = h[p] /\ u.h_diff[p] = tree.h_diff[p]
        <3>1. PlaceTaken(Counted, u, h, g, n, top) /\ Kid(Counted, r, p) = n
            BY <2>2, <1>5, <1>8 DEF Beside
        <3>2. Opposite(r) \in Side
            BY Sides
        <3>3. Kid(Counted, Opposite(r), p) = Kid(tree, Opposite(r), p)
            BY <3>2, <1>5
        <3>4. /\ p # n /\ p # top /\ Kid(u, r, p) = top
              /\ Kid(u, Opposite(r), p) = Kid(Counted, Opposite(r), p)
              /\ g[Kid(u, Opposite(r), p)] = h[Kid(Counted, Opposite(r), p)]
              /\ g[p] = h[p] /\ u.h_diff[p] = Counted.h_diff[p]
            BY <3>1 DEF PlaceTaken
        <3>. QED BY <3>3, <3>4, <1>5
    <2>. QED BY <2>1, <2>2, <1>8 DEF Beside, PlaceTaken
<1>. HIDE DEF j, o
<1>11. j \in Nat /\ h[n] = IF loop.rem THEN j + 3 ELSE j + 2
    BY <1>4 DEF j
<1>12. \/ Return /\ g[top] = h[n]
       \/ Climb /\ ~loop.rem /\ g[top] = h[n] + 1
       \/ Climb /\ loop.rem /\ g[top] = h[n] - 1
    <2>1. CASE Sign(s) * u.h_diff[top] = -1 /\ g[top] = j + 3
        <3>1. CASE loop.rem = TRUE
            <4>1. Return
                BY <3>1, <2>1, <1>2
            <4>. QED BY <4>1, <3>1, <2>1, <1>11
        <3>2. CASE loop.rem = FALSE
            <4>1. Climb
                BY <3>2, <2>1, <1>2
            <4>. QED BY <4>1, <3>2, <2>1, <1>11
        <3>. QED BY <3>1, <3>2, <1>3
    <2>2. CASE Sign(s) * u.h_diff[top] = 0 /\ g[top] = j + 2
        <3>0. (Sign(s) * u.h_diff[top] = -1) = FALSE
            BY <2>2
        <3>1. CASE loop.rem = TRUE
            <4>1. Climb
                BY <3>0, <3>1, <1>2
            <4>. QED BY <4>1, <3>1, <2>2, <1>11
        <3>2. CASE loop.rem = FALSE
            <4>1. Return
                BY <3>0, <3>2, <1>2
            <4>. QED BY <4>1, <3>2, <2>2, <1>11
        <3>. QED BY <3>1, <3>2, <1>3
    <2>. QED BY <2>1, <2>2, <1>8
<1>13. u \in Trees
    BY <1>9 DEF WellFormed
<1>14. Running(u, down, pc', loop')
    BY <1>3, <1>4, <1>9, <1>10, <1>12, <1>13, ClimbRuns DEF n
<1>. QED BY <1>1, <1>9, <1>14 DEF Good

LEMMA InsertKeeps ==
    ASSUME NEW below, WellFormed(tree, below), Ordered(tree, below, key),
           key \in [Nodes -> Int], Running(tree, below, pc, loop),
           NEW n \in Nodes, Insert(n)
    PROVE  Good(tree', key', pc', loop')
<1>1. /\ pc = "idle" /\ n \notin Owned(tree) /\ Attach(Fresh(tree, n), n) /\ key' = key
    BY DEF Insert
<1>2. n \in Nodes \ below[tree.head]
    BY <1>1, OwnedBelow
<1>3. Fresh(tree, n) = tree
    BY <1>2, FreshApart
<1>4. Attach(tree, n)
    BY <1>1, <1>3
<1>5. PICK h : Heights(h) /\ Levels(tree, h, Nil)
    BY <1>1 DEF Running
<1>6. tree \in Trees /\ Shape(tree, below) /\ Linked(tree)
    BY DEF WellFormed
<1>7. CASE tree.head = Nil
    <2>. DEFINE u == [tree EXCEPT !.head = n, !.root[n] = TRUE, !.parent[n] = Nil]
                down == With(below, n, Nil)
    <2>1. tree' = u /\ Return
        BY <1>4, <1>7 DEF Attach
    <2>2. AddedTo(tree, u, n, Nil, Left)
        BY <1>2, FirstAdded
    <2>. HIDE DEF u
    <2>3. WellFormed(u, down)
        BY <2>2, <1>2, <1>7, NilIsNoNode, AddedShape DEF Side
    <2>4. Ordered(u, down, key)
        BY <2>2, <1>2, <1>7, NilIsNoNode, AddedOrder DEF Side
    <2>5. Levels(u, h, Nil)
        BY <2>2, <1>2, <1>5, NilIsNoNode, AddedLevels DEF Side
    <2>. HIDE DEF down
    <2>6. Running(u, down, pc', loop')
        BY <2>1, <2>5, <1>5, RunningDone
    <2>. QED BY <2>1, <2>3, <2>4, <2>6, <1>1 DEF Good
<1>8. CASE tree.head # Nil
    <2>. DEFINE p == Place(tree, n)
                m == p.of
                s == p.side
                u == [Put(tree, Slot(m, s), n) EXCEPT !.root[n] = FALSE, !.parent[n] = m]
                down == With(below, n, m)
    <2>1. tree.head \in Nodes
        BY <1>6, <1>8 DEF Trees, Pointer
    <2>2. /\ m \in below[tree.head] /\ s \in Side /\ p = Slot(m, s)
          /\ Kid(tree, s, m) = Nil
          /\ Allowed(tree, below, tree.head, key[n], m)
          /\ s = Left => key[n] <= key[m]
          /\ s = Right => key[m] <= key[n]
        BY <2>1, <1>6, PlaceIs
    <2>. HIDE DEF p
    <2>3. tree' = u /\ StartRebalance(m, s, FALSE)
        <3>1. tree' = [Put(tree, p, n) EXCEPT !.root[n] = FALSE, !.parent[n] = p.of]
            BY <1>4, <1>8 DEF Attach, p
        <3>2. StartRebalance(p.of, p.side, FALSE)
            BY <1>4, <1>8 DEF Attach, p
        <3>. QED BY <3>1, <3>2, <2>2
    <2>. HIDE DEF m, s
    <2>4. m \in Nodes /\ m \in Pointer /\ m # Nil
        BY <2>1, <2>2, <1>6, BelowNested, NilIsNoNode
    <2>5. AddedTo(tree, u, n, m, s)
        BY <2>2, <2>4, <1>2, NextAdded
    <2>. HIDE DEF u
    <2>6. WellFormed(u, down) /\ down[u.head] = below[tree.head] \cup {n}
        BY <2>2, <2>4, <2>5, <1>2, AddedShape
    <2>7. Ordered(u, down, key)
        BY <2>2, <2>4, <2>5, <1>2, AddedOrder
    <2>8. Levels(u, h, m) /\ Pending(u, h, m, s, FALSE)
        BY <2>2, <2>4, <2>5, <1>2, <1>5, AddedLevels
    <2>. HIDE DEF down
    <2>9. Running(u, down, pc', loop')
        BY <2>2, <2>3, <2>4, <2>6, <2>8, <1>5, RunningOn
    <2>. QED BY <2>3, <2>6, <2>7, <2>9, <1>1 DEF Good
<1>. QED BY <1>7, <1>8

(* A removal starts the loop at the parent of the place that is gone.      *)
LEMMA RemovedRuns ==
    ASSUME NEW t, NEW below, WellFormed(t, below), NEW n \in below[t.head], NEW s \in Side,
           Kid(t, Opposite(s), n) = Nil, NEW u, RemovedTo(t, u, n, s),
           NEW h, Heights(h), Levels(t, h, Nil),
           StartRebalance(t.parent[n], Opposite(parent_ptr(t, n).side), TRUE)
    PROVE  Running(u, Without(below, n), pc', loop')
<1>. DEFINE g == [h EXCEPT ![n] = 1]
            down == Without(below, n)
            p == t.parent[n]
            r == parent_ptr(t, n).side
<1>1. down[u.head] = below[t.head] \ {n}
    BY RemovedShape
<1>2. /\ Heights(g)
      /\ p = Nil => Levels(u, g, Nil)
      /\ \A q \in Nodes, a \in Side : Kid(t, a, q) = n =>
            Levels(u, g, q) /\ Pending(u, g, q, Opposite(a), TRUE)
    BY RemovedLevels
<1>3. /\ r \in Side /\ (p # Nil => p \in below[t.head])
      /\ \A a \in Side, x \in Nodes : Kid(t, a, x) = n <=> x = p /\ a = r
    BY ParentSlot
<1>4. t \in Trees /\ Shape(t, below) /\ t.head \in Pointer
    BY DEF WellFormed, Trees
<1>. HIDE DEF g, down, r, p
<1>5. StartRebalance(p, Opposite(r), TRUE)
    BY DEF p, r
<1>6. CASE p = Nil
    <2>1. Return
        BY <1>5, <1>6 DEF StartRebalance
    <2>2. Running(u, down, pc', loop')
        BY <2>1, <1>2, <1>6, RunningDone
    <2>. QED BY <2>2 DEF down
<1>7. CASE p # Nil
    <2>1. p \in Nodes /\ n \in Nodes /\ Opposite(r) \in Side
        BY <1>3, <1>4, <1>7, BelowNested, Sides
    <2>2. Kid(t, r, p) = n
        BY <2>1, <1>3
    <2>3. p # n
        BY <2>1, <2>2, <1>3, <1>4, ShapeAt
    <2>4. Levels(u, g, p) /\ Pending(u, g, p, Opposite(r), TRUE)
        BY <2>1, <2>2, <1>2, <1>3
    <2>5. p \in down[u.head]
        BY <2>3, <1>1, <1>3, <1>7
    <2>6. Running(u, down, pc', loop')
        BY <2>1, <2>4, <2>5, <1>2, <1>5, RunningOn
    <2>. QED BY <2>6 DEF down
<1>. QED BY <1>6, <1>7

LEMMA RemoveKeeps ==
    ASSUME NEW below, WellFormed(tree, below), Ordered(tree, below, key),
           key \in [Nodes -> Int], Running(tree, below, pc, loop),
           NEW n \in Nodes, Remove(n)
    PROVE  Good(tree', key', pc', loop')
<1>1. /\ pc = "idle" /\ n \in Owned(tree) /\ key' = key
    BY DEF Remove
<1>2. n \in below[tree.head]
    BY <1>1, OwnedBelow
<1>3. PICK h : Heights(h) /\ Levels(tree, h, Nil)
    BY <1>1 DEF Running
<1>4. tree \in Trees /\ Shape(tree, below) /\ Linked(tree)
    BY DEF WellFormed
<1>5. CASE \A s \in Side : Kid(tree, s, n) # Nil
    <2>. DEFINE m == Successor(tree, n)
                q == tree.parent[m]
                f == Swap(n, m)
                e == Relabelled(tree, f)
                u == Fresh(Replace(tree, n), n)
                low == BelowSwapped(below, f)
                down == Without(low, n)
                g == [x \in Pointer |-> h[f[x]]]
    <2>1. /\ tree' = u
          /\ IsLeftChild(tree, n) => StartRebalance(q, Right, TRUE)
          /\ ~IsLeftChild(tree, n) => StartRebalance(m, Left, TRUE)
        BY <1>5 DEF Remove
    <2>2. /\ m \in Nodes /\ m \in below[tree.head] /\ m # n
          /\ m \in below[Kid(tree, Right, n)] /\ Kid(tree, Left, m) = Nil
          /\ m \notin below[Kid(tree, Left, n)]
          /\ IsLeftChild(tree, n) <=> q # n
          /\ q \in Nodes
          /\ q # n => /\ q \in below[Kid(tree, Right, n)] /\ q \in below[tree.head]
                      /\ Kid(tree, Left, q) = m /\ Kid(tree, Right, q) # m
          /\ q = n => Kid(tree, Right, n) = m
        BY <1>2, <1>5, SuccessorIs
    <2>3. RemovedTo(e, u, n, Right) /\ Kid(e, Left, n) = Nil
        BY <1>2, <1>5, ReplaceIs
    <2>4. /\ WellFormed(u, down) /\ down[u.head] = below[tree.head] \ {n}
          /\ \A keys \in [Nodes -> Int] :
                Ordered(tree, below, keys) => Ordered(u, down, keys)
        BY <1>2, <1>5, ReplaceShape
    <2>. HIDE DEF m, u
    <2>5. /\ WellFormed(e, low) /\ low[e.head] = below[tree.head]
        BY <1>2, <2>2, RelabelledShape
    <2>6. Heights(g) /\ Levels(e, g, Nil)
        BY <2>2, <1>3, <1>4, RelabelledLevels
    <2>7. /\ \A s \in Side, x \in Nodes : Kid(e, s, x) = f[Kid(tree, s, f[x])]
          /\ e.parent[n] = f[tree.parent[f[n]]]
        BY <2>2, <1>4, RelabelledIs
    <2>8. /\ f[n] = m /\ f[m] = n /\ \A x \in Pointer : x # n /\ x # m => f[x] = x
        BY <2>2, SwapIs
    <2>9. q # m
        <3>1. ~(\E s \in Side : Kid(tree, s, m) = m)
            BY <2>2, <1>4, ShapeAt
        <3>. QED BY <3>1, <2>2, <1>4, NilIsNoNode DEF Linked
    <2>. HIDE DEF f, e, g, low, q
    <2>10. /\ n \in low[e.head]
           /\ \A a \in Side, x \in Nodes :
                 Kid(e, a, x) = n => x = e.parent[n] /\ a = parent_ptr(e, n).side
        <3>1. n \in low[e.head]
            BY <1>2, <2>5
        <3>. QED BY <3>1, <2>5, ParentSlot
    <2>11. Left \in Side /\ Right \in Side /\ Opposite(Left) = Right /\ Opposite(Right) = Left
        BY DEF Side, Opposite, Left, Right
    <2>12. StartRebalance(e.parent[n], Opposite(parent_ptr(e, n).side), TRUE)
        <3>1. CASE q # n
            <4>1. f[q] = q
                BY <3>1, <2>2, <2>8, <2>9, NilIsNoNode
            <4>2. Kid(e, Left, q) = n
                BY <4>1, <3>1, <2>2, <2>7, <2>8, <2>11
            <4>3. e.parent[n] = q /\ parent_ptr(e, n).side = Left
                BY <4>2, <2>2, <2>10, <2>11
            <4>. QED BY <4>3, <3>1, <2>1, <2>2, <2>11
        <3>2. CASE q = n
            <4>1. Kid(e, Right, m) = n
                BY <3>2, <2>2, <2>7, <2>8, <2>11
            <4>2. e.parent[n] = m /\ parent_ptr(e, n).side = Right
                BY <4>1, <2>2, <2>10, <2>11
            <4>. QED BY <4>2, <3>2, <2>1, <2>2, <2>11
        <3>. QED BY <3>1, <3>2
    <2>13. Running(u, Without(low, n), pc', loop')
        BY <2>3, <2>5, <2>6, <2>10, <2>11, <2>12, RemovedRuns
    <2>. HIDE DEF down
    <2>. QED BY <2>1, <2>4, <2>13, <1>1 DEF Good, down
<1>6. CASE ~\A s \in Side : Kid(tree, s, n) # Nil
    <2>. DEFINE s == IF Kid(tree, Left, n) # Nil THEN Left ELSE Right
                u == Fresh(Splice(tree, n), n)
                down == Without(below, n)
    <2>1. /\ tree' = u
          /\ StartRebalance(tree.parent[n], Opposite(parent_ptr(tree, n).side), TRUE)
        BY <1>6 DEF Remove
    <2>2. s \in Side /\ Kid(tree, Opposite(s), n) = Nil
        BY <1>6 DEF Side, Opposite, Left, Right
    <2>3. RemovedTo(tree, u, n, s)
        BY <2>2, <1>2, SpliceIs
    <2>. HIDE DEF s, u
    <2>4. WellFormed(u, down)
        BY <2>2, <2>3, <1>2, RemovedShape
    <2>5. Ordered(u, down, key)
        BY <2>2, <2>3, <1>2, RemovedOrder
    <2>6. Running(u, down, pc', loop')
        BY <2>1, <2>2, <2>3, <1>2, <1>3, RemovedRuns
    <2>. HIDE DEF down
    <2>. QED BY <2>1, <2>4, <2>5, <2>6, <1>1 DEF Good
<1>. QED BY <1>5, <1>6

LEMMA SwapKeeps ==
    ASSUME NEW below, WellFormed(tree, below), Ordered(tree, below, key),
           key \in [Nodes -> Int], Running(tree, below, pc, loop),
           NEW a \in Nodes, NEW b \in Nodes, SwapPositions(a, b)
    PROVE  Good(tree', key', pc', loop') /\ key' \in [Nodes -> Int]
<1>. DEFINE f == Swap(a, b)
            u == Relabelled(tree, f)
            down == BelowSwapped(below, f)
            keys == Exchanged(key, a, b)
<1>1. /\ pc = "idle" /\ a # b /\ a \in Owned(tree) /\ b \in Owned(tree)
      /\ tree' = Swapped(tree, a, b) /\ key' = keys /\ pc' = pc /\ loop' = loop
    BY DEF SwapPositions
<1>2. a \in below[tree.head] /\ b \in below[tree.head]
    BY <1>1, OwnedBelow
<1>3. PICK h : Heights(h) /\ Levels(tree, h, Nil)
    BY <1>1 DEF Running
<1>4. tree \in Trees
    BY DEF WellFormed
<1>5. tree' = u
    BY <1>1, <1>2, SwappedIs
<1>6. /\ WellFormed(u, down) /\ down[u.head] = below[tree.head]
      /\ \A x \in Nodes, s \in Side :
            down[Kid(u, s, x)] = {y \in Nodes : f[y] \in below[Kid(tree, s, f[x])]}
    BY <1>2, RelabelledShape
<1>. DEFINE g == [x \in Pointer |-> h[f[x]]]
<1>7. Heights(g) /\ Levels(u, g, Nil)
    BY <1>3, <1>4, RelabelledLevels
<1>8. /\ f[a] = b /\ f[b] = a /\ \A x \in Nodes : f[x] \in Nodes
      /\ \A x \in Pointer : x # a /\ x # b => f[x] = x
    BY SwapIs
<1>. HIDE DEF f, u, down, g
<1>9. keys \in [Nodes -> Int] /\ \A x \in Nodes : keys[x] = key[f[x]]
    BY <1>1, <1>8, NilIsNoNode DEF Exchanged
<1>. HIDE DEF keys
<1>10. Ordered(u, down, keys)
    <2>1. ASSUME NEW n \in Nodes, NEW x \in down[Kid(u, Left, n)] PROVE keys[x] <= keys[n]
        <3>1. Left \in Side
            BY DEF Side
        <3>2. x \in Nodes /\ f[x] \in below[Kid(tree, Left, f[n])] /\ f[n] \in Nodes
            BY <2>1, <3>1, <1>6, <1>8
        <3>. QED BY <3>2, <1>9 DEF Ordered
    <2>2. ASSUME NEW n \in Nodes, NEW x \in down[Kid(u, Right, n)] PROVE keys[n] <= keys[x]
        <3>1. Right \in Side
            BY DEF Side
        <3>2. x \in Nodes /\ f[x] \in below[Kid(tree, Right, f[n])] /\ f[n] \in Nodes
            BY <2>2, <3>1, <1>6, <1>8
        <3>. QED BY <3>2, <1>9 DEF Ordered
    <2>. QED BY <2>1, <2>2 DEF Ordered
<1>11. Running(u, down, pc', loop')
    BY <1>1, <1>7 DEF Running
<1>. QED BY <1>1, <1>5, <1>6, <1>9, <1>10, <1>11 DEF Good

(* The steps of consume().                                                 *)
LEMMA ConsumingOn ==
    ASSUME NEW u, NEW down, NEW n, Leftmost(u, down, n), n \in Nodes,
           \A x \in Nodes : u.h_diff[x] \in -1..1, ConsumeFrom(n)
    PROVE  Running(u, down, pc', loop')
<1>1. n # Nil
    BY NilIsNoNode
<1>2. pc' = "consume" /\ loop' = [NoLoop EXCEPT !.node = n]
    BY <1>1 DEF ConsumeFrom
<1>3. loop' = [node |-> n, side |-> Left, rem |-> FALSE]
    BY <1>2 DEF NoLoop
<1>4. loop' \in [node : Nodes, side : Side, rem : BOOLEAN] /\ loop'.node = n
    BY <1>3 DEF Side
<1>. QED BY <1>2, <1>4 DEF Running

LEMMA ConsumeBeginKeeps ==
    ASSUME NEW below, WellFormed(tree, below), Ordered(tree, below, key),
           Running(tree, below, pc, loop), ConsumeBegin
    PROVE  Good(tree', key', pc', loop')
<1>. DEFINE n == Extreme(tree, Left, tree.head)
<1>1. /\ pc = "idle" /\ tree.head # Nil /\ ConsumeFrom(n) /\ tree' = tree /\ key' = key
    BY DEF ConsumeBegin, begin
<1>2. PICK h : Heights(h) /\ Levels(tree, h, Nil)
    BY <1>1 DEF Running
<1>3. tree \in Trees /\ Shape(tree, below) /\ tree.head \in Nodes /\ Left \in Side
    BY <1>1 DEF WellFormed, Trees, Pointer, Side
<1>4. /\ n \in below[tree.head] /\ n \in Nodes /\ Kid(tree, Left, n) = Nil
      /\ \A a \in below[tree.head] : n \in below[a] => n = a \/ n \in below[Kid(tree, Left, a)]
    BY <1>3, ExtremeBelow
<1>. HIDE DEF n
<1>5. \A a \in Nodes : n \in below[a] => a \in below[tree.head]
    BY <1>4, InTree
<1>6. Leftmost(tree, below, n)
    BY <1>4, <1>5 DEF Leftmost
<1>7. \A x \in Nodes : tree.h_diff[x] \in -1..1
    BY <1>2, NilIsNoNode DEF Levels, Level, LevelWith
<1>8. Running(tree, below, pc', loop')
    BY <1>1, <1>4, <1>6, <1>7, ConsumingOn
<1>. QED BY <1>1, <1>8 DEF Good

(* After the first node comes the first of those that are left.            *)
LEMMA SecondLeftmost ==
    ASSUME NEW t, NEW below, WellFormed(t, below), NEW n \in Nodes, Leftmost(t, below, n),
           NEW u, RemovedTo(t, u, n, Right)
    PROVE  LET m == Neighbour(t, Right, n)
           IN \/ m = Nil /\ u.head = Nil
              \/ m \in Nodes /\ Leftmost(u, Without(below, n), m)
<1>. DEFINE m == Neighbour(t, Right, n)
            c == Kid(t, Right, n)
            down == Without(below, n)
<1>1. /\ t \in Trees /\ Shape(t, below) /\ Linked(t) /\ Left \in Side /\ Right \in Side
      /\ Opposite(Right) = Left /\ Opposite(Left) = Right
    BY DEF WellFormed, Side, Opposite, Left, Right
<1>2. /\ n \in below[t.head] /\ Kid(t, Left, n) = Nil
      /\ \A a \in Nodes : n \in below[a] => a = n \/ n \in below[Kid(t, Left, a)]
    BY DEF Leftmost
<1>3. /\ down[u.head] = below[t.head] \ {n}
      /\ \A x \in Nodes, r \in Side : x # n => down[Kid(u, r, x)] = below[Kid(t, r, x)] \ {n}
    BY <1>1, <1>2, RemovedShape
<1>4. \A x \in Nodes : down[x] = IF x = n THEN {n} ELSE below[x] \ {n}
    BY NilIsNoNode DEF Without
<1>5. /\ u.head = IF n = t.head THEN c ELSE t.head
      /\ \A r \in Side, x \in Nodes :
            Kid(u, r, x) = IF x = n THEN Nil ELSE IF Kid(t, r, x) = n THEN c ELSE Kid(t, r, x)
    BY DEF RemovedTo
<1>. HIDE DEF down
<1>6. /\ c \in Pointer /\ n \in below[n] /\ below[n] = {n} \cup below[c] /\ n \notin below[c]
    BY <1>1, <1>2, ShapeAt DEF Shape
<1>7. t.head \in Pointer
    BY <1>1 DEF Trees
<1>8. CASE c # Nil
    <2>1. c \in Nodes
        BY <1>6, <1>8 DEF Pointer
    <2>2. m = Extreme(t, Left, c)
        BY <1>1, <1>8 DEF Neighbour
    <2>3. /\ m \in below[c] /\ m \in Nodes /\ Kid(t, Left, m) = Nil
          /\ \A a \in below[c] : m \in below[a] => m = a \/ m \in below[Kid(t, Left, a)]
        BY <1>1, <2>1, <2>2, ExtremeBelow
    <2>. HIDE DEF m
    <2>4. m # n /\ m \in below[n]
        BY <2>3, <1>6
    <2>5. below[n] \subseteq below[t.head]
        BY <1>1, <1>2, <1>7, BelowNested
    <2>6. m \in down[u.head] /\ Kid(u, Left, m) = Nil
        BY <2>3, <2>4, <2>5, <1>1, <1>3, <1>5, NilIsNoNode
    <2>7. ASSUME NEW a \in Nodes, m \in down[a] PROVE a = m \/ m \in down[Kid(u, Left, a)]
        <3>1. a # n /\ m \in below[a]
            BY <2>4, <2>7, <1>4
        <3>2. down[Kid(u, Left, a)] = below[Kid(t, Left, a)] \ {n}
            BY <3>1, <1>1, <1>3
        <3>3. CASE a \in below[c]
            BY <3>1, <3>2, <3>3, <2>3, <2>4
        <3>4. CASE a \notin below[c]
            <4>1. a \notin below[n]
                BY <3>1, <3>4, <1>6
            <4>2. n \in below[a]
                BY <4>1, <3>1, <2>4, <1>1, BelowLaminar
            <4>3. n \in below[Kid(t, Left, a)] /\ Kid(t, Left, a) \in Pointer
                BY <4>2, <3>1, <1>1, <1>2, KidType
            <4>4. m \in below[Kid(t, Left, a)]
                BY <4>3, <2>4, <1>1, BelowNested
            <4>. QED BY <4>4, <3>2, <2>4
        <3>. QED BY <3>3, <3>4
    <2>8. Leftmost(u, down, m)
        BY <2>6, <2>7 DEF Leftmost
    <2>. QED BY <2>3, <2>8 DEF down, m
<1>9. CASE c = Nil
    <2>. DEFINE p == t.parent[n]
    <2>1. p \in Pointer
        BY <1>1 DEF Trees
    <2>2. ~(p # Nil /\ Kid(t, Right, p) = n)
        <3>1. SUFFICES ASSUME p # Nil, Kid(t, Right, p) = n PROVE FALSE
            OBVIOUS
        <3>2. p \in Nodes
            BY <3>1, <2>1 DEF Pointer
        <3>3. /\ p \notin below[n] /\ n \in below[p]
              /\ below[n] \cap below[Kid(t, Left, p)] = {}
            BY <3>1, <3>2, <1>1, <1>6, ShapeAt
        <3>. QED BY <3>2, <3>3, <1>2, <1>6
    <2>3. m = p
        BY <2>2, <1>1, <1>9, NeighbourUp
    <2>4. CASE p = Nil
        <3>1. n = t.head
            BY <2>4, <1>2, ParentSlot
        <3>. QED BY <3>1, <2>3, <2>4, <1>5, <1>9
    <2>5. CASE p # Nil
        <3>1. p \in Nodes
            BY <2>1, <2>5 DEF Pointer
        <3>2. Kid(t, Left, p) = n
            BY <3>1, <2>2, <2>5, <1>1 DEF Linked, Side
        <3>3. p # n /\ n \in below[p]
            BY <3>1, <3>2, <1>1, <1>6, ShapeAt
        <3>4. p \in below[t.head]
            BY <2>5, <1>2, ParentSlot
        <3>. HIDE DEF p
        <3>5. p \in down[u.head] /\ Kid(u, Left, p) = Nil
            BY <3>1, <3>2, <3>3, <3>4, <1>1, <1>3, <1>5, <1>9
        <3>6. ASSUME NEW a \in Nodes, p \in down[a] PROVE a = p \/ p \in down[Kid(u, Left, a)]
            <4>1. a # n /\ p \in below[a]
                BY <3>3, <3>6, <1>4
            <4>2. down[Kid(u, Left, a)] = below[Kid(t, Left, a)] \ {n}
                BY <4>1, <1>1, <1>3
            <4>3. n \in below[a]
                BY <4>1, <3>3, <1>1, NilIsNoNode, BelowNested
            <4>4. n \in below[Kid(t, Left, a)] /\ Kid(t, Left, a) \in Pointer
                BY <4>1, <4>3, <1>1, <1>2, KidType
            <4>5. CASE n = Kid(t, Left, a)
                BY <4>5, <1>1, NilIsNoNode DEF Linked, p
            <4>6. CASE n # Kid(t, Left, a)
                <5>1. p \in below[Kid(t, Left, a)]
                    BY <4>4, <4>6, <1>1, BelowParent DEF p
                <5>. QED BY <5>1, <4>2, <3>3
            <4>. QED BY <4>5, <4>6
        <3>7. Leftmost(u, down, p)
            BY <3>5, <3>6 DEF Leftmost
        <3>. QED BY <3>1, <3>7, <2>3 DEF down
    <2>. QED BY <2>4, <2>5
<1>. QED BY <1>8, <1>9

(* Where no node is left, all are level.                                   *)
LEMMA EmptyLevels ==
    ASSUME NEW t, NEW below, WellFormed(t, below), t.head = Nil
    PROVE  LET h == [x \in Pointer |-> IF x = Nil THEN 0 ELSE 1]
           IN Heights(h) /\ Levels(t, h, Nil)
<1>. DEFINE h == [x \in Pointer |-> IF x = Nil THEN 0 ELSE 1]
<1>1. Heights(h) /\ \A x \in Nodes : h[x] = 1
    BY NilIsNoNode DEF Heights
<1>. HIDE DEF h
<1>2. t \in Trees /\ below[t.head] = {}
    BY DEF WellFormed, Shape
<1>3. ASSUME NEW x \in Nodes PROVE Level(t, h, x)
    <2>1. t.h_diff[x] = 0 /\ \A s \in Side : Kid(t, s, x) = Nil
        BY <1>2 DEF WellFormed, Apart
    <2>. QED BY <2>1, <1>1, <1>2, LevelAlone
<1>. QED BY <1>1, <1>3 DEF Levels, h

LEMMA ConsumeKeeps ==
    ASSUME NEW below, WellFormed(tree, below), Ordered(tree, below, key),
           Running(tree, below, pc, loop), Consume
    PROVE  Good(tree', key', pc', loop')
<1>. DEFINE n == loop.node
            c == Kid(tree, Right, n)
            up == SetRoot(SetParent(tree, c, tree.parent[n]), c, tree.root[n])
            u == Fresh(Put(up, parent_ptr(tree, n), c), n)
            m == Neighbour(tree, Right, n)
            down == Without(below, n)
<1>1. pc = "consume" /\ tree' = u /\ ConsumeFrom(m) /\ key' = key
    BY DEF Consume
<1>2. /\ n \in Nodes /\ Leftmost(tree, below, n)
      /\ \A x \in Nodes : tree.h_diff[x] \in -1..1
    BY <1>1 DEF Running
<1>3. /\ tree \in Trees /\ n \in below[tree.head] /\ Kid(tree, Left, n) = Nil
      /\ Right \in Side /\ Opposite(Right) = Left
    BY <1>2 DEF WellFormed, Leftmost, Side, Opposite, Left, Right
<1>. HIDE DEF n
<1>4. RemovedTo(tree, u, n, Right)
    BY <1>3, HangIs
<1>. HIDE DEF u, m
<1>5. WellFormed(u, down)
    BY <1>3, <1>4, RemovedShape
<1>6. Ordered(u, down, key)
    BY <1>3, <1>4, RemovedOrder
<1>7. \/ m = Nil /\ u.head = Nil
      \/ m \in Nodes /\ Leftmost(u, down, m)
    BY <1>2, <1>4, SecondLeftmost DEF m
<1>8. \A x \in Nodes : u.h_diff[x] \in -1..1
    BY <1>2, <1>4 DEF RemovedTo
<1>. HIDE DEF down
<1>9. CASE m = Nil /\ u.head = Nil
    <2>1. Return
        BY <1>1, <1>9 DEF ConsumeFrom
    <2>2. PICK h : Heights(h) /\ Levels(u, h, Nil)
        BY <1>5, <1>9, EmptyLevels
    <2>3. Running(u, down, pc', loop')
        BY <2>1, <2>2, RunningDone
    <2>. QED BY <2>3, <1>1, <1>5, <1>6 DEF Good
<1>10. CASE m \in Nodes /\ Leftmost(u, down, m)
    <2>1. Running(u, down, pc', loop')
        BY <1>1, <1>8, <1>10, ConsumingOn
    <2>. QED BY <2>1, <1>1, <1>5, <1>6 DEF Good
<1>. QED BY <1>7, <1>9, <1>10

-------------------------------------------------------------------------------
(* The invariant *)

IInv ==
    /\ key \in [Nodes -> Int]
    /\ swaps \in 0..MaxSwaps
    /\ Good(tree, key, pc, loop)

LEMMA RunningDiffs ==
    ASSUME NEW t, NEW below, NEW p, NEW l, Running(t, below, p, l), NEW n \in Nodes
    PROVE  t.h_diff[n] \in -1..1
<1>1. CASE \E h : Heights(h) /\ Levels(t, h, Nil)
    <2>1. PICK h : Levels(t, h, Nil)
        BY <1>1
    <2>. QED BY <2>1, NilIsNoNode DEF Levels, Level, LevelWith
<1>2. CASE \E h : Levels(t, h, l.node) /\ Pending(t, h, l.node, l.side, l.rem)
    <2>1. PICK h : Levels(t, h, l.node) /\ Pending(t, h, l.node, l.side, l.rem)
        BY <1>2
    <2>2. CASE n = l.node
        BY <2>1, <2>2 DEF Pending
    <2>3. CASE n # l.node
        BY <2>1, <2>3 DEF Levels, Level, LevelWith
    <2>. QED BY <2>2, <2>3
<1>3. CASE \A x \in Nodes : t.h_diff[x] \in -1..1
    BY <1>3
<1>. QED BY <1>1, <1>2, <1>3 DEF Running

(* The values of the variables are those TypeOK allows.                    *)
LEMMA Typed == IInv => TypeOK
<1>1. SUFFICES ASSUME IInv PROVE TypeOK
    OBVIOUS
<1>2. PICK below : WellFormed(tree, below) /\ Running(tree, below, pc, loop)
    BY <1>1 DEF IInv, Good
<1>3. tree \in Trees
    BY <1>2 DEF WellFormed
<1>4. \A n \in Nodes : tree.h_diff[n] \in -2..2
    <2>1. ASSUME NEW n \in Nodes PROVE tree.h_diff[n] \in -1..1
        BY <1>2, RunningDiffs
    <2>. QED BY <2>1
<1>5. tree.h_diff \in [Nodes -> -2..2]
    BY <1>3, <1>4 DEF Trees
<1>6. tree \in [kid : [Side -> [Nodes -> Pointer]], parent : [Nodes -> Pointer],
                root : [Nodes -> BOOLEAN], h_diff : [Nodes -> -2..2], head : Pointer]
    BY <1>3, <1>5 DEF Trees
<1>7. /\ pc \in {"idle", "rebalance", "consume"}
      /\ loop = NoLoop \/ loop \in [node : Nodes, side : Side, rem : BOOLEAN]
    BY <1>2 DEF Running
<1>8. NoLoop \in [node : Pointer, side : Side, rem : BOOLEAN]
    BY NilIsNoNode DEF NoLoop, Side
<1>9. loop \in [node : Pointer, side : Side, rem : BOOLEAN]
    BY <1>7, <1>8, NilIsNoNode
<1>. QED BY <1>1, <1>6, <1>7, <1>9 DEF IInv, TypeOK

LEMMA InitGood == Init => IInv
<1>1. SUFFICES ASSUME Init PROVE IInv
    OBVIOUS
<1>. DEFINE below == [x \in Pointer |-> IF x = Nil THEN {} ELSE {x}]
<1>2. /\ tree = [kid |-> [s \in Side |-> [n \in Nodes |-> Nil]],
                 parent |-> [n \in Nodes |-> Nil],
                 root |-> [n \in Nodes |-> FALSE],
                 h_diff |-> [n \in Nodes |-> 0],
                 head |-> Nil]
      /\ key = Key /\ pc = "idle" /\ loop = NoLoop /\ swaps = 0
    BY <1>1 DEF Init
<1>3. tree \in Trees /\ tree.head = Nil
    BY <1>2, NilIsNoNode DEF Trees
<1>4. /\ \A s \in Side, n \in Nodes : Kid(tree, s, n) = Nil
      /\ \A n \in Nodes : tree.parent[n] = Nil /\ tree.root[n] = FALSE /\ tree.h_diff[n] = 0
    BY <1>2 DEF Kid
<1>5. /\ below \in [Pointer -> SUBSET Nodes] /\ below[Nil] = {} /\ \A n \in Nodes : below[n] = {n}
    BY NilIsNoNode DEF Pointer
<1>. HIDE DEF below
<1>6. Shape(tree, below)
    <2>1. \A n \in Nodes : IsFiniteSet(below[n])
        BY <1>5, FS_Singleton
    <2>2. \A s \in Side : Opposite(s) \in Side
        BY Sides
    <2>. QED BY <2>1, <2>2, <1>4, <1>5 DEF Shape
<1>7. Linked(tree) /\ Apart(tree, below)
    BY <1>3, <1>4, NilIsNoNode DEF Linked, Apart
<1>8. WellFormed(tree, below)
    BY <1>3, <1>6, <1>7 DEF WellFormed
<1>9. Ordered(tree, below, key)
    BY <1>4, <1>5 DEF Ordered, Side
<1>10. Running(tree, below, pc, loop)
    <2>1. PICK h : Heights(h) /\ Levels(tree, h, Nil)
        BY <1>3, <1>8, EmptyLevels
    <2>. QED BY <2>1, <1>2 DEF Running
<1>11. key \in [Nodes -> Int] /\ swaps \in 0..MaxSwaps
    BY <1>2, TreeAssumption
<1>. QED BY <1>8, <1>9, <1>10, <1>11 DEF IInv, Good

LEMMA NextGood == IInv /\ [Next]_vars => IInv'
<1>1. SUFFICES ASSUME IInv, [Next]_vars PROVE IInv'
    OBVIOUS
<1>2. key \in [Nodes -> Int] /\ swaps \in 0..MaxSwaps
    BY <1>1 DEF IInv
<1>3. PICK below : /\ WellFormed(tree, below) /\ Ordered(tree, below, key)
                   /\ Running(tree, below, pc, loop)
    BY <1>1 DEF IInv, Good
<1>4. IInv' <=> key' \in [Nodes -> Int] /\ swaps' \in 0..MaxSwaps /\ Good(tree', key', pc', loop')
    BY DEF IInv, Good, WellFormed, Ordered, Running, Shape, Linked, Apart, Kid, Levels, Level,
           LevelWith, Pending, Leftmost, Trees
<1>5. ASSUME NEW n \in Nodes, Insert(n) PROVE IInv'
    <2>1. Good(tree', key', pc', loop')
        BY <1>2, <1>3, <1>5, InsertKeeps
    <2>. QED BY <2>1, <1>2, <1>4, <1>5 DEF Insert
<1>6. ASSUME NEW n \in Nodes, Remove(n) PROVE IInv'
    <2>1. Good(tree', key', pc', loop')
        BY <1>2, <1>3, <1>6, RemoveKeeps
    <2>. QED BY <2>1, <1>2, <1>4, <1>6 DEF Remove
<1>7. ASSUME NEW a \in Nodes, NEW b \in Nodes, SwapPositions(a, b) PROVE IInv'
    <2>1. Good(tree', key', pc', loop') /\ key' \in [Nodes -> Int]
        BY <1>2, <1>3, <1>7, SwapKeeps
    <2>2. swaps' \in 0..MaxSwaps
        BY <1>2, <1>7, TreeAssumption DEF SwapPositions
    <2>. QED BY <2>1, <2>2, <1>4
<1>8. CASE Lean
    <2>1. Good(tree', key', pc', loop')
        BY <1>2, <1>3, <1>8, LeanKeeps
    <2>. QED BY <2>1, <1>2, <1>4, <1>8 DEF Lean
<1>9. CASE Turn
    <2>1. Good(tree', key', pc', loop')
        BY <1>2, <1>3, <1>9, TurnKeeps
    <2>. QED BY <2>1, <1>2, <1>4, <1>9 DEF Turn
<1>10. CASE ConsumeBegin
    <2>1. Good(tree', key', pc', loop')
        BY <1>2, <1>3, <1>10, ConsumeBeginKeeps
    <2>. QED BY <2>1, <1>2, <1>4, <1>10 DEF ConsumeBegin
<1>11. CASE Consume
    <2>1. Good(tree', key', pc', loop')
        BY <1>2, <1>3, <1>11, ConsumeKeeps
    <2>. QED BY <2>1, <1>2, <1>4, <1>11 DEF Consume
<1>12. CASE UNCHANGED vars
    BY <1>1, <1>4, <1>12 DEF vars, IInv
<1>. QED BY <1>1, <1>5, <1>6, <1>7, <1>8, <1>9, <1>10, <1>11, <1>12 DEF Next

THEOREM TreeInvariant == Spec => []IInv
BY InitGood, NextGood, PTL DEF Spec

-------------------------------------------------------------------------------
(* Heights and the order of the nodes, as the properties compute them *)

(* The recursive height is the one the invariant speaks of.                *)
LEMMA HeightIs ==
    ASSUME NEW t, NEW below, WellFormed(t, below), NEW h, Heights(h), Levels(t, h, Nil),
           NEW n \in Pointer
    PROVE  Height(t, n) = h[n]
<1>. DEFINE IsHeight(g) ==
                g = [m \in Pointer |->
                        IF m = Nil THEN 0
                        ELSE LET l == g[Kid(t, Left, m)]
                                 r == g[Kid(t, Right, m)]
                             IN 1 + (IF l > r THEN l ELSE r)]
            height == CHOOSE g : IsHeight(g)
<1>1. t \in Trees /\ Shape(t, below) /\ Left \in Side /\ Right \in Side /\ Opposite(Right) = Left
    BY DEF WellFormed, Side, Opposite, Left, Right
<1>2. h \in [Pointer -> Nat] /\ h[Nil] = 0
    BY DEF Heights
<1>3. \A m \in Nodes : h[m] = LET l == h[Kid(t, Left, m)]
                                  r == h[Kid(t, Right, m)]
                              IN 1 + (IF l > r THEN l ELSE r)
    <2>1. SUFFICES ASSUME NEW m \in Nodes
                   PROVE  h[m] = 1 + (IF h[Kid(t, Left, m)] > h[Kid(t, Right, m)]
                                      THEN h[Kid(t, Left, m)] ELSE h[Kid(t, Right, m)])
        OBVIOUS
    <2>2. h[m] = 1 + Larger(h[Kid(t, Right, m)], h[Kid(t, Left, m)])
        BY <2>1, <1>1, NilIsNoNode DEF Levels, Level, LevelWith
    <2>3. h[Kid(t, Right, m)] \in Nat /\ h[Kid(t, Left, m)] \in Nat
        BY <2>1, <1>1, <1>2, KidType
    <2>. QED BY <2>2, <2>3 DEF Larger
<1>4. IsHeight(h)
    <2>. DEFINE g == [m \in Pointer |->
                        IF m = Nil THEN 0
                        ELSE LET l == h[Kid(t, Left, m)]
                                 r == h[Kid(t, Right, m)]
                             IN 1 + (IF l > r THEN l ELSE r)]
    <2>1. ASSUME NEW m \in Pointer PROVE h[m] = g[m]
        BY <1>2, <1>3 DEF Pointer
    <2>. QED BY <2>1, <1>2
<1>5. IsHeight(height)
    BY <1>4
<1>6. /\ height[Nil] = 0
      /\ \A m \in Nodes : height[m] = LET l == height[Kid(t, Left, m)]
                                          r == height[Kid(t, Right, m)]
                                      IN 1 + (IF l > r THEN l ELSE r)
    <2>. HIDE DEF height
    <2>. QED BY <1>5, NilIsNoNode
<1>7. Height(t, n) = height[n]
    BY DEF Height
<1>. HIDE DEF height, IsHeight
<1>. DEFINE S == {m \in Pointer : height[m] = h[m]}
<1>8. Nil \in S
    BY <1>2, <1>6, NilIsNoNode
<1>9. ASSUME NEW m \in Nodes, \A s \in Side : Kid(t, s, m) \in S PROVE m \in S
    <2>1. height[Kid(t, Left, m)] = h[Kid(t, Left, m)] /\ height[Kid(t, Right, m)] = h[Kid(t, Right, m)]
        BY <1>1, <1>9
    <2>. QED BY <2>1, <1>3, <1>6, NilIsNoNode
<1>. HIDE DEF S
<1>10. Pointer \subseteq S
    BY <1>1, <1>8, <1>9, TreeInduction
<1>. QED BY <1>7, <1>10 DEF S

LEMMA GoodBalanced == IInv => Balanced
<1>1. SUFFICES ASSUME IInv PROVE Balanced
    OBVIOUS
<1>2. PICK below : WellFormed(tree, below) /\ Running(tree, below, pc, loop)
    BY <1>1 DEF IInv, Good
<1>3. NeverDies
    BY <1>2, RunningSafe
<1>4. ASSUME pc = "idle", NEW n \in Owned(tree)
      PROVE  /\ tree.h_diff[n] = Height(tree, Kid(tree, Right, n)) - Height(tree, Kid(tree, Left, n))
             /\ tree.h_diff[n] \in -1..1
    <2>1. PICK h : Heights(h) /\ Levels(tree, h, Nil)
        BY <1>2, <1>4 DEF Running
    <2>2. n \in Nodes /\ tree \in Trees /\ Left \in Side /\ Right \in Side
          /\ Opposite(Right) = Left /\ Sign(Right) = 1
        BY <1>2, <1>4 DEF Owned, WellFormed, Side, Opposite, Sign, Left, Right
    <2>3. /\ Sign(Right) * tree.h_diff[n] = h[Kid(tree, Right, n)] - h[Kid(tree, Left, n)]
          /\ tree.h_diff[n] \in -1..1
        BY <2>1, <2>2, NilIsNoNode DEF Levels, Level, LevelWith
    <2>4. Kid(tree, Right, n) \in Pointer /\ Kid(tree, Left, n) \in Pointer
        BY <2>2, KidType
    <2>5. /\ Height(tree, Kid(tree, Right, n)) = h[Kid(tree, Right, n)]
          /\ Height(tree, Kid(tree, Left, n)) = h[Kid(tree, Left, n)]
        BY <2>1, <2>4, <1>2, HeightIs
    <2>6. tree.h_diff[n] = h[Kid(tree, Right, n)] - h[Kid(tree, Left, n)]
        BY <2>2, <2>3
    <2>. QED BY <2>3, <2>5, <2>6
<1>. QED BY <1>3, <1>4 DEF Balanced

(* Whatever is inserted, removed and exchanged, no assertion of            *)
(* rebalance() fails, it follows no null pointer, and between the calls    *)
(* every h_diff is the difference of two heights that differ by one at     *)
(* most.                                                                   *)
THEOREM TreeBalanced == Spec => []Balanced
BY TreeInvariant, GoodBalanced, PTL

(* A recursive function on the nodes of a tree has a value everywhere.     *)
Partial(t, below, base, step, f, x) ==
    /\ f[Nil] = base
    /\ \A n \in below[x] : f[n] = step[<<n, f[Kid(t, Left, n)], f[Kid(t, Right, n)]>>]

LEMMA PartialBelow ==
    ASSUME NEW t \in Trees, NEW below, Shape(t, below), NEW base, NEW step, NEW f,
           NEW n \in Nodes, NEW s \in Side, Partial(t, below, base, step, f, n)
    PROVE  Partial(t, below, base, step, f, Kid(t, s, n))
<1>1. below[Kid(t, s, n)] \subseteq below[n]
    BY ShapeAt
<1>. QED BY <1>1 DEF Partial

LEMMA PartialSame ==
    ASSUME NEW t \in Trees, NEW below, Shape(t, below), NEW base, NEW step, NEW x \in Pointer,
           NEW f, NEW g, Partial(t, below, base, step, f, x), Partial(t, below, base, step, g, x)
    PROVE  f[x] = g[x]
<1>. DEFINE S == {y \in Pointer : Partial(t, below, base, step, f, y)
                                  /\ Partial(t, below, base, step, g, y) => f[y] = g[y]}
<1>1. Nil \in S
    BY NilIsNoNode DEF Partial
<1>2. ASSUME NEW n \in Nodes, \A s \in Side : Kid(t, s, n) \in S PROVE n \in S
    <2>1. SUFFICES ASSUME Partial(t, below, base, step, f, n), Partial(t, below, base, step, g, n)
                   PROVE  f[n] = g[n]
        BY NilIsNoNode
    <2>2. ASSUME NEW s \in Side PROVE f[Kid(t, s, n)] = g[Kid(t, s, n)]
        <3>1. Partial(t, below, base, step, f, Kid(t, s, n))
            BY <2>1, PartialBelow
        <3>2. Partial(t, below, base, step, g, Kid(t, s, n))
            BY <2>1, PartialBelow
        <3>. QED BY <3>1, <3>2, <1>2
    <2>3. n \in below[n] /\ Left \in Side /\ Right \in Side
        BY ShapeAt DEF Side
    <2>4. /\ f[n] = step[<<n, f[Kid(t, Left, n)], f[Kid(t, Right, n)]>>]
          /\ g[n] = step[<<n, g[Kid(t, Left, n)], g[Kid(t, Right, n)]>>]
        BY <2>1, <2>3 DEF Partial
    <2>. QED BY <2>2, <2>3, <2>4
<1>. HIDE DEF S
<1>3. Pointer \subseteq S
    BY <1>1, <1>2, TreeInduction
<1>. QED BY <1>3 DEF S

(* Two partial functions are joined at the node above them.                *)
LEMMA PartialJoin ==
    ASSUME NEW t \in Trees, NEW below, Shape(t, below), NEW V, NEW base \in V,
           NEW step \in [Nodes \X V \X V -> V], NEW n \in Nodes,
           NEW f \in [Pointer -> V], Partial(t, below, base, step, f, Kid(t, Left, n)),
           NEW g \in [Pointer -> V], Partial(t, below, base, step, g, Kid(t, Right, n))
    PROVE  \E h \in [Pointer -> V] : Partial(t, below, base, step, h, n)
<1>. DEFINE l == Kid(t, Left, n)
            r == Kid(t, Right, n)
            v == step[<<n, f[l], g[r]>>]
            h == [x \in Pointer |-> IF x \in below[l] THEN f[x]
                                    ELSE IF x \in below[r] THEN g[x]
                                    ELSE IF x = n THEN v ELSE base]
<1>1. /\ l \in Pointer /\ r \in Pointer /\ below[n] = {n} \cup below[l] \cup below[r]
      /\ n \notin below[l] /\ n \notin below[r] /\ below[l] \cap below[r] = {}
      /\ below[l] \subseteq Nodes /\ below[r] \subseteq Nodes
    <2>1. Left \in Side /\ Opposite(Left) = Right
        BY DEF Side, Opposite
    <2>. QED BY <2>1, ShapeAt
<1>2. v \in V
    BY <1>1
<1>3. f[Nil] = base /\ g[Nil] = base
    BY DEF Partial
<1>4. ASSUME NEW x \in Nodes PROVE x \in below[x] /\ \A y \in Pointer : x \in below[y] =>
            \A s \in Side : Kid(t, s, x) # Nil => Kid(t, s, x) \in below[y]
    <2>1. x \in below[x]
        BY <1>4, ShapeAt DEF Side
    <2>2. ASSUME NEW y \in Pointer, x \in below[y], NEW s \in Side, Kid(t, s, x) # Nil
          PROVE  Kid(t, s, x) \in below[y]
        <3>1. below[x] \subseteq below[y]
            BY <2>2, BelowNested
        <3>2. Kid(t, s, x) \in Nodes
            BY <2>2, <1>4, KidType DEF Pointer
        <3>3. Kid(t, s, x) \in below[Kid(t, s, x)] /\ below[Kid(t, s, x)] \subseteq below[x]
            BY <2>2, <3>2, <1>4, ShapeAt
        <3>. QED BY <3>1, <3>3
    <2>. QED BY <2>1, <2>2
<1>. HIDE DEF v
<1>5. h \in [Pointer -> V]
    BY <1>2
<1>6. h[Nil] = base /\ h[n] = v
    BY <1>1, <1>3, NilIsNoNode
<1>7. /\ \A x \in below[l] : h[x] = f[x]
      /\ \A x \in below[r] : h[x] = g[x]
    BY <1>1, NilIsNoNode
<1>8. h[l] = f[l] /\ h[r] = g[r]
    BY <1>1, <1>3, <1>4, <1>6, <1>7 DEF Pointer
<1>. HIDE DEF h
<1>9. ASSUME NEW x \in below[n]
      PROVE  h[x] = step[<<x, h[Kid(t, Left, x)], h[Kid(t, Right, x)]>>]
    <2>0. Left \in Side /\ Right \in Side
        BY DEF Side
    <2>1. CASE x = n
        BY <2>1, <1>6, <1>8 DEF v
    <2>2. CASE x \in below[l]
        <3>1. h[x] = f[x] /\ f[x] = step[<<x, f[Kid(t, Left, x)], f[Kid(t, Right, x)]>>]
            BY <2>2, <1>7 DEF Partial
        <3>2. \A s \in Side : Kid(t, s, x) # Nil => Kid(t, s, x) \in below[l]
            BY <2>2, <1>1, <1>4
        <3>3. \A s \in Side : h[Kid(t, s, x)] = f[Kid(t, s, x)]
            BY <3>2, <1>3, <1>6, <1>7
        <3>. QED BY <3>1, <3>3, <2>0
    <2>3. CASE x \in below[r]
        <3>1. h[x] = g[x] /\ g[x] = step[<<x, g[Kid(t, Left, x)], g[Kid(t, Right, x)]>>]
            BY <2>3, <1>7 DEF Partial
        <3>2. \A s \in Side : Kid(t, s, x) # Nil => Kid(t, s, x) \in below[r]
            BY <2>3, <1>1, <1>4
        <3>3. \A s \in Side : h[Kid(t, s, x)] = g[Kid(t, s, x)]
            BY <3>2, <1>3, <1>6, <1>7
        <3>. QED BY <3>1, <3>3, <2>0
    <2>. QED BY <2>1, <2>2, <2>3, <1>1
<1>. QED BY <1>5, <1>6, <1>9 DEF Partial

Solves(t, base, step, f) ==
    /\ f[Nil] = base
    /\ \A n \in Nodes : f[n] = step[<<n, f[Kid(t, Left, n)], f[Kid(t, Right, n)]>>]

LEMMA Recursive ==
    ASSUME NEW t \in Trees, NEW below, Shape(t, below), NEW V, NEW base \in V,
           NEW step \in [Nodes \X V \X V -> V]
    PROVE  \E f \in [Pointer -> V] : Solves(t, base, step, f)
<1>. DEFINE S == {x \in Pointer : \E f \in [Pointer -> V] : Partial(t, below, base, step, f, x)}
<1>1. Nil \in S
    <2>. DEFINE f == [x \in Pointer |-> base]
    <2>1. f \in [Pointer -> V] /\ f[Nil] = base
        BY NilIsNoNode
    <2>2. below[Nil] = {}
        BY DEF Shape
    <2>. HIDE DEF f
    <2>3. Partial(t, below, base, step, f, Nil)
        BY <2>1, <2>2 DEF Partial
    <2>. QED BY <2>1, <2>3, NilIsNoNode
<1>2. ASSUME NEW n \in Nodes, \A s \in Side : Kid(t, s, n) \in S PROVE n \in S
    <2>1. Kid(t, Left, n) \in S /\ Kid(t, Right, n) \in S
        BY <1>2 DEF Side
    <2>2. PICK f \in [Pointer -> V] : Partial(t, below, base, step, f, Kid(t, Left, n))
        BY <2>1
    <2>3. PICK g \in [Pointer -> V] : Partial(t, below, base, step, g, Kid(t, Right, n))
        BY <2>1
    <2>4. \E h \in [Pointer -> V] : Partial(t, below, base, step, h, n)
        BY <2>2, <2>3, PartialJoin
    <2>. QED BY <2>4, NilIsNoNode
<1>. HIDE DEF S
<1>3. Pointer \subseteq S
    BY <1>1, <1>2, TreeInduction
<1>. DEFINE part == [x \in Pointer |->
                        CHOOSE f \in [Pointer -> V] : Partial(t, below, base, step, f, x)]
            f == [x \in Pointer |-> part[x][x]]
<1>4. ASSUME NEW x \in Pointer
      PROVE  part[x] \in [Pointer -> V] /\ Partial(t, below, base, step, part[x], x)
    <2>1. \E g \in [Pointer -> V] : Partial(t, below, base, step, g, x)
        BY <1>3, <1>4 DEF S
    <2>. QED BY <2>1
<1>. HIDE DEF part
<1>5. f \in [Pointer -> V]
    BY <1>4
<1>6. f[Nil] = base
    BY <1>4, NilIsNoNode DEF Partial
<1>7. ASSUME NEW n \in Nodes
      PROVE  f[n] = step[<<n, f[Kid(t, Left, n)], f[Kid(t, Right, n)]>>]
    <2>1. n \in Pointer /\ n \in below[n] /\ Partial(t, below, base, step, part[n], n)
        BY <1>4, <1>7, NilIsNoNode, ShapeAt DEF Side
    <2>2. ASSUME NEW s \in Side PROVE f[Kid(t, s, n)] = part[n][Kid(t, s, n)]
        <3>1. Kid(t, s, n) \in Pointer
            BY <2>2, <1>7, KidType
        <3>2. Partial(t, below, base, step, part[n], Kid(t, s, n))
            BY <2>1, <2>2, <1>7, PartialBelow
        <3>3. Partial(t, below, base, step, part[Kid(t, s, n)], Kid(t, s, n))
            BY <3>1, <1>4
        <3>4. part[Kid(t, s, n)][Kid(t, s, n)] = part[n][Kid(t, s, n)]
            BY <3>1, <3>2, <3>3, PartialSame
        <3>. QED BY <3>1, <3>4
    <2>3. part[n][n] = step[<<n, part[n][Kid(t, Left, n)], part[n][Kid(t, Right, n)]>>]
        BY <2>1 DEF Partial
    <2>4. f[n] = part[n][n]
        BY <2>1
    <2>5. /\ f[Kid(t, Left, n)] = part[n][Kid(t, Left, n)]
          /\ f[Kid(t, Right, n)] = part[n][Kid(t, Right, n)]
        BY <2>2 DEF Side
    <2>. HIDE DEF f
    <2>. QED BY <2>3, <2>4, <2>5
<1>. HIDE DEF f
<1>. QED BY <1>5, <1>6, <1>7 DEF Solves

(* A sequence that has every element of a set once.                        *)
Lists(q, A) == q \in Seq(Nodes) /\ {q[i] : i \in 1..Len(q)} = A /\ Len(q) = Cardinality(A)

LEMMA ListsJoin ==
    ASSUME NEW a, NEW b, NEW A, NEW B, NEW n \in Nodes, Lists(a, A), Lists(b, B),
           IsFiniteSet(A), IsFiniteSet(B), A \cap B = {}, n \notin A, n \notin B
    PROVE  Lists(a \o <<n>> \o b, {n} \cup A \cup B)
<1>. DEFINE q == a \o <<n>> \o b
            C == {n} \cup A \cup B
<1>1. a \in Seq(Nodes) /\ b \in Seq(Nodes) /\ <<n>> \in Seq(Nodes) /\ Len(a) \in Nat /\ Len(b) \in Nat
    BY DEF Lists
<1>2. q \in Seq(Nodes) /\ Len(q) = Len(a) + 1 + Len(b)
    BY <1>1
<1>3. \A i \in 1..Len(q) : q[i] = IF i <= Len(a) THEN a[i]
                                  ELSE IF i = Len(a) + 1 THEN n ELSE b[i - (Len(a) + 1)]
    BY <1>1
<1>. HIDE DEF q
<1>4. {q[i] : i \in 1..Len(q)} = C
    <2>1. ASSUME NEW i \in 1..Len(q) PROVE q[i] \in C
        <3>1. CASE i <= Len(a)
            <4>1. q[i] = a[i] /\ i \in 1..Len(a)
                BY <3>1, <2>1, <1>1, <1>3
            <4>. QED BY <4>1 DEF Lists
        <3>2. CASE i = Len(a) + 1
            <4>1. q[i] = n
                BY <3>2, <2>1, <1>1, <1>3
            <4>. QED BY <4>1
        <3>3. CASE i > Len(a) + 1
            <4>1. q[i] = b[i - (Len(a) + 1)] /\ i - (Len(a) + 1) \in 1..Len(b)
                BY <3>3, <2>1, <1>1, <1>2, <1>3
            <4>. QED BY <4>1 DEF Lists
        <3>. QED BY <3>1, <3>2, <3>3, <2>1, <1>1, <1>2
    <2>2. ASSUME NEW x \in C PROVE \E i \in 1..Len(q) : q[i] = x
        <3>1. CASE x = n
            <4>1. Len(a) + 1 \in 1..Len(q)
                BY <1>1, <1>2
            <4>2. q[Len(a) + 1] = n
                BY <4>1, <1>1, <1>3
            <4>. QED BY <3>1, <4>1, <4>2
        <3>2. CASE x \in A
            <4>1. PICK i \in 1..Len(a) : a[i] = x
                BY <3>2 DEF Lists
            <4>2. i \in 1..Len(q)
                BY <1>1, <1>2
            <4>3. q[i] = x
                BY <4>1, <4>2, <1>1, <1>3
            <4>. QED BY <4>2, <4>3
        <3>3. CASE x \in B
            <4>1. PICK i \in 1..Len(b) : b[i] = x
                BY <3>3 DEF Lists
            <4>2. i + (Len(a) + 1) \in 1..Len(q) /\ i + (Len(a) + 1) > Len(a) + 1
                  /\ (i + (Len(a) + 1)) - (Len(a) + 1) = i
                BY <1>1, <1>2
            <4>3. q[i + (Len(a) + 1)] = x
                BY <4>1, <4>2, <1>1, <1>3
            <4>. QED BY <4>2, <4>3
        <3>. QED BY <3>1, <3>2, <3>3
    <2>. QED BY <2>1, <2>2
<1>5. Cardinality(C) = Cardinality(A) + Cardinality(B) + 1
    <2>1. IsFiniteSet(A \cup B) /\ Cardinality(A \cup B) = Cardinality(A) + Cardinality(B)
        <3>1. Cardinality({}) = 0 /\ Cardinality(A) \in Nat /\ Cardinality(B) \in Nat
            BY FS_EmptySet, FS_CardinalityType
        <3>2. IsFiniteSet(A \cup B)
            BY FS_Union
        <3>3. Cardinality(A \cup B) = Cardinality(A) + Cardinality(B) - Cardinality(A \cap B)
            BY FS_Union
        <3>4. Cardinality(A \cap B) = 0
            BY <3>1
        <3>. HIDE DEF C
        <3>. QED BY <3>1, <3>2, <3>3, <3>4
    <2>2. Cardinality((A \cup B) \cup {n}) = Cardinality(A \cup B) + 1
        BY <2>1, FS_AddElement
    <2>3. C = (A \cup B) \cup {n}
        OBVIOUS
    <2>. HIDE DEF C
    <2>. QED BY <2>1, <2>2, <2>3
<1>6. Len(a) = Cardinality(A) /\ Len(b) = Cardinality(B)
    BY DEF Lists
<1>7. Len(q) = Cardinality(C)
    BY <1>1, <1>2, <1>5, <1>6
<1>. HIDE DEF C
<1>8. Lists(q, C)
    BY <1>2, <1>4, <1>7 DEF Lists
<1>. QED BY <1>8 DEF q, C

(* The recursive walk exists.                                              *)
WalkOf(t, walk) ==
    /\ walk[Nil] = <<>>
    /\ \A n \in Nodes : walk[n] = walk[Kid(t, Left, n)] \o <<n>> \o walk[Kid(t, Right, n)]

LEMMA InOrderIs ==
    ASSUME NEW t \in Trees, NEW below, Shape(t, below)
    PROVE  \E walk : WalkOf(t, walk) /\ InOrder(t) = walk[t.head]
<1>. DEFINE IsWalk(g) ==
                g = [n \in Pointer |->
                        IF n = Nil THEN <<>>
                        ELSE g[Kid(t, Left, n)] \o <<n>> \o g[Kid(t, Right, n)]]
            walk == CHOOSE g : IsWalk(g)
            V == Seq(Nodes)
            step == [p \in Nodes \X V \X V |-> p[2] \o <<p[1]>> \o p[3]]
<1>1. <<>> \in V
    OBVIOUS
<1>2. step \in [Nodes \X V \X V -> V]
    <2>1. ASSUME NEW p \in Nodes \X V \X V PROVE p[2] \o <<p[1]>> \o p[3] \in V
        <3>1. p[1] \in Nodes /\ p[2] \in Seq(Nodes) /\ p[3] \in Seq(Nodes)
            BY <2>1
        <3>. QED BY <3>1
    <2>. HIDE DEF V
    <2>. QED BY <2>1
<1>3. \A n \in Nodes, a \in V, b \in V : step[<<n, a, b>>] = a \o <<n>> \o b
    <2>. HIDE DEF V
    <2>. QED OBVIOUS
<1>. HIDE DEF step, V
<1>4. PICK f \in [Pointer -> V] : Solves(t, <<>>, step, f)
    BY <1>1, <1>2, Recursive
<1>5. ASSUME NEW n \in Nodes PROVE f[n] = f[Kid(t, Left, n)] \o <<n>> \o f[Kid(t, Right, n)]
    <2>1. Kid(t, Left, n) \in Pointer /\ Kid(t, Right, n) \in Pointer
        BY KidType DEF Side
    <2>2. f[Kid(t, Left, n)] \in V /\ f[Kid(t, Right, n)] \in V
        BY <2>1, <1>4
    <2>3. f[n] = step[<<n, f[Kid(t, Left, n)], f[Kid(t, Right, n)]>>]
        BY <1>4 DEF Solves
    <2>. QED BY <2>2, <2>3, <1>3
<1>6. IsWalk(f)
    <2>. DEFINE g == [n \in Pointer |->
                        IF n = Nil THEN <<>>
                        ELSE f[Kid(t, Left, n)] \o <<n>> \o f[Kid(t, Right, n)]]
    <2>1. ASSUME NEW n \in Pointer PROVE f[n] = g[n]
        BY <1>4, <1>5 DEF Pointer, Solves
    <2>. QED BY <2>1, <1>4
<1>7. IsWalk(walk)
    BY <1>6
<1>8. InOrder(t) = walk[t.head]
    BY DEF InOrder
<1>. HIDE DEF walk
<1>9. WalkOf(t, walk)
    <2>1. walk[Nil] = <<>>
        BY <1>7, NilIsNoNode
    <2>2. \A n \in Nodes : walk[n] = walk[Kid(t, Left, n)] \o <<n>> \o walk[Kid(t, Right, n)]
        BY <1>7, NilIsNoNode
    <2>. QED BY <2>1, <2>2 DEF WalkOf
<1>. QED BY <1>8, <1>9

LEMMA WalkLists ==
    ASSUME NEW t \in Trees, NEW below, Shape(t, below), NEW walk, WalkOf(t, walk),
           NEW n \in Pointer
    PROVE  Lists(walk[n], below[n])
<1>. DEFINE S == {x \in Pointer : Lists(walk[x], below[x])}
<1>1. Nil \in S
    <2>1. walk[Nil] = <<>> /\ below[Nil] = {} /\ Cardinality({}) = 0
        BY FS_EmptySet DEF WalkOf, Shape
    <2>2. Lists(<<>>, {})
        BY <2>1 DEF Lists
    <2>. QED BY <2>1, <2>2, NilIsNoNode
<1>2. ASSUME NEW x \in Nodes, \A s \in Side : Kid(t, s, x) \in S PROVE x \in S
    <2>. DEFINE l == Kid(t, Left, x)
                r == Kid(t, Right, x)
    <2>1. Lists(walk[l], below[l]) /\ Lists(walk[r], below[r])
        BY <1>2 DEF Side
    <2>2. /\ below[x] = {x} \cup below[l] \cup below[r]
          /\ x \notin below[l] /\ x \notin below[r] /\ below[l] \cap below[r] = {}
          /\ l \in Pointer /\ r \in Pointer
        <3>1. Left \in Side /\ Opposite(Left) = Right
            BY DEF Side, Opposite
        <3>. QED BY <3>1, ShapeAt
    <2>3. IsFiniteSet(below[l]) /\ IsFiniteSet(below[r])
        BY <2>2, FS_EmptySet DEF Shape, Pointer
    <2>4. walk[x] = walk[l] \o <<x>> \o walk[r]
        BY DEF WalkOf
    <2>. HIDE DEF l, r
    <2>5. Lists(walk[l] \o <<x>> \o walk[r], {x} \cup below[l] \cup below[r])
        BY <2>1, <2>2, <2>3, ListsJoin
    <2>6. Lists(walk[x], below[x])
        BY <2>2, <2>4, <2>5
    <2>. QED BY <2>6, NilIsNoNode
<1>. HIDE DEF S
<1>3. Pointer \subseteq S
    BY <1>1, <1>2, TreeInduction
<1>. QED BY <1>3 DEF S

LEMMA GoodAgrees == IInv => PointersAgree
<1>1. SUFFICES ASSUME IInv PROVE PointersAgree
    OBVIOUS
<1>2. PICK below : WellFormed(tree, below)
    BY <1>1 DEF IInv, Good
<1>3. tree \in Trees /\ Shape(tree, below) /\ Linked(tree)
    BY <1>2 DEF WellFormed
<1>4. tree.head \in Pointer
    BY <1>3 DEF Trees
<1>5. PICK walk : WalkOf(tree, walk) /\ InOrder(tree) = walk[tree.head]
    BY <1>3, InOrderIs
<1>6. Lists(InOrder(tree), Owned(tree))
    <2>1. Lists(walk[tree.head], below[tree.head])
        BY <1>3, <1>4, <1>5, WalkLists
    <2>2. Owned(tree) = below[tree.head]
        BY <1>2, OwnedBelow
    <2>. QED BY <2>1, <2>2, <1>5
<1>7. tree.head # Nil => tree.parent[tree.head] = Nil /\ tree.root[tree.head]
    BY <1>3, <1>4 DEF Linked, Pointer
<1>8. \A n \in Nodes, s \in Side :
          Kid(tree, s, n) # Nil => tree.parent[Kid(tree, s, n)] = n
    BY <1>3 DEF Linked
<1>9. TypeOK
    BY <1>1, Typed
<1>. QED BY <1>6, <1>7, <1>8, <1>9 DEF PointersAgree, Lists

(* Parents and children point to each other, the root knows that it is     *)
(* one, and every node that a unique_ptr of the tree owns is owned by that *)
(* one alone and met once between begin() and end(), also in the middle of *)
(* rebalance() and of consume().                                           *)
THEOREM TreePointersAgree == Spec => []PointersAgree
BY TreeInvariant, GoodAgrees, PTL

===============================================================================
