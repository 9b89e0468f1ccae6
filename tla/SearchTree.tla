------------------------------ MODULE SearchTree ------------------------------
(***************************************************************************)
(* Node<K,V> and Node::Root of src/src/btree.hpp: an AVL tree of nodes     *)
(* with parent pointers, whose clients keep pointers and iterators into    *)
(* it.  A node is owned by one unique_ptr: a child pointer of its parent,  *)
(* Root::ptr, or the client.                                               *)
(*                                                                         *)
(* Pointers are modelled one by one, and an iteration of rebalance() is a  *)
(* step.  The functions that come in mirrored pairs (rot_right raises the  *)
(* right child, rot_left the left one) are one operator with a side.       *)
(***************************************************************************)
EXTENDS Integers, FiniteSets, Sequences

CONSTANTS
    Nodes,      \* what make_unique<Node> can return
    Nil,        \* nullptr
    Key,        \* the key each node is inserted with
    Ops,        \* the operations this client uses
    MaxSwaps    \* bound: on the client's swap_positions

ASSUME TreeAssumption == Nil \notin Nodes /\ Key \in [Nodes -> Int] /\ MaxSwaps \in Nat

VARIABLES
    tree,       \* the pointers and h_diff of every node, and Root::ptr
    key,        \* what the client's comparator sees in each node
    pc,         \* "idle", or the loop a call is in
    loop,       \* rebalance()'s node, r_inc and rem
    swaps       \* how many swap_positions there were

vars == <<tree, key, pc, loop, swaps>>

Left == "left"
Right == "right"
Side == {Left, Right}
Opposite(s) == IF s = Left THEN Right ELSE Left
Sign(s) == IF s = Left THEN -1 ELSE 1
Pointer == Nodes \cup {Nil}
NoLoop == [node |-> Nil, side |-> Left, rem |-> FALSE]

-------------------------------------------------------------------------------
(* Pointers.  t is a value of tree. *)

Kid(t, s, n) == t.kid[s][n]

(* a unique_ptr<Node> of the tree: a child pointer, or Root::ptr *)
RootSlot == [of |-> Nil, side |-> Left]
Slot(m, s) == [of |-> m, side |-> s]

SideOf(t, n) == IF Kid(t, Left, t.parent[n]) = n THEN Left ELSE Right

parent_ptr(t, n) ==
    IF t.parent[n] # Nil THEN Slot(t.parent[n], SideOf(t, n)) ELSE RootSlot

Get(t, p) == IF p.of = Nil THEN t.head ELSE Kid(t, p.side, p.of)
Put(t, p, n) == IF p.of = Nil THEN [t EXCEPT !.head = n]
                ELSE [t EXCEPT !.kid[p.side][p.of] = n]

SetParent(t, n, m) == IF n = Nil THEN t ELSE [t EXCEPT !.parent[n] = m]
SetRoot(t, n, r) == IF n = Nil THEN t ELSE [t EXCEPT !.root[n] = r]

(* the children of n learn that it is their parent *)
Adopt(t, n) == SetParent(SetParent(t, Kid(t, Left, n), n), Kid(t, Right, n), n)

(* a node of make_unique<Node>: no pointers, h_diff 0 *)
Fresh(t, n) == [t EXCEPT !.kid[Left][n] = Nil, !.kid[Right][n] = Nil,
                         !.parent[n] = Nil, !.root[n] = FALSE, !.h_diff[n] = 0]

Owned(t) == {n \in Nodes : n = t.head \/ \E s \in Side, m \in Nodes : Kid(t, s, m) = n}

-------------------------------------------------------------------------------
(* Rotations *)

(* h_diff of n and of the child c that rises on side s, afterwards *)
RotatedDiff(t, n, c, s) ==
    LET hn == Sign(s) * t.h_diff[n]
        hc == Sign(s) * t.h_diff[c]
        n2 == IF hc <= 0 THEN hn - 1 ELSE hn - (hc + 1)
        c2 == IF n2 >= 0 THEN hc - 1 ELSE hc + n2 - 1
    IN [t.h_diff EXCEPT ![n] = Sign(s) * n2, ![c] = Sign(s) * c2]

(* mutant of Rotate: the inner grandchild keeps its parent *)
Rotate_Orphan(t, n, s) ==
    LET c == Kid(t, s, n)
        moved == Put([t EXCEPT !.kid[s][n] = Kid(t, Opposite(s), c),
                               !.kid[Opposite(s)][c] = n], parent_ptr(t, n), c)
    IN [moved EXCEPT !.parent[c] = t.parent[n], !.parent[n] = c,
                     !.root[c] = t.root[n], !.root[n] = t.root[c],
                     !.h_diff = RotatedDiff(t, n, c, s)]

(* rot_right (s = Right) and rot_left (s = Left) *)
Rotate(t, n, s) ==
    LET c == Kid(t, s, n)
        inner == Kid(t, Opposite(s), c)
        moved == Put([t EXCEPT !.kid[s][n] = inner, !.kid[Opposite(s)][c] = n],
                     parent_ptr(t, n), c)
        linked == [SetParent(moved, inner, n) EXCEPT !.parent[c] = t.parent[n],
                                                     !.parent[n] = c,
                                                     !.root[c] = t.root[n],
                                                     !.root[n] = t.root[c]]
    IN [linked EXCEPT !.h_diff = RotatedDiff(t, n, c, s)]

-------------------------------------------------------------------------------
(* Searching, and the steps of an iterator *)

(* from n down to the last node on side s *)
Extreme(t, s, n) ==
    LET end[m \in Nodes] == IF Kid(t, s, m) = Nil THEN m ELSE end[Kid(t, s, m)]
    IN end[n]

(* mutant of Neighbour: it climbs one link *)
Neighbour_OneUp(t, s, n) ==
    IF Kid(t, s, n) # Nil THEN Extreme(t, Opposite(s), Kid(t, s, n)) ELSE t.parent[n]

(* Iterator's ++ (s = Right) and -- (s = Left); Nil is end() *)
Neighbour(t, s, n) ==
    LET climb[m \in Nodes] ==
            IF t.parent[m] # Nil /\ Kid(t, s, t.parent[m]) = m
            THEN climb[t.parent[m]] ELSE t.parent[m]
    IN IF Kid(t, s, n) # Nil THEN Extreme(t, Opposite(s), Kid(t, s, n)) ELSE climb[n]

begin(t) == IF t.head = Nil THEN Nil ELSE Extreme(t, Left, t.head)

(* the first loop of find: down to k, or to where k would be attached *)
Descend(t, k, n) ==
    LET down[m \in Nodes] ==
            CASE k < key[m] /\ Kid(t, Left, m) # Nil -> down[Kid(t, Left, m)]
              [] key[m] < k /\ Kid(t, Right, m) # Nil -> down[Kid(t, Right, m)]
              [] OTHER -> m
    IN down[n]

(* the second loop of find, among the nodes equal to k; Nil: it never ends *)
FirstEqual(t, k, n) ==
    LET scan[p \in Nodes \X Pointer] ==
            IF p[2] = Nil THEN p[1]
            ELSE CASE key[p[2]] = k -> scan[<<p[2], Kid(t, Left, p[2])>>]
                   [] key[p[2]] < k -> scan[<<p[1], Kid(t, Right, p[2])>>]
                   [] key[p[2]] > k -> Nil
    IN scan[<<n, Kid(t, Left, n)>>]

find(t, k, n) == LET m == Descend(t, k, n)
                 IN IF key[m] = k THEN FirstEqual(t, k, m) ELSE m

-------------------------------------------------------------------------------
Init ==
    /\ tree = [kid |-> [s \in Side |-> [n \in Nodes |-> Nil]],
               parent |-> [n \in Nodes |-> Nil],
               root |-> [n \in Nodes |-> FALSE],
               h_diff |-> [n \in Nodes |-> 0],
               head |-> Nil]
    /\ key = Key
    /\ pc = "idle"
    /\ loop = NoLoop
    /\ swaps = 0

(* the call is over *)
Return == pc' = "idle" /\ loop' = NoLoop

(* n.rebalance(s = Right, rem), unless there is no node to call it on *)
StartRebalance(n, s, rem) ==
    IF n = Nil THEN Return
    ELSE pc' = "rebalance" /\ loop' = [node |-> n, side |-> s, rem |-> rem]

-------------------------------------------------------------------------------
(* Insertion *)

(* insert_node: the free child pointer n is moved to; among equal keys it  *)
(* starts again below the first of them                                    *)
Place(t, n) ==
    LET under[m \in Nodes] ==
            LET res == find(t, key[n], m)
            IN IF key[n] < key[res] THEN Slot(res, Left)
               ELSE IF key[res] < key[n] \/ Kid(t, Right, res) = Nil THEN Slot(res, Right)
               ELSE under[Kid(t, Right, res)]
    IN under[t.head]

(* Root::insert_node *)
Attach(t, n) ==
    IF t.head = Nil
    THEN /\ tree' = [t EXCEPT !.head = n, !.root[n] = TRUE, !.parent[n] = Nil]
         /\ Return
    ELSE LET p == Place(t, n)
         IN /\ tree' = [Put(t, p, n) EXCEPT !.root[n] = FALSE, !.parent[n] = p.of]
            /\ StartRebalance(p.of, p.side, FALSE)

(* insert(), or insert_node() of a node that is new or comes from consume(): *)
(* its h_diff is 0.  remove() leaves h_diff as it was, and no client inserts *)
(* a removed node again.                                                     *)
Insert(n) ==
    /\ pc = "idle" /\ "insert" \in Ops
    /\ n \notin Owned(tree)
    /\ Attach(Fresh(tree, n), n)
    /\ UNCHANGED <<key, swaps>>

-------------------------------------------------------------------------------
(* Rebalancing, an iteration of the loop a step.  Diff is h_diff after the *)
(* increment or decrement, counted towards the side that became higher     *)
(* (rem = FALSE) or whose sibling became lower (rem = TRUE).               *)

Diff == Sign(loop.side) * tree.h_diff[loop.node] + 1
Counted == [tree EXCEPT !.h_diff[loop.node] = Sign(loop.side) * Diff]

IsRight == /\ tree.parent[loop.node] # Nil
           /\ Kid(tree, Right, tree.parent[loop.node]) = loop.node

(* mutant of NextSide: a removal goes on as an insertion does *)
NextSide_Grew == IF IsRight THEN Right ELSE Left

(* the node above grew on this side, or shrank on the other *)
NextSide == IF IsRight # loop.rem THEN Right ELSE Left

Climb == StartRebalance(tree.parent[loop.node], NextSide, loop.rem)

(* no rotation: go on while the height of the subtree changed *)
Lean ==
    /\ pc = "rebalance" /\ Diff < 2
    /\ tree' = Counted
    /\ IF (Diff > 0 /\ ~loop.rem) \/ (Diff <= 0 /\ loop.rem) THEN Climb ELSE Return
    /\ UNCHANGED <<key, swaps>>

(* a child that leans the other way is rotated first *)
Straightened ==
    LET c == Kid(Counted, loop.side, loop.node)
    IN IF Counted.h_diff[c] = -Sign(loop.side)
       THEN Rotate(Counted, c, Opposite(loop.side)) ELSE Counted

(* the pointers that the rotations follow are not null *)
Followed ==
    LET c == Kid(tree, loop.side, loop.node)
    IN /\ c # Nil
       /\ tree.h_diff[c] = -Sign(loop.side) => Kid(tree, Opposite(loop.side), c) # Nil

(* the assert after the first of two rotations *)
Asserted ==
    tree.h_diff[Kid(tree, loop.side, loop.node)] = -Sign(loop.side) =>
        LET up == Kid(Straightened, loop.side, loop.node)
        IN Sign(loop.side) * Straightened.h_diff[up] \in {1, 2}

Turn ==
    /\ pc = "rebalance" /\ Diff >= 2 /\ Followed /\ Asserted \* or the program dies
    /\ LET top == Kid(Straightened, loop.side, loop.node)
           turned == Rotate(Straightened, loop.node, loop.side)
           lean == Sign(loop.side) * turned.h_diff[top]
       IN /\ tree' = turned
          /\ IF loop.rem # (lean = -1) THEN Climb ELSE Return
    /\ UNCHANGED <<key, swaps>>

-------------------------------------------------------------------------------
(* Removal.  The node handed back is out of the tree; what it still points *)
(* to is never read.                                                       *)

(* n has at most one child, which takes its place *)
Splice(t, n) ==
    LET s == IF Kid(t, Left, n) # Nil THEN Left ELSE Right
        c == Kid(t, s, n)
        up == SetRoot(SetParent(t, c, t.parent[n]), c, t.root[n])
    IN Put([up EXCEPT !.kid[s][n] = Nil], parent_ptr(t, n), c)

(* n has two: its successor m is taken out and put in its place *)
Successor(t, n) == Extreme(t, Left, Kid(t, Right, n))
IsLeftChild(t, n) == Successor(t, n) # Kid(t, Right, n)
(* m takes over what n points to; d, p and r are n's balance, parent, root *)
Took(t, m, n, d, p, r) ==
    [t EXCEPT !.kid[Left][m] = Kid(t, Left, n), !.kid[Right][m] = Kid(t, Right, n),
              !.kid[Left][n] = Nil, !.kid[Right][n] = Nil,
              !.h_diff[m] = d, !.parent[m] = p, !.root[m] = r]

(* mutant of Replace: what is below the successor is lost *)
Replace_Loses(t, n) ==
    LET m == Successor(t, n)
        cut == Put(t, parent_ptr(t, m), Nil)
        taken == Took(cut, m, n, t.h_diff[n], t.parent[n], t.root[n])
    IN Put(Adopt(taken, m), parent_ptr(t, n), m)
Replace(t, n) ==
    LET m == Successor(t, n)
        cut == SetParent(Put(t, parent_ptr(t, m), Kid(t, Right, m)), Kid(t, Right, m),
                         IF IsLeftChild(t, n) THEN t.parent[m] ELSE m)
        taken == Took(cut, m, n, t.h_diff[n], t.parent[n], t.root[n])
    IN Put(Adopt(taken, m), parent_ptr(t, n), m)

Remove(n) ==
    /\ pc = "idle" /\ "remove" \in Ops
    /\ n \in Owned(tree)
    /\ IF \A s \in Side : Kid(tree, s, n) # Nil
       THEN /\ tree' = Fresh(Replace(tree, n), n)
            /\ IF IsLeftChild(tree, n)
               THEN StartRebalance(tree.parent[Successor(tree, n)], Right, TRUE)
               ELSE StartRebalance(Successor(tree, n), Left, TRUE)
       ELSE /\ tree' = Fresh(Splice(tree, n), n)
            /\ StartRebalance(tree.parent[n], Opposite(parent_ptr(tree, n).side), TRUE)
    /\ UNCHANGED <<key, swaps>>

-------------------------------------------------------------------------------
(* swap_positions.  Its client (Geometry::triangulate) calls it when two   *)
(* edges cross, from when on its comparator orders them the other way.     *)

Exchanged(f, a, b) == [f EXCEPT ![a] = f[b], ![b] = f[a]]

(* where the pointer to a is once the children of a and b are exchanged *)
MovedSlot(p, a, b) == IF p.of = b THEN Slot(a, p.side) ELSE p

Swapped(t, a, b) ==
    LET pa == parent_ptr(t, a)
        pb == parent_ptr(t, b)
        released == Put(Put(t, pa, Nil), pb, Nil)
        exchanged == [kid |-> [s \in Side |-> Exchanged(released.kid[s], a, b)],
                      parent |-> Exchanged(released.parent, a, b),
                      root |-> Exchanged(released.root, a, b),
                      h_diff |-> Exchanged(released.h_diff, a, b),
                      head |-> released.head]
        reset == Put(Put(exchanged, MovedSlot(pa, a, b), b), MovedSlot(pb, b, a), a)
    IN Adopt(Adopt(reset, a), b)

SwapPositions(a, b) ==
    /\ pc = "idle" /\ swaps < MaxSwaps
    /\ a # b /\ a \in Owned(tree) /\ b \in Owned(tree)
    /\ tree' = Swapped(tree, a, b)
    /\ key' = Exchanged(key, a, b)
    /\ swaps' = swaps + 1
    /\ UNCHANGED <<pc, loop>>

-------------------------------------------------------------------------------
(* Consuming the whole tree: for (it = begin(); it != end();) it.consume() *)

ConsumeFrom(n) ==
    IF n = Nil THEN Return
    ELSE pc' = "consume" /\ loop' = [NoLoop EXCEPT !.node = n]

ConsumeBegin ==
    /\ pc = "idle" /\ "consume" \in Ops /\ tree.head # Nil
    /\ ConsumeFrom(begin(tree))
    /\ UNCHANGED <<tree, key, swaps>>

(* whatever is left of the node is destroyed; its right child takes its    *)
(* place, and nothing is rebalanced                                        *)
Consume ==
    /\ pc = "consume"
    /\ LET n == loop.node
           c == Kid(tree, Right, n)
           up == SetRoot(SetParent(tree, c, tree.parent[n]), c, tree.root[n])
       IN /\ tree' = Fresh(Put(up, parent_ptr(tree, n), c), n)
          /\ ConsumeFrom(Neighbour(tree, Right, n))
    /\ UNCHANGED <<key, swaps>>

-------------------------------------------------------------------------------
Next ==
    \/ \E n \in Nodes : Insert(n) \/ Remove(n)
    \/ \E a, b \in Nodes : SwapPositions(a, b)
    \/ Lean \/ Turn
    \/ ConsumeBegin \/ Consume

Spec == Init /\ [][Next]_vars

-------------------------------------------------------------------------------
(* Properties *)

TypeOK ==
    /\ tree \in [kid : [Side -> [Nodes -> Pointer]], parent : [Nodes -> Pointer],
                 root : [Nodes -> BOOLEAN], h_diff : [Nodes -> -2..2], head : Pointer]
    /\ key \in [Nodes -> Int]
    /\ pc \in {"idle", "rebalance", "consume"}
    /\ loop \in [node : Pointer, side : Side, rem : BOOLEAN]
    /\ swaps \in 0..MaxSwaps

(* the nodes from begin() to end(), by the child pointers *)
InOrder(t) ==
    LET walk[n \in Pointer] ==
            IF n = Nil THEN <<>>
            ELSE walk[Kid(t, Left, n)] \o <<n>> \o walk[Kid(t, Right, n)]
    IN walk[t.head]

Height(t, n) ==
    LET height[m \in Pointer] ==
            IF m = Nil THEN 0
            ELSE LET l == height[Kid(t, Left, m)]
                     r == height[Kid(t, Right, m)]
                 IN 1 + (IF l > r THEN l ELSE r)
    IN height[n]

(* A node's parent is the node whose child it is, the root's is null and   *)
(* it knows its Root, and every node that some unique_ptr of the tree owns *)
(* is owned by that one alone and reached from Root::ptr: also between two *)
(* iterations of rebalance(), when parent_ptr() is used the most.          *)
PointersAgree ==
    /\ TypeOK
    /\ tree.head # Nil => tree.parent[tree.head] = Nil /\ tree.root[tree.head]
    /\ \A n \in Nodes, s \in Side :
          Kid(tree, s, n) # Nil => tree.parent[Kid(tree, s, n)] = n
    /\ LET order == InOrder(tree)
       IN /\ {order[i] : i \in 1..Len(order)} = Owned(tree)
          /\ Len(order) = Cardinality(Owned(tree))

(* rebalance() follows no null pointer, and its asserts (btree.hpp:225 and *)
(* 245) hold: the rotation of a child that leans the other way leaves one  *)
(* that leans the same way                                                 *)
NeverDies == pc = "rebalance" /\ Diff >= 2 => Followed /\ Asserted

(* When no call is running the tree is an AVL tree and every h_diff is the *)
(* difference of the heights below it, after any mix of insertions,        *)
(* removals and exchanges; and on the way there no call dies.              *)
Balanced ==
    /\ NeverDies
    /\ pc = "idle" => \A n \in Owned(tree) :
          /\ tree.h_diff[n] = Height(tree, Kid(tree, Right, n)) - Height(tree, Kid(tree, Left, n))
          /\ tree.h_diff[n] \in -1..1

(* find() ends on the first node with the key in the order of the tree, or *)
(* on a neighbour of the place where it would be                           *)
FindsFirst ==
    pc = "idle" /\ tree.head # Nil => \A k \in {key[n] : n \in Nodes} :
        LET order == InOrder(tree)
            less == {i \in 1..Len(order) : key[order[i]] < k}
            place == Cardinality(less)
            found == find(tree, k, tree.head)
        IN \/ place < Len(order) /\ found = order[place + 1]
           \/ /\ \A i \in 1..Len(order) : key[order[i]] # k
              /\ place > 0 /\ found = order[place]

(* find() gives the first of the equal keys, wherever rotations left them, *)
(* and an iterator that stays on its node goes to the next and to the      *)
(* previous node of the order, or to end(), whatever was inserted,         *)
(* removed, rotated or exchanged around it.                                *)
IteratorsFollowOrder ==
    LET order == InOrder(tree)
        At(i) == IF i \in 1..Len(order) THEN order[i] ELSE Nil
    IN /\ FindsFirst
       /\ begin(tree) = At(1)
       /\ \A i \in 1..Len(order) :
            /\ Neighbour(tree, Right, order[i]) = At(i + 1)
            /\ Neighbour(tree, Left, order[i]) = At(i - 1)

(* The tree implements a sorted sequence: an insertion adds its node where *)
(* the order wants it, a removal takes out that node alone, an exchange    *)
(* exchanges, a rotation changes nothing the client sees, and consume()    *)
(* hands over the first of the nodes that are left.                        *)
Sorted == INSTANCE SortedSequence WITH items <- InOrder(tree)
ImplementsSorted == Sorted!Spec
===============================================================================
