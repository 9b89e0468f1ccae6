---------------------------- MODULE HashMapProofs ----------------------------
(***************************************************************************)
(* Proofs about HashMap for every number of rows, slots, keys and every    *)
(* hash function: a table holds what it should, iterators stand on every   *)
(* entry once, a table that does not grow is a dictionary, call by call,   *)
(* and probing ends: it takes steps of 1, 2, 3, ... rows, and map.hpp      *)
(* gives a table a power of two of rows, so that it comes to every row.    *)
(***************************************************************************)
EXTENDS HashMap, TLAPS, FiniteSetTheorems, SequenceTheorems

-------------------------------------------------------------------------------
(* Constants and arithmetic *)

(* A nonempty set of naturals has a least element: the intervals below its *)
(* members are finite sets, and strict inclusion of those is well-founded. *)
LEMMA LeastNatural ==
    ASSUME NEW S \in SUBSET Nat, S # {}
    PROVE  \E c \in S : \A d \in S : c <= d
<1> DEFINE T == {0..c : c \in S}
<1>1. \A c \in S : IsFiniteSet(0..c) /\ 0..c \in SUBSET Nat
    BY FS_Interval
<1>2. T \in SUBSET FiniteSubsetsOf(Nat) /\ T # {}
    BY <1>1 DEF FiniteSubsetsOf
<1>3. PICK x \in T : \A y \in T : ~(<<y, x>> \in StrictSubsetOrdering(Nat))
    BY <1>2, FS_StrictSubsetOrderingWellFounded, WFMin
<1>4. PICK c \in S : x = 0..c
    OBVIOUS
<1>5. ASSUME NEW d \in S PROVE c <= d
    <2>1. SUFFICES ASSUME d < c PROVE FALSE
        OBVIOUS
    <2>2. 0..d \in SUBSET Nat /\ 0..c \in SUBSET Nat /\ 0..d \subseteq 0..c /\ 0..d # 0..c
        BY <2>1
    <2>3. <<0..d, x>> \in StrictSubsetOrdering(Nat)
        BY <2>2, <1>4 DEF StrictSubsetOrdering
    <2>. QED BY <2>3, <1>3
<1>. QED BY <1>5

LEMMA FirstIn ==
    ASSUME NEW S \in SUBSET Nat, S # {}
    PROVE  First(S) \in S
BY LeastNatural DEF First

(* Least, the next position of an iterator, is one of the positions.       *)
LEMMA LeastIn ==
    ASSUME NEW S \in SUBSET (Nat \X Nat), S # {}
    PROVE  Least(S) \in S
<1> DEFINE I == {s[1] : s \in S}
           i == First(I)
           C == {s[2] : s \in {t \in S : t[1] = i}}
<1>1. i \in I
    <2>1. I \in SUBSET Nat /\ I # {}
        OBVIOUS
    <2>. QED BY <2>1, FirstIn
<1>2. C \in SUBSET Nat /\ C # {}
    BY <1>1
<1>3. First(C) \in C
    BY <1>2, FirstIn
<1>4. PICK s \in S : s[1] = i /\ s[2] = First(C)
    BY <1>3
<1>5. s = <<i, First(C)>>
    BY <1>4
<1>. QED BY <1>5 DEF Least

(* do_hash yields a byte that no free slot carries.                        *)
LEMMA HashType ==
    ASSUME NEW k \in Keys
    PROVE  /\ Target(k) \in 0..(Bytes - 1)
           /\ Target(k) \notin {0, SENTINEL}
           /\ do_hash(k).high \in Nat
<1>1. Hash[k] \in [low : 0..(Bytes - 1), high : 0..(HighMod - 1)]
    BY ConstantsAssumption
<1>2. Bytes \in Nat /\ Bytes > 3 /\ Bytes = 2 * SENTINEL /\ SENTINEL \in Nat /\ HighMod \in Nat
    BY ConstantsAssumption DEF SENTINEL
<1>. QED BY <1>1, <1>2 DEF Target, do_hash

LEMMA SentinelType == SENTINEL \in 0..(Bytes - 1) /\ SENTINEL # 0
BY ConstantsAssumption DEF SENTINEL

(* A probe stays inside the table.                                         *)
LEMMA ProbeRowType ==
    ASSUME rows \in Nat \ {0}, NEW k \in Keys, NEW m \in Nat
    PROVE  ProbeRow(k, m) \in Rows
<1>1. do_hash(k).high \in Nat
    BY HashType
<1>2. m * (m + 1) \in Int
    OBVIOUS
<1>3. (m * (m + 1)) \div 2 \in Int
    BY <1>2
<1>4. \A a \in Int : a % rows \in 0..(rows - 1)
    OBVIOUS
<1>. QED BY <1>1, <1>3, <1>4 DEF ProbeRow, Rows

-------------------------------------------------------------------------------
(* Type correctness *)

(* What TypeOK needs to be inductive: where resize() and an iterator are.  *)
Cursor ==
    /\ rows >= InitialRows
    /\ pc = "resize" => rows > InitialRows
    /\ pc = "at" => pos \in Rows \X Slots
    /\ (pc = "at" /\ call.op = "clear") => pos \in Live

TypeInv == TypeOK /\ Cursor

LEMMA LiveType == TypeOK => Live \in SUBSET (Nat \X Nat)
BY DEF Live, Rows, Slots, TypeOK

(* The slot a probe reads, or writes, is a slot of the row it stands on.   *)
LEMMA RowSlots ==
    ASSUME TypeOK
    PROVE  /\ Row \in Rows
           /\ Matches(Row, call.key) # {} => HitSlot \in Matches(Row, call.key)
           /\ Free(Row) # {} => First(Free(Row)) \in Free(Row)
<1>1. call.key \in Keys /\ n \in Nat /\ rows \in Nat \ {0}
    BY DEF TypeOK, Period
<1>2. Row \in Rows
    BY <1>1, ProbeRowType DEF Row
<1>3. Matches(Row, call.key) \in SUBSET Nat /\ Free(Row) \in SUBSET Nat
    BY DEF Matches, Free, Slots
<1>. QED BY <1>2, <1>3, FirstIn DEF HitSlot

LEMMA TypeInit == Init => TypeInv
<1>. SUFFICES ASSUME Init PROVE TypeInv
    OBVIOUS
<1>1. TypeOK
    BY ConstantsAssumption DEF Init, TypeOK, Rows, Slots, Period, NoCall
<1>2. Cursor
    BY ConstantsAssumption DEF Init, Cursor
<1>. QED BY <1>1, <1>2 DEF TypeInv

(* What a step that does not grow the table owes to keep TypeOK.           *)
LEMMA TypeStep ==
    ASSUME TypeOK, rows' = rows,
           ctl' \in [Rows -> [Slots -> 0..(Bytes - 1)]],
           bucket' \in [Rows -> [Slots -> [key : Keys, val : Values]]],
           count' \in Int,
           call' \in [op : Ops \cup {"none"}, key : Keys, val : Values],
           pc' \in {"idle", "resize", "probe", "at"},
           n' \in 0..(Period - 1),
           pos' \in (0..rows) \X Slots,
           seen' \in Seq(Rows \X Slots),
           ret' \in Values \cup {NoValue}
    PROVE  TypeOK'
BY DEF TypeOK, Rows, Slots, Period

LEMMA FinishType ==
    ASSUME TypeOK, rows' = rows, Finish,
           ctl' \in [Rows -> [Slots -> 0..(Bytes - 1)]],
           bucket' \in [Rows -> [Slots -> [key : Keys, val : Values]]],
           count' \in Int,
           ret' \in Values \cup {NoValue}
    PROVE  TypeOK'
<1>1. /\ call' \in [op : Ops \cup {"none"}, key : Keys, val : Values]
      /\ pc' \in {"idle", "resize", "probe", "at"}
      /\ seen' \in Seq(Rows \X Slots)
    BY ConstantsAssumption DEF Finish, NoCall
<1>2. n' \in 0..(Period - 1)
    BY DEF Finish, TypeOK, Period
<1>3. pos' \in (0..rows) \X Slots
    BY ConstantsAssumption DEF Finish, TypeOK, Slots
<1>. QED BY <1>1, <1>2, <1>3, TypeStep

(* Cursor speaks of a running call only beyond the size of the table.      *)
LEMMA FinishCursor ==
    ASSUME Cursor, rows' = rows, Finish
    PROVE  Cursor'
BY DEF Cursor, Finish

(* The invariant survives each kind of step.                               *)
LEMMA TypeCalls == TypeInv /\ Calls => TypeInv'
<1>. SUFFICES ASSUME TypeInv, Calls PROVE TypeInv'
    OBVIOUS
<1>. USE DEF TypeInv
<1>1. ASSUME NEW op, NEW k \in Keys, NEW v \in Values, Begin(op, k, v)
      PROVE  /\ call' \in [op : Ops \cup {"none"}, key : Keys, val : Values]
             /\ n' = 0 /\ seen' = <<>> /\ ret' = ret
             /\ n' \in 0..(Period - 1)
    BY <1>1 DEF Begin, TypeOK, Period
<1>2. ASSUME NEW op, NEW k \in Keys, NEW v \in Values, Begin(op, k, v),
             pc' = "probe", UNCHANGED <<table, pos>>
      PROVE  TypeInv'
    <2>1. UNCHANGED <<rows, ctl, bucket, count, pos>>
        BY <1>2 DEF table
    <2>2. /\ call' \in [op : Ops \cup {"none"}, key : Keys, val : Values]
          /\ seen' = <<>> /\ ret' = ret /\ n' \in 0..(Period - 1)
        BY <1>1, <1>2
    <2>3. TypeOK'
        BY <1>2, <2>1, <2>2, TypeStep DEF TypeOK
    <2>4. Cursor'
        BY <1>2, <2>1 DEF Cursor
    <2>. QED BY <2>3, <2>4
<1>3. ASSUME NEW op, NEW k \in Keys, NEW v \in Values, Begin(op, k, v), Grow
      PROVE  TypeInv'
    <2>1. rows \in Nat \ {0} /\ rows' = 2 * rows /\ rows' \in Nat \ {0}
        BY <1>3 DEF Grow, TypeOK
    <2>. DEFINE NoBytes == [c \in Slots |-> 0]
                NoPairs == [c \in Slots |-> [key |-> DefaultKey, val |-> DefaultValue]]
    <2>a. /\ NoBytes \in [Slots -> 0..(Bytes - 1)]
          /\ NoPairs \in [Slots -> [key : Keys, val : Values]]
        BY ConstantsAssumption
    <2>b. \A i \in 0..(2 * rows - 1) : i < rows => i \in Rows
        BY <2>1 DEF Rows
    <2>c. Rows' = 0..(2 * rows - 1)
        BY <2>1 DEF Rows
    <2>2. ctl' \in [Rows' -> [Slots -> 0..(Bytes - 1)]]
        <3>1. ctl' = [i \in Rows' |-> IF i < rows THEN ctl[i] ELSE NoBytes]
            BY <1>3, <2>c DEF Grow
        <3>2. ctl \in [Rows -> [Slots -> 0..(Bytes - 1)]]
            BY DEF TypeOK
        <3>. HIDE DEF NoBytes
        <3>. QED BY <2>a, <2>b, <2>c, <3>1, <3>2
    <2>3. bucket' \in [Rows' -> [Slots -> [key : Keys, val : Values]]]
        <3>1. bucket' = [i \in Rows' |-> IF i < rows THEN bucket[i] ELSE NoPairs]
            BY <1>3, <2>c DEF Grow
        <3>2. bucket \in [Rows -> [Slots -> [key : Keys, val : Values]]]
            BY DEF TypeOK
        <3>. HIDE DEF NoPairs
        <3>. QED BY <2>a, <2>b, <2>c, <3>1, <3>2
    <2>4. pos' \in (0..rows') \X Slots /\ pc' = "resize" /\ count' = count
        BY <1>3, <2>1, ConstantsAssumption DEF Grow, Slots
    <2>5. n' \in 0..(Period' - 1)
        BY <1>1, <1>3, <2>1 DEF Period
    <2>6. TypeOK'
        <3>1. /\ call' \in [op : Ops \cup {"none"}, key : Keys, val : Values]
              /\ seen' \in Seq(Rows' \X Slots) /\ ret' \in Values \cup {NoValue}
              /\ count' \in Int /\ pc' \in {"idle", "resize", "probe", "at"}
            <4>1. seen' = <<>> /\ ret' = ret /\ call' \in [op : Ops \cup {"none"}, key : Keys, val : Values]
                BY <1>1, <1>3
            <4>. QED BY <4>1, <2>4 DEF TypeOK
        <3>. QED BY <3>1, <2>1, <2>2, <2>3, <2>4, <2>5 DEF TypeOK, Slots
    <2>7. Cursor'
        BY <2>1, <2>4, ConstantsAssumption DEF Cursor
    <2>. QED BY <2>6, <2>7
<1>4. ASSUME NEW op, NEW k \in Keys, Search(op, k)
      PROVE  TypeInv'
    BY <1>2, <1>4, ConstantsAssumption DEF Search
<1>5. ASSUME NEW op, NEW k \in Keys, NEW v \in Values, Store(op, k, v)
      PROVE  TypeInv'
    BY <1>2, <1>3, <1>5 DEF Store
<1>. QED BY <1>4, <1>5, ConstantsAssumption DEF Calls

(* The slot resize() looks at, and the one it moves an entry to.           *)
LEMMA ResizeSlots ==
    ASSUME TypeOK, pos[1] < PrevRows
    PROVE  /\ pos[1] \in Rows /\ pos[2] \in Slots
           /\ Walked(pos) \in (0..rows) \X Slots
<1>1. pos[1] \in Nat /\ pos[2] \in Slots /\ pos[1] < rows /\ rows \in Nat /\ W \in Nat
    BY ConstantsAssumption DEF TypeOK, PrevRows
<1>2. CASE pos[2] + 1 < W
    BY <1>1, <1>2 DEF Walked, Slots, Rows
<1>3. CASE ~(pos[2] + 1 < W)
    BY <1>1, <1>3 DEF Walked, Slots, Rows
<1>. QED BY <1>2, <1>3

LEMMA MoveTarget ==
    ASSUME TypeOK, ResizeMove
    PROVE  \E i \in Rows : \E d \in Slots :
              /\ ctl[i][d] \in {0, SENTINEL} \/ <<i, d>> = pos
              /\ ctl' = [ctl EXCEPT ![pos[1]][pos[2]] = SENTINEL,
                                    ![i][d] = Target(KeyAt(pos))]
              /\ bucket' = [bucket EXCEPT ![i][d] = bucket[pos[1]][pos[2]]]
<1>1. pos[2] \in Slots /\ pos = <<pos[1], pos[2]>>
    BY ResizeSlots DEF ResizeMove, ResizeMoving, TypeOK
<1>2. ASSUME NEW i \in Rows, NEW d \in Slots, GoesTo(pos, i, d)
      PROVE  ctl[i][d] \in {0, SENTINEL} \/ <<i, d>> = pos
    <2>1. FreeAfter(pos, i) \in SUBSET Nat
        BY <1>1 DEF FreeAfter, Free, Slots
    <2>2. d \in FreeAfter(pos, i)
        BY <1>2, <2>1, FirstIn DEF GoesTo
    <2>. QED BY <1>1, <2>2 DEF FreeAfter, Free
<1>. QED BY <1>2 DEF ResizeMove, ResizeMoving

LEMMA TypeResize == TypeInv /\ Resize => TypeInv'
<1>. SUFFICES ASSUME TypeInv, Resize PROVE TypeInv'
    OBVIOUS
<1>. USE DEF TypeInv
<1>1. CASE ResizeSkip
    <2>1. TypeOK'
        BY <1>1, ResizeSlots, TypeStep DEF ResizeSkip, table, TypeOK
    <2>. QED BY <1>1, <2>1 DEF ResizeSkip, table, Cursor
<1>2. CASE ResizeMove
    <2>1. pos[1] \in Rows /\ pos[2] \in Slots /\ pos' \in (0..rows) \X Slots
        BY <1>2, ResizeSlots DEF ResizeMove, ResizeMoving
    <2>2. PICK i \in Rows, d \in Slots :
              /\ ctl' = [ctl EXCEPT ![pos[1]][pos[2]] = SENTINEL,
                                    ![i][d] = Target(KeyAt(pos))]
              /\ bucket' = [bucket EXCEPT ![i][d] = bucket[pos[1]][pos[2]]]
        BY <1>2, MoveTarget
    <2>3. Target(KeyAt(pos)) \in 0..(Bytes - 1) /\ SENTINEL \in 0..(Bytes - 1)
        <3>1. bucket[pos[1]][pos[2]] \in [key : Keys, val : Values]
            BY <2>1 DEF TypeOK
        <3>2. KeyAt(pos) \in Keys
            BY <3>1 DEF KeyAt
        <3>. QED BY <3>2, HashType, SentinelType
    <2>. DEFINE marked == [ctl EXCEPT ![pos[1]][pos[2]] = SENTINEL]
    <2>4. ctl' \in [Rows -> [Slots -> 0..(Bytes - 1)]]
        <3>1. marked \in [Rows -> [Slots -> 0..(Bytes - 1)]]
            BY <2>1, <2>3 DEF TypeOK
        <3>2. ctl' = [marked EXCEPT ![i][d] = Target(KeyAt(pos))]
            BY <2>2
        <3>. HIDE DEF marked
        <3>. QED BY <2>3, <3>1, <3>2
    <2>6. bucket' \in [Rows -> [Slots -> [key : Keys, val : Values]]]
        BY <2>1, <2>2 DEF TypeOK
    <2>5. TypeOK'
        BY <1>2, <2>1, <2>4, <2>6, TypeStep DEF ResizeMove, ResizeMoving, TypeOK
    <2>. QED BY <1>2, <2>5 DEF ResizeMove, ResizeMoving, Cursor
<1>3. CASE ResizeDone
    <2>1. pos' \in (0..rows) \X Slots
        BY <1>3, ConstantsAssumption DEF ResizeDone, TypeOK, Slots
    <2>2. TypeOK'
        BY <1>3, <2>1, TypeStep DEF ResizeDone, table, TypeOK
    <2>. QED BY <1>3, <2>2 DEF ResizeDone, table, Cursor
<1>. QED BY <1>1, <1>2, <1>3 DEF Resize

(* What the writes of a probe and of an iterator do to the types.          *)
LEMMA MarkType ==
    ASSUME TypeOK, NEW i \in Rows, NEW c \in Slots, NEW b \in 0..(Bytes - 1)
    PROVE  [ctl EXCEPT ![i][c] = b] \in [Rows -> [Slots -> 0..(Bytes - 1)]]
BY DEF TypeOK

LEMMA PairType ==
    ASSUME TypeOK, NEW i \in Rows, NEW c \in Slots
    PROVE  /\ bucket[i][c] \in [key : Keys, val : Values]
           /\ \A p \in [key : Keys, val : Values] :
                [bucket EXCEPT ![i][c] = p] \in [Rows -> [Slots -> [key : Keys, val : Values]]]
           /\ \A k \in Keys :
                [bucket EXCEPT ![i][c].key = k] \in [Rows -> [Slots -> [key : Keys, val : Values]]]
           /\ \A v \in Values :
                [bucket EXCEPT ![i][c].val = v] \in [Rows -> [Slots -> [key : Keys, val : Values]]]
<1>1. /\ bucket[i][c] \in [key : Keys, val : Values]
      /\ \A p \in [key : Keys, val : Values] :
           [bucket EXCEPT ![i][c] = p] \in [Rows -> [Slots -> [key : Keys, val : Values]]]
    BY DEF TypeOK
<1>2. ASSUME NEW k \in Keys
      PROVE  [bucket EXCEPT ![i][c].key = k] \in [Rows -> [Slots -> [key : Keys, val : Values]]]
    <2>1. [bucket[i][c] EXCEPT !.key = k] \in [key : Keys, val : Values]
        BY <1>1
    <2>2. [bucket EXCEPT ![i][c].key = k] = [bucket EXCEPT ![i][c] = [bucket[i][c] EXCEPT !.key = k]]
        BY DEF TypeOK
    <2>. QED BY <1>1, <2>1, <2>2
<1>3. ASSUME NEW v \in Values
      PROVE  [bucket EXCEPT ![i][c].val = v] \in [Rows -> [Slots -> [key : Keys, val : Values]]]
    <2>1. [bucket[i][c] EXCEPT !.val = v] \in [key : Keys, val : Values]
        BY <1>1
    <2>2. [bucket EXCEPT ![i][c].val = v] = [bucket EXCEPT ![i][c] = [bucket[i][c] EXCEPT !.val = v]]
        BY DEF TypeOK
    <2>. QED BY <1>1, <2>1, <2>2
<1>. QED BY <1>1, <1>2, <1>3

LEMMA PlaceType ==
    ASSUME TypeOK, NEW i \in Rows, NEW c \in Slots, Place(i, c)
    PROVE  TypeOK'
<1>1. call.key \in Keys /\ call.val \in Values
    BY DEF TypeOK
<1>2. Target(call.key) \in 0..(Bytes - 1)
    BY <1>1, HashType
<1>3. ctl' \in [Rows -> [Slots -> 0..(Bytes - 1)]]
    BY <1>2, MarkType DEF Place
<1>4. bucket' \in [Rows -> [Slots -> [key : Keys, val : Values]]]
    BY <1>1, PairType DEF Place
<1>5. ret' \in Values \cup {NoValue}
    BY PairType DEF Place
<1>. QED BY <1>3, <1>4, <1>5, FinishType DEF Place, TypeOK

LEMMA TypeProbe == TypeInv /\ ProbeStep => TypeInv'
<1>. SUFFICES ASSUME TypeInv, ProbeStep PROVE TypeInv'
    OBVIOUS
<1>. USE DEF TypeInv
<1>1. Row \in Rows
    BY RowSlots
<1>2. Hit => HitSlot \in Slots
    BY RowSlots DEF Hit, Matches
<1>3. Free(Row) # {} => First(Free(Row)) \in Slots
    BY RowSlots DEF Free
<1>4. Hit => ValAt(<<Row, HitSlot>>) \in Values
    BY <1>1, <1>2, PairType DEF ValAt
<1>5. SENTINEL \in 0..(Bytes - 1)
    BY SentinelType
<1>6. CASE LookupHit
    <2>1. UNCHANGED <<rows, ctl, bucket, count>> /\ Finish /\ ret' \in Values
        BY <1>4, <1>6 DEF LookupHit, table, ValAt
    <2>. QED BY <2>1, FinishType, FinishCursor DEF TypeOK
<1>7. CASE InsertHit
    <2>1. rows' = rows /\ ctl' = ctl /\ count' = count /\ Finish /\ ret' \in Values
        BY <1>4, <1>7 DEF InsertHit, ValAt
    <2>2. bucket' \in [Rows -> [Slots -> [key : Keys, val : Values]]]
        <3>1. call.val \in Values
            BY DEF TypeOK
        <3>. QED BY <1>1, <1>2, <1>7, <3>1, PairType DEF InsertHit
    <2>. QED BY <2>1, <2>2, FinishType, FinishCursor DEF TypeOK
<1>8. CASE RemoveHit
    <2>1. rows' = rows /\ bucket' = bucket /\ count' = count - 1 /\ Finish /\ ret' \in Values
        BY <1>4, <1>8 DEF RemoveHit, ValAt
    <2>2. ctl' \in [Rows -> [Slots -> 0..(Bytes - 1)]]
        BY <1>1, <1>2, <1>5, <1>8, MarkType DEF RemoveHit
    <2>. QED BY <2>1, <2>2, FinishType, FinishCursor DEF TypeOK
<1>9. CASE FindHit
    <2>1. <<Row, HitSlot>> \in Rows \X Slots
        BY <1>1, <1>2, <1>9 DEF FindHit
    <2>2. pos' \in (0..rows) \X Slots
        BY <1>9, <2>1 DEF FindHit, Rows, TypeOK
    <2>3. seen' \in Seq(Rows \X Slots)
        BY <1>9, <2>1, AppendProperties DEF FindHit, TypeOK
    <2>4. UNCHANGED <<rows, ctl, bucket, count, call, n>> /\ pc' = "at" /\ ret' \in Values
        BY <1>4, <1>9 DEF FindHit, table, ValAt
    <2>5. TypeOK'
        BY <2>2, <2>3, <2>4, TypeStep DEF TypeOK
    <2>6. Cursor'
        BY <1>9, <2>1, <2>4 DEF FindHit, Cursor, Rows
    <2>. QED BY <2>5, <2>6
<1>10. CASE Miss
    <2>1. UNCHANGED <<rows, ctl, bucket, count>> /\ Finish /\ ret' \in Values \cup {NoValue}
        BY <1>10 DEF Miss, table, TypeOK
    <2>. QED BY <2>1, FinishType, FinishCursor DEF TypeOK
<1>11. ASSUME Free(Row) # {}, Place(Row, First(Free(Row))) PROVE TypeInv'
    <2>1. TypeOK'
        BY <1>1, <1>3, <1>11, PlaceType
    <2>. QED BY <1>11, <2>1, FinishCursor DEF Place
<1>12. CASE StoreMiss
    <2>1. Free(Row) # {}
        BY <1>12 DEF StoreMiss, Cont, Free
    <2>. QED BY <1>11, <1>12, <2>1 DEF StoreMiss
<1>13. CASE Advance
    <2>1. UNCHANGED <<rows, ctl, bucket, count, call, pc, pos, seen, ret>>
        BY <1>13 DEF Advance, table
    <2>2. n' \in 0..(Period - 1)
        <3>1. n \in Nat /\ Period \in Nat \ {0}
            BY DEF TypeOK, Period
        <3>2. \A a \in Nat, p \in Nat \ {0} : a % p \in 0..(p - 1)
            OBVIOUS
        <3>. QED BY <1>13, <3>1, <3>2 DEF Advance
    <2>3. TypeOK'
        BY <2>1, <2>2, TypeStep DEF TypeOK
    <2>4. Cursor'
        BY <1>13, <2>1 DEF Advance, NoHit, Cursor
    <2>. QED BY <2>3, <2>4
<1>. QED BY <1>6, <1>7, <1>8, <1>9, <1>10, <1>12, <1>13 DEF ProbeStep

LEMMA StandOnType ==
    ASSUME TypeInv, NEW S \in SUBSET Live, S # {}, rows' = rows, StandOn(Least(S))
    PROVE  /\ Least(S) \in S /\ pos' = Least(S) /\ pos' \in Rows \X Slots
           /\ pos' \in (0..rows) \X Slots
           /\ seen' \in Seq(Rows \X Slots)
           /\ ret' \in Values \cup {NoValue}
           /\ pc' = "at"
<1>. USE DEF TypeInv
<1>1. Least(S) \in S
    <2>1. S \in SUBSET (Nat \X Nat)
        BY LiveType
    <2>. QED BY <2>1, LeastIn
<1>2. Least(S) \in Rows \X Slots
    BY <1>1 DEF Live
<1>3. Least(S) \in (0..rows) \X Slots
    BY <1>2 DEF Rows, TypeOK
<1>4. Append(seen, Least(S)) \in Seq(Rows \X Slots)
    BY <1>2, AppendProperties DEF TypeOK
<1>5. ValAt(Least(S)) \in Values
    BY <1>2, PairType DEF ValAt
<1>. QED BY <1>1, <1>2, <1>3, <1>4, <1>5 DEF StandOn, TypeOK

LEMMA TypeIterators == TypeInv /\ Iterators => TypeInv'
<1>. SUFFICES ASSUME TypeInv, Iterators PROVE TypeInv'
    OBVIOUS
<1>. USE DEF TypeInv
<1>1. ASSUME NEW op, Iterate(op) PROVE TypeInv'
    <2>1. UNCHANGED <<rows, ctl, bucket, count, n>> /\ Live # {} /\ StandOn(Least(Live))
        BY <1>1 DEF Iterate, table
    <2>2. call' \in [op : Ops \cup {"none"}, key : Keys, val : Values]
        BY <1>1, ConstantsAssumption DEF Iterate, NoCall
    <2>3. TypeOK'
        BY <2>1, <2>2, StandOnType, TypeStep DEF TypeOK
    <2>4. Cursor'
        BY <2>1, StandOnType DEF Cursor, Rows, Live, IsLive
    <2>. QED BY <2>3, <2>4
<1>2. ASSUME pos \in Rows \X Slots, Drop(pos[1], pos[2])
      PROVE  /\ rows' = rows /\ bucket' = bucket /\ count' \in Int
             /\ ctl' \in [Rows -> [Slots -> 0..(Bytes - 1)]]
    BY <1>2, SentinelType, MarkType DEF Drop, TypeOK
<1>3. CASE RemoveHere
    <2>1. pos \in Rows \X Slots /\ Drop(pos[1], pos[2])
        BY <1>3 DEF RemoveHere, Cursor
    <2>2. UNCHANGED <<call, pc, n, pos, seen, ret>> /\ call.op # "clear"
        BY <1>3 DEF RemoveHere
    <2>3. TypeOK'
        BY <1>2, <2>1, <2>2, TypeStep DEF TypeOK
    <2>4. Cursor'
        BY <1>2, <2>1, <2>2 DEF Cursor, Rows
    <2>. QED BY <2>3, <2>4
<1>4. LiveAfter(pos) \in SUBSET Live
    BY DEF LiveAfter
<1>5. CASE IterateNext
    <2>1. UNCHANGED <<rows, ctl, bucket, count>> /\ NextOrEnd /\ call.op = "iterate"
        BY <1>5 DEF IterateNext, table
    <2>2. CASE LiveAfter(pos) = {} /\ Finish /\ UNCHANGED ret
        BY <2>1, <2>2, FinishType, FinishCursor DEF TypeOK
    <2>3. CASE LiveAfter(pos) # {} /\ UNCHANGED <<call, n>> /\ StandOn(Least(LiveAfter(pos)))
        <3>1. TypeOK'
            BY <1>4, <2>1, <2>3, StandOnType, TypeStep DEF TypeOK
        <3>2. Cursor'
            BY <1>4, <2>1, <2>3, StandOnType DEF Cursor, Rows
        <3>. QED BY <3>1, <3>2
    <2>. QED BY <2>1, <2>2, <2>3 DEF NextOrEnd
<1>6. CASE ClearNext
    <2>1. pos \in Rows \X Slots /\ Drop(pos[1], pos[2]) /\ NextOrEnd
        BY <1>6 DEF ClearNext, Cursor
    <2>2. CASE LiveAfter(pos) = {} /\ Finish /\ UNCHANGED ret
        BY <1>2, <2>1, <2>2, FinishType, FinishCursor DEF TypeOK
    <2>3. CASE LiveAfter(pos) # {} /\ UNCHANGED <<call, n>> /\ StandOn(Least(LiveAfter(pos)))
        <3>1. /\ pos' = Least(LiveAfter(pos)) /\ pos' \in LiveAfter(pos)
              /\ pos' \in Rows \X Slots
            BY <1>2, <1>4, <2>1, <2>3, StandOnType
        <3>2. TypeOK'
            BY <1>2, <1>4, <2>1, <2>3, StandOnType, TypeStep DEF TypeOK
        <3>3. pos' \in Live'
            <4>1. pos' \in Live /\ Before(pos, pos')
                BY <3>1 DEF LiveAfter
            <4>2. pos'[1] # pos[1] \/ pos'[2] # pos[2]
                BY <2>1, <3>1, <4>1 DEF Before, Rows, Slots
            <4>3. ctl'[pos'[1]][pos'[2]] = ctl[pos'[1]][pos'[2]]
                BY <2>1, <3>1, <4>2 DEF Drop, TypeOK
            <4>4. ctl'[pos'[1]][pos'[2]] \notin {0, SENTINEL}
                BY <4>1, <4>3 DEF Live, IsLive
            <4>. QED BY <1>2, <2>1, <3>1, <4>4 DEF Live, IsLive, Rows
        <3>4. Cursor'
            BY <1>2, <2>1, <2>3, <3>1, <3>3 DEF StandOn, Cursor, Rows
        <3>. QED BY <3>2, <3>4
    <2>. QED BY <2>1, <2>2, <2>3 DEF NextOrEnd
<1>7. CASE FindNext
    <2>1. UNCHANGED <<rows, ctl, bucket, count, call, seen, ret>> /\ pc' = "probe"
        BY <1>7 DEF FindNext, table
    <2>2. n' \in 0..(Period - 1)
        <3>1. n \in Nat /\ Period \in Nat \ {0}
            BY DEF TypeOK, Period
        <3>2. \A a \in Nat, p \in Nat \ {0} : a % p \in 0..(p - 1)
            OBVIOUS
        <3>. QED BY <1>7, <3>1, <3>2 DEF FindNext
    <2>3. pos' \in (0..rows) \X Slots
        BY <1>7, ConstantsAssumption DEF FindNext, TypeOK, Slots
    <2>4. TypeOK'
        BY <2>1, <2>2, <2>3, TypeStep DEF TypeOK
    <2>. QED BY <2>1, <2>4 DEF Cursor
<1>8. CASE Stop
    <2>1. UNCHANGED <<rows, ctl, bucket, count, ret>> /\ Finish
        BY <1>8 DEF Stop, table
    <2>. QED BY <2>1, FinishType, FinishCursor DEF TypeOK
<1>. QED BY <1>1, <1>3, <1>5, <1>6, <1>7, <1>8 DEF Iterators

LEMMA TypeNext == TypeInv /\ [Next]_vars => TypeInv'
<1>. SUFFICES ASSUME TypeInv, [Next]_vars PROVE TypeInv'
    OBVIOUS
<1>1. CASE UNCHANGED vars
    BY <1>1 DEF vars, TypeInv, TypeOK, Cursor, Rows, Slots, Period, Live, IsLive
<1>. QED BY <1>1, TypeCalls, TypeResize, TypeProbe, TypeIterators DEF Next

(* Every reachable state has the types of TypeOK: the cursors of probing,  *)
(* growing and iterating never leave the table, whatever its size.         *)
THEOREM TypeCorrect == Spec => []TypeOK
<1>1. Spec => []TypeInv
    BY TypeInit, TypeNext, PTL DEF Spec
<1>. QED BY <1>1, PTL DEF TypeInv

-------------------------------------------------------------------------------
(* Map::count and the control bytes *)

LEMMA LiveFinite ==
    ASSUME TypeOK
    PROVE  IsFiniteSet(Live) /\ Cardinality(Live) \in Nat
<1>1. IsFiniteSet(Rows) /\ IsFiniteSet(Slots)
    BY FS_Interval, ConstantsAssumption DEF TypeOK, Rows, Slots
<1>2. IsFiniteSet(Rows \X Slots)
    BY <1>1, FS_Product
<1>3. IsFiniteSet(Live)
    BY <1>2, FS_Subset DEF Live
<1>. QED BY <1>3, FS_CardinalityType

(* Writing one control byte makes one slot live, or not.                   *)
LEMMA LiveMark ==
    ASSUME TypeOK, rows' = rows, NEW i \in Rows, NEW c \in Slots, NEW b,
           ctl' = [ctl EXCEPT ![i][c] = b]
    PROVE  Live' = IF b \in {0, SENTINEL} THEN Live \ {<<i, c>>} ELSE Live \cup {<<i, c>>}
<1>1. \A s \in Rows \X Slots :
        ctl'[s[1]][s[2]] = IF s = <<i, c>> THEN b ELSE ctl[s[1]][s[2]]
    BY DEF TypeOK
<1>2. Live' = {s \in Rows \X Slots : ctl'[s[1]][s[2]] \notin {0, SENTINEL}}
    BY DEF Live, IsLive, Rows
<1>3. Live = {s \in Rows \X Slots : ctl[s[1]][s[2]] \notin {0, SENTINEL}}
    BY DEF Live, IsLive
<1>4. <<i, c>> \in Rows \X Slots
    OBVIOUS
<1>. QED BY <1>1, <1>2, <1>3, <1>4

LEMMA CountDrop ==
    ASSUME TypeOK, CountCorrect, rows' = rows, NEW i \in Rows, NEW c \in Slots,
           <<i, c>> \in Live, ctl' = [ctl EXCEPT ![i][c] = SENTINEL], count' = count - 1
    PROVE  CountCorrect'
<1>1. Live' = Live \ {<<i, c>>}
    BY LiveMark
<1>2. Cardinality(Live \ {<<i, c>>}) = Cardinality(Live) - 1
    BY LiveFinite, FS_RemoveElement
<1>. QED BY <1>1, <1>2 DEF CountCorrect

LEMMA CountPlace ==
    ASSUME TypeOK, CountCorrect, rows' = rows, NEW i \in Rows, NEW c \in Slots,
           <<i, c>> \notin Live, NEW k \in Keys,
           ctl' = [ctl EXCEPT ![i][c] = Target(k)], count' = count + 1
    PROVE  CountCorrect'
<1>1. Live' = Live \cup {<<i, c>>}
    BY LiveMark, HashType
<1>2. Cardinality(Live \cup {<<i, c>>}) = Cardinality(Live) + 1
    BY LiveFinite, FS_AddElement
<1>. QED BY <1>1, <1>2 DEF CountCorrect

(* resize() marks one slot and fills another, or the same one.             *)
LEMMA LiveMove ==
    ASSUME TypeOK, pos \in Live, rows' = rows, NEW i \in Rows, NEW d \in Slots,
           ctl[i][d] \in {0, SENTINEL} \/ <<i, d>> = pos,
           ctl' = [ctl EXCEPT ![pos[1]][pos[2]] = SENTINEL, ![i][d] = Target(KeyAt(pos))]
    PROVE  /\ Live' = (Live \ {pos}) \cup {<<i, d>>}
           /\ <<i, d>> \notin Live \ {pos}
           /\ ctl'[i][d] = Target(KeyAt(pos))
           /\ \A s \in Live \ {pos} : ctl'[s[1]][s[2]] = ctl[s[1]][s[2]]
<1>1. pos \in Rows \X Slots /\ pos = <<pos[1], pos[2]>>
    BY DEF Live
<1>2. KeyAt(pos) \in Keys
    BY <1>1 DEF KeyAt, TypeOK
<1>3. Target(KeyAt(pos)) \notin {0, SENTINEL}
    BY <1>2, HashType
<1>4. \A s \in Rows \X Slots :
        ctl'[s[1]][s[2]] = IF s = <<i, d>> THEN Target(KeyAt(pos))
                           ELSE IF s = pos THEN SENTINEL ELSE ctl[s[1]][s[2]]
    <2>. DEFINE marked == [ctl EXCEPT ![pos[1]][pos[2]] = SENTINEL]
    <2>1. ctl \in [Rows -> [Slots -> 0..(Bytes - 1)]]
        BY DEF TypeOK
    <2>2. pos[1] \in Rows /\ pos[2] \in Slots
        BY <1>1
    <2>3. marked \in [Rows -> [Slots -> 0..(Bytes - 1)]]
        BY <2>1, <2>2, SentinelType
    <2>4. \A j \in Rows, e \in Slots :
            marked[j][e] = IF j = pos[1] /\ e = pos[2] THEN SENTINEL ELSE ctl[j][e]
        BY <2>1, <2>2
    <2>5. ctl' = [marked EXCEPT ![i][d] = Target(KeyAt(pos))]
        OBVIOUS
    <2>. HIDE DEF marked
    <2>6. \A j \in Rows, e \in Slots :
            ctl'[j][e] = IF j = i /\ e = d THEN Target(KeyAt(pos)) ELSE marked[j][e]
        BY <2>3, <2>5
    <2>7. ASSUME NEW s \in Rows \X Slots
          PROVE  /\ s[1] \in Rows /\ s[2] \in Slots
                 /\ s = <<i, d>> <=> s[1] = i /\ s[2] = d
                 /\ s = pos <=> s[1] = pos[1] /\ s[2] = pos[2]
        BY <1>1
    <2>8. ASSUME NEW s \in Rows \X Slots
          PROVE  ctl'[s[1]][s[2]] = IF s = <<i, d>> THEN Target(KeyAt(pos))
                                    ELSE IF s = pos THEN SENTINEL ELSE ctl[s[1]][s[2]]
        <3>1. ctl'[s[1]][s[2]] = IF s[1] = i /\ s[2] = d THEN Target(KeyAt(pos))
                                 ELSE marked[s[1]][s[2]]
            BY <2>6, <2>7
        <3>2. marked[s[1]][s[2]] = IF s[1] = pos[1] /\ s[2] = pos[2] THEN SENTINEL
                                   ELSE ctl[s[1]][s[2]]
            BY <2>4, <2>7
        <3>. HIDE DEF marked
        <3>. QED BY <2>7, <3>1, <3>2
    <2>. QED BY <2>8
<1>5. <<i, d>> \in Rows \X Slots /\ <<i, d>>[1] = i /\ <<i, d>>[2] = d
    OBVIOUS
<1>6. <<i, d>> \notin Live \ {pos}
    BY <1>5 DEF Live, IsLive
<1>7. Live' = {s \in Rows \X Slots : ctl'[s[1]][s[2]] \notin {0, SENTINEL}}
    BY DEF Live, IsLive, Rows
<1>8. Live = {s \in Rows \X Slots : ctl[s[1]][s[2]] \notin {0, SENTINEL}}
    BY DEF Live, IsLive
<1>9. Live' = (Live \ {pos}) \cup {<<i, d>>}
    <2>1. ASSUME NEW s PROVE s \in Live' <=> s \in (Live \ {pos}) \cup {<<i, d>>}
        BY <1>3, <1>4, <1>5, <1>7, <1>8
    <2>. QED BY <2>1
<1>. QED BY <1>1, <1>4, <1>5, <1>6, <1>8, <1>9

LEMMA MoveLive ==
    ASSUME TypeOK, ResizeMove
    PROVE  pos \in Live /\ rows' = rows /\ count' = count
<1>1. pos[1] \in Rows /\ pos[2] \in Slots /\ pos = <<pos[1], pos[2]>> /\ pos \in Rows \X Slots
    BY ResizeSlots DEF ResizeMove, ResizeMoving, TypeOK
<1>. QED BY <1>1 DEF ResizeMove, ResizeMoving, Moves, Live

LEMMA MoveCardinality ==
    ASSUME TypeOK, ResizeMove
    PROVE  Cardinality(Live') = Cardinality(Live) /\ count' = count
<1>1. pos \in Live /\ rows' = rows /\ count' = count
    BY MoveLive
<1>2. PICK i \in Rows, d \in Slots :
              /\ ctl[i][d] \in {0, SENTINEL} \/ <<i, d>> = pos
              /\ ctl' = [ctl EXCEPT ![pos[1]][pos[2]] = SENTINEL,
                                    ![i][d] = Target(KeyAt(pos))]
    BY MoveTarget
<1>3. Live' = (Live \ {pos}) \cup {<<i, d>>} /\ <<i, d>> \notin Live \ {pos}
    BY <1>1, <1>2, LiveMove
<1>4. IsFiniteSet(Live \ {pos}) /\ Cardinality(Live \ {pos}) = Cardinality(Live) - 1
    BY <1>1, LiveFinite, FS_RemoveElement
<1>5. Cardinality(Live') = Cardinality(Live)
    <2>1. Cardinality((Live \ {pos}) \cup {<<i, d>>}) = Cardinality(Live \ {pos}) + 1
        BY <1>3, <1>4, FS_AddElement
    <2>. QED BY <1>3, <1>4, <2>1, LiveFinite
<1>. QED BY <1>1, <1>5

(* Growing adds rows that hold nothing.                                    *)
LEMMA LiveGrow ==
    ASSUME TypeOK, Grow
    PROVE  /\ Live' = Live
           /\ \A s \in Live : /\ ctl'[s[1]][s[2]] = ctl[s[1]][s[2]]
                              /\ bucket'[s[1]] = bucket[s[1]]
<1>1. rows \in Nat /\ rows' = 2 * rows
    BY DEF Grow, TypeOK
<1>2. Rows' = 0..(2 * rows - 1)
    BY <1>1 DEF Rows
<1>3. \A i \in Rows : i \in Rows' /\ ctl'[i] = ctl[i] /\ bucket'[i] = bucket[i]
    BY <1>1, <1>2 DEF Grow, Rows
<1>4. \A i \in Rows' : i \notin Rows => \A c \in Slots : ctl'[i][c] = 0
    BY <1>1, <1>2 DEF Grow, Rows
<1>5. Live' = {s \in Rows' \X Slots : ctl'[s[1]][s[2]] \notin {0, SENTINEL}}
    BY DEF Live, IsLive
<1>6. Live = {s \in Rows \X Slots : ctl[s[1]][s[2]] \notin {0, SENTINEL}}
    BY DEF Live, IsLive
<1>7. ASSUME NEW s PROVE s \in Live' <=> s \in Live
    BY <1>3, <1>4, <1>5, <1>6
<1>8. ASSUME NEW s \in Live
      PROVE  ctl'[s[1]][s[2]] = ctl[s[1]][s[2]] /\ bucket'[s[1]] = bucket[s[1]]
    BY <1>3, <1>6
<1>. QED BY <1>7, <1>8

LEMMA HitLive ==
    ASSUME TypeOK, Hit
    PROVE  <<Row, HitSlot>> \in Live /\ Row \in Rows /\ HitSlot \in Slots
<1>1. Row \in Rows /\ HitSlot \in Matches(Row, call.key)
    BY RowSlots DEF Hit
<1>2. call.key \in Keys
    BY DEF TypeOK
<1>. QED BY <1>1, <1>2, HashType DEF Matches, Live, IsLive

LEMMA FreeSlot ==
    ASSUME TypeOK, Free(Row) # {}
    PROVE  /\ Row \in Rows /\ First(Free(Row)) \in Slots
           /\ <<Row, First(Free(Row))>> \notin Live
<1>1. Row \in Rows /\ First(Free(Row)) \in Free(Row)
    BY RowSlots
<1>. QED BY <1>1 DEF Free, Live, IsLive

(* A storing step fills a slot that was free.                              *)
LEMMA PlaceStep ==
    ASSUME TypeOK, StoreMiss
    PROVE  Free(Row) # {} /\ Place(Row, First(Free(Row)))
BY DEF StoreMiss, Cont, Free

(* An iterator that removes stands on an entry.                            *)
LEMMA DropStep ==
    ASSUME TypeInv, RemoveHere \/ ClearNext
    PROVE  /\ Drop(pos[1], pos[2]) /\ pos = <<pos[1], pos[2]>>
           /\ pos[1] \in Rows /\ pos[2] \in Slots /\ pos \in Live
BY DEF TypeInv, Cursor, RemoveHere, ClearNext, Live

(* The steps that leave every control byte and the count alone.            *)
QuietStep ==
    \/ \E op, k : Search(op, k)
    \/ ResizeSkip \/ ResizeDone
    \/ LookupHit \/ InsertHit \/ FindHit \/ Miss \/ Advance
    \/ \E op : Iterate(op)
    \/ IterateNext \/ FindNext \/ Stop
    \/ UNCHANGED vars

LEMMA QuietTable ==
    ASSUME QuietStep
    PROVE  UNCHANGED <<rows, ctl, count>>
BY DEF QuietStep, Search, ResizeSkip, ResizeDone, LookupHit, InsertHit, FindHit, Miss,
       Advance, Iterate, IterateNext, FindNext, Stop, table, vars

(* Every step is one of those, or one of six that write.                   *)
LEMMA StepCases ==
    ASSUME [Next]_vars
    PROVE  \/ QuietStep
           \/ \E op, k, v : Store(op, k, v)
           \/ ResizeMove
           \/ RemoveHit
           \/ StoreMiss
           \/ RemoveHere \/ ClearNext
BY DEF Next, Calls, Resize, ProbeStep, Iterators, QuietStep

LEMMA CountNext == TypeInv /\ CountCorrect /\ [Next]_vars => CountCorrect'
<1>. SUFFICES ASSUME TypeInv, CountCorrect, [Next]_vars PROVE CountCorrect'
    OBVIOUS
<1>. TypeOK
    BY DEF TypeInv
<1>1. ASSUME UNCHANGED <<rows, ctl, count>> PROVE CountCorrect'
    BY <1>1 DEF CountCorrect, Live, IsLive, Rows
<1>2. ASSUME NEW op, NEW k, NEW v, Store(op, k, v) PROVE CountCorrect'
    <2>1. CASE Grow
        BY <2>1, LiveGrow DEF Grow, CountCorrect
    <2>2. CASE UNCHANGED table
        BY <1>1, <2>2 DEF table
    <2>. QED BY <1>2, <2>1, <2>2 DEF Store, table
<1>3. CASE ResizeMove
    BY <1>3, MoveCardinality DEF CountCorrect
<1>4. CASE RemoveHit
    BY <1>4, HitLive, CountDrop DEF RemoveHit
<1>5. CASE StoreMiss
    <2>1. call.key \in Keys
        BY DEF TypeOK
    <2>. QED BY <1>5, <2>1, PlaceStep, FreeSlot, CountPlace DEF Place
<1>6. CASE RemoveHere \/ ClearNext
    <2>1. /\ Drop(pos[1], pos[2]) /\ pos[1] \in Rows /\ pos[2] \in Slots
          /\ <<pos[1], pos[2]>> \in Live
        BY <1>6, DropStep
    <2>. QED BY <2>1, CountDrop DEF Drop
<1>. QED BY <1>1, <1>2, <1>3, <1>4, <1>5, <1>6, StepCases, QuietTable

LEMMA InitEmpty == Init => Live = {}
BY ConstantsAssumption DEF Init, Live, IsLive, Rows, Slots

(* Map::count is the number of entries in the table, in every reachable    *)
(* state: no sequence of inserts, removals through any of the three ways,  *)
(* clears and growths makes it drift, or go below zero.                    *)
THEOREM CountIsEntries == Spec => []CountCorrect
<1>1. Init => CountCorrect
    BY InitEmpty, FS_EmptySet DEF Init, CountCorrect
<1>2. Spec => []TypeInv
    BY TypeInit, TypeNext, PTL DEF Spec
<1>. QED BY <1>1, <1>2, CountNext, PTL DEF Spec

(* A table has its shape and its count in every reachable state. *)
THEOREM TableAlwaysSound == Spec => []TableSound
<1>1. TypeOK /\ CountCorrect => TableSound
    BY DEF TableSound
<1>. QED BY <1>1, TypeCorrect, CountIsEntries, PTL

-------------------------------------------------------------------------------
(* The load *)

(* Inductive: an insertion that probes, or waits for the table to grow,    *)
(* has found the table no more than half full.                             *)
LoadInv ==
    /\ LoadBounded
    /\ pc = "resize" => 2 * count <= rows * W

LEMMA LoadType == TypeOK => count \in Int /\ rows * W \in Nat \ {0}
BY ConstantsAssumption DEF TypeOK

(* What a step that leaves the rows and adds no entry owes.                *)
LEMMA LoadKept ==
    ASSUME TypeOK, LoadInv, rows' = rows, count' = count \/ count' = count - 1,
           (pc' = "probe" /\ Storing') \/ pc' = "resize" => (pc = "probe" /\ Storing) \/ pc = "resize"
    PROVE  LoadInv'
<1>. DEFINE slots == rows * W
<1>1. slots' = slots /\ slots \in Nat /\ count \in Int
    BY LoadType
<1>. HIDE DEF slots
<1>2. 2 * (count - 1) <= slots /\ ((pc = "probe" /\ Storing) \/ pc = "resize" => 2 * count <= slots)
    BY DEF LoadInv, LoadBounded, slots
<1>3. /\ 2 * (count' - 1) <= slots'
      /\ (pc' = "probe" /\ Storing') \/ pc' = "resize" => 2 * count' <= slots'
    BY <1>1, <1>2
<1>. QED BY <1>3 DEF LoadInv, LoadBounded, slots

LEMMA LoadStore ==
    ASSUME TypeOK, LoadInv, NEW op, NEW k, NEW v, Store(op, k, v)
    PROVE  LoadInv'
<1>. DEFINE slots == rows * W
<1>1. slots \in Nat \ {0} /\ count \in Int /\ W \in Nat /\ rows \in Nat
    BY LoadType, ConstantsAssumption DEF TypeOK
<1>2. CASE load_factor /\ Grow
    <2>1. slots' = 2 * slots /\ count' = count
        BY <1>1, <1>2 DEF Grow
    <2>. HIDE DEF slots
    <2>2. 2 * (count - 1) <= slots
        BY DEF LoadInv, LoadBounded, slots
    <2>3. 2 * (count' - 1) <= slots' /\ 2 * count' <= slots'
        BY <1>1, <2>1, <2>2
    <2>. QED BY <2>3 DEF LoadInv, LoadBounded, slots
<1>3. CASE ~load_factor /\ UNCHANGED table
    <2>1. slots' = slots /\ count' = count /\ ~(2 * count > slots)
        BY <1>3 DEF load_factor, table
    <2>. HIDE DEF slots
    <2>2. 2 * (count' - 1) <= slots' /\ 2 * count' <= slots'
        BY <1>1, <2>1
    <2>. QED BY <2>2 DEF LoadInv, LoadBounded, slots
<1>. QED BY <1>2, <1>3 DEF Store

(* The one step that adds an entry.                                        *)
LEMMA LoadPlace == TypeOK /\ LoadInv /\ StoreMiss => LoadInv'
<1>. SUFFICES ASSUME TypeOK, LoadInv, StoreMiss PROVE LoadInv'
    OBVIOUS
<1>. DEFINE slots == rows * W
<1>1. /\ slots' = slots /\ slots \in Nat /\ count \in Int
      /\ count' = count + 1 /\ pc' = "idle"
    BY LoadType DEF StoreMiss, Place, Finish
<1>. HIDE DEF slots
<1>2. 2 * count <= slots
    BY DEF LoadInv, LoadBounded, StoreMiss, NoHit, slots
<1>3. 2 * (count' - 1) <= slots'
    BY <1>1, <1>2
<1>. QED BY <1>1, <1>3 DEF LoadInv, LoadBounded, slots

LEMMA LoadNext == TypeInv /\ LoadInv /\ [Next]_vars => LoadInv'
<1>. SUFFICES ASSUME TypeOK, LoadInv, [Next]_vars PROVE LoadInv'
    BY DEF TypeInv
<1>1. CASE UNCHANGED vars
    BY <1>1, LoadKept DEF vars, Storing
<1>2. CASE Calls
    <2>1. ASSUME NEW op \in {"lookup", "remove", "find"}, NEW k, Search(op, k)
          PROVE  LoadInv'
        <3>1. rows' = rows /\ count' = count /\ pc' = "probe" /\ call'.op = op
            BY <2>1 DEF Search, Begin, table
        <3>. QED BY <3>1, LoadKept DEF Storing
    <2>. QED BY <1>2, <2>1, LoadStore DEF Calls
<1>3. CASE Resize
    <2>1. rows' = rows /\ count' = count /\ pc = "resize"
        BY <1>3 DEF Resize, ResizeSkip, ResizeMove, ResizeMoving, ResizeDone, table
    <2>. QED BY <2>1, LoadKept
<1>4. CASE ProbeStep
    <2>1. CASE LookupHit \/ InsertHit \/ RemoveHit \/ Miss
        BY <2>1, LoadKept DEF LookupHit, InsertHit, RemoveHit, Miss, Finish, table
    <2>2. CASE FindHit \/ Advance
        BY <2>2, LoadKept DEF FindHit, Advance, NoHit, Storing, table
    <2>. QED BY <1>4, <2>1, <2>2, LoadPlace DEF ProbeStep
<1>5. CASE Iterators
    <2>1. CASE \E op \in {"iterate", "clear"} : Iterate(op)
        BY <2>1, LoadKept DEF Iterate, StandOn, table
    <2>2. CASE RemoveHere \/ Stop
        BY <2>2, LoadKept DEF RemoveHere, Drop, Stop, Finish, table
    <2>3. CASE IterateNext \/ ClearNext
        BY <2>3, LoadKept DEF IterateNext, ClearNext, NextOrEnd, Drop, StandOn, Finish, table
    <2>4. CASE FindNext
        BY <2>4, LoadKept DEF FindNext, Storing, table
    <2>. QED BY <1>5, <2>1, <2>2, <2>3, <2>4 DEF Iterators
<1>. QED BY <1>1, <1>2, <1>3, <1>4, <1>5 DEF Next

(* check_resize() is enough for any width of the rows and any mix of       *)
(* calls: the table is never more than one entry over half full, though    *)
(* the load is read before the insertion and only ever doubles the rows.   *)
THEOREM LoadIsBounded == Spec => []LoadBounded
<1>1. Init => LoadInv
    <2>1. InitialRows * W \in Nat
        BY ConstantsAssumption
    <2>2. \A slots \in Nat : 2 * (0 - 1) <= slots
        OBVIOUS
    <2>. QED BY <2>1, <2>2 DEF Init, LoadInv, LoadBounded
<1>2. Spec => []TypeInv
    BY TypeInit, TypeNext, PTL DEF Spec
<1>3. LoadInv => LoadBounded
    BY DEF LoadInv
<1>. QED BY <1>1, <1>2, <1>3, LoadNext, PTL DEF Spec

-------------------------------------------------------------------------------
(* Where the entries are *)

LEMMA PlaceFacts ==
    ASSUME TypeOK, NEW i \in Rows, NEW c \in Slots, <<i, c>> \notin Live, Place(i, c)
    PROVE  /\ Live' = Live \cup {<<i, c>>}
           /\ ctl'[i][c] = Target(call.key) /\ bucket'[i][c].key = call.key
           /\ \A s \in Live : ctl'[s[1]][s[2]] = ctl[s[1]][s[2]] /\ KeyAt(s)' = KeyAt(s)
           /\ \A j \in Rows : Cont(j) => Cont(j)'
<1>1. call.key \in Keys
    BY DEF TypeOK
<1>2. Target(call.key) \notin {0, SENTINEL}
    BY <1>1, HashType
<1>3. Live' = Live \cup {<<i, c>>}
    BY <1>2, LiveMark DEF Place
<1>4. \A j \in Rows, e \in Slots :
        ctl'[j][e] = IF j = i /\ e = c THEN Target(call.key) ELSE ctl[j][e]
    BY DEF Place, TypeOK
<1>5. \A j \in Rows, e \in Slots : (j # i \/ e # c) => bucket'[j][e] = bucket[j][e]
    BY DEF Place, TypeOK
<1>6. bucket'[i][c].key = call.key
    BY PairType DEF Place, TypeOK
<1>7. ASSUME NEW s \in Live
      PROVE  ctl'[s[1]][s[2]] = ctl[s[1]][s[2]] /\ KeyAt(s)' = KeyAt(s)
    <2>1. s[1] \in Rows /\ s[2] \in Slots /\ (s[1] # i \/ s[2] # c)
        BY DEF Live
    <2>. QED BY <2>1, <1>4, <1>5 DEF KeyAt
<1>8. \A j \in Rows : Cont(j) => Cont(j)'
    BY <1>2, <1>4 DEF Cont
<1>. QED BY <1>3, <1>4, <1>6, <1>7, <1>8

LEMMA DropFacts ==
    ASSUME TypeOK, NEW i \in Rows, NEW c \in Slots, rows' = rows, bucket' = bucket,
           ctl' = [ctl EXCEPT ![i][c] = SENTINEL]
    PROVE  /\ Live' = Live \ {<<i, c>>}
           /\ \A s \in Live' : ctl'[s[1]][s[2]] = ctl[s[1]][s[2]] /\ KeyAt(s)' = KeyAt(s)
           /\ \A j \in Rows : Cont(j) => Cont(j)'
<1>1. Live' = Live \ {<<i, c>>}
    BY LiveMark
<1>2. \A j \in Rows, e \in Slots :
        ctl'[j][e] = IF j = i /\ e = c THEN SENTINEL ELSE ctl[j][e]
    BY DEF TypeOK
<1>3. ASSUME NEW s \in Live'
      PROVE  ctl'[s[1]][s[2]] = ctl[s[1]][s[2]] /\ KeyAt(s)' = KeyAt(s)
    <2>1. s[1] \in Rows /\ s[2] \in Slots /\ (s[1] # i \/ s[2] # c)
        BY <1>1 DEF Live
    <2>. QED BY <2>1, <1>2 DEF KeyAt
<1>4. \A j \in Rows : Cont(j) => Cont(j)'
    BY <1>2, SentinelType DEF Cont
<1>. QED BY <1>1, <1>3, <1>4

LEMMA QuietKeys ==
    ASSUME TypeOK, QuietStep
    PROVE  /\ Live' = Live
           /\ \A s \in Live : ctl'[s[1]][s[2]] = ctl[s[1]][s[2]] /\ KeyAt(s)' = KeyAt(s)
           /\ \A j \in Rows : Cont(j) => Cont(j)'
<1>1. rows' = rows /\ ctl' = ctl
    BY QuietTable
<1>2. bucket' = bucket \/ InsertHit
    BY DEF QuietStep, Search, ResizeSkip, ResizeDone, LookupHit, FindHit, Miss,
           Advance, Iterate, IterateNext, FindNext, Stop, table, vars
<1>3. ASSUME NEW i \in Rows, NEW c \in Slots PROVE bucket'[i][c].key = bucket[i][c].key
    <2>1. CASE InsertHit
        <3>1. Row \in Rows /\ HitSlot \in Slots
            BY <2>1, HitLive DEF InsertHit
        <3>. QED BY <2>1, <3>1, PairType DEF InsertHit, TypeOK
    <2>. QED BY <1>2, <2>1
<1>4. Live' = Live
    BY <1>1 DEF Live, IsLive, Rows
<1>. QED BY <1>1, <1>3, <1>4 DEF KeyAt, Live, Cont

(* The ways a step may treat the entries.                                  *)
LEMMA RemoveFacts ==
    ASSUME TypeInv, RemoveHit \/ RemoveHere \/ ClearNext
    PROVE  /\ rows' = rows /\ Live' \subseteq Live
           /\ \A s \in Live' : ctl'[s[1]][s[2]] = ctl[s[1]][s[2]] /\ KeyAt(s)' = KeyAt(s)
           /\ \A j \in Rows : Cont(j) => Cont(j)'
<1>. TypeOK
    BY DEF TypeInv
<1>1. \E i \in Rows, c \in Slots :
        rows' = rows /\ bucket' = bucket /\ ctl' = [ctl EXCEPT ![i][c] = SENTINEL]
    BY HitLive, DropStep DEF RemoveHit, Drop
<1>. QED BY <1>1, DropFacts

LEMMA StoreFacts ==
    ASSUME TypeOK, StoreMiss
    PROVE  \E i \in Rows, c \in Slots :
             /\ i = Row /\ rows' = rows /\ Finish /\ <<i, c>> \notin Live
             /\ Live' = Live \cup {<<i, c>>}
             /\ ctl'[i][c] = Target(call.key) /\ bucket'[i][c].key = call.key
             /\ \A s \in Live : ctl'[s[1]][s[2]] = ctl[s[1]][s[2]] /\ KeyAt(s)' = KeyAt(s)
             /\ \A j \in Rows : Cont(j) => Cont(j)'
<1>. DEFINE c == First(Free(Row))
<1>1. Row \in Rows /\ c \in Slots /\ <<Row, c>> \notin Live /\ Place(Row, c)
    BY PlaceStep, FreeSlot
<1>. HIDE DEF c
<1>. QED BY <1>1, PlaceFacts DEF Place

LEMMA MoveFacts ==
    ASSUME TypeOK, ResizeMove
    PROVE  \E i \in Rows, d \in Slots :
             /\ Live' = (Live \ {pos}) \cup {<<i, d>>}
             /\ ctl'[i][d] = Target(KeyAt(pos)) /\ bucket'[i][d] = bucket[pos[1]][pos[2]]
             /\ \A s \in Live \ {pos} : /\ s # <<i, d>>
                                        /\ ctl'[s[1]][s[2]] = ctl[s[1]][s[2]]
                                        /\ bucket'[s[1]][s[2]] = bucket[s[1]][s[2]]
<1>1. pos \in Live /\ rows' = rows
    BY MoveLive
<1>2. PICK i \in Rows, d \in Slots :
              /\ ctl[i][d] \in {0, SENTINEL} \/ <<i, d>> = pos
              /\ ctl' = [ctl EXCEPT ![pos[1]][pos[2]] = SENTINEL,
                                    ![i][d] = Target(KeyAt(pos))]
              /\ bucket' = [bucket EXCEPT ![i][d] = bucket[pos[1]][pos[2]]]
    BY MoveTarget
<1>3. /\ Live' = (Live \ {pos}) \cup {<<i, d>>}
      /\ <<i, d>> \notin Live \ {pos}
      /\ ctl'[i][d] = Target(KeyAt(pos))
      /\ \A s \in Live \ {pos} : ctl'[s[1]][s[2]] = ctl[s[1]][s[2]]
    BY <1>1, <1>2, LiveMove
<1>4. bucket'[i][d] = bucket[pos[1]][pos[2]]
    BY <1>2 DEF TypeOK
<1>5. ASSUME NEW s \in Live \ {pos}
      PROVE  s # <<i, d>> /\ bucket'[s[1]][s[2]] = bucket[s[1]][s[2]]
    <2>1. s[1] \in Rows /\ s[2] \in Slots /\ s = <<s[1], s[2]>> /\ s # <<i, d>>
        BY <1>3 DEF Live
    <2>2. s[1] # i \/ s[2] # d
        BY <2>1
    <2>. QED BY <1>2, <2>1, <2>2 DEF TypeOK
<1>. QED BY <1>3, <1>4, <1>5

LEMMA TagsNext == TypeInv /\ TagsMatch /\ [Next]_vars => TagsMatch'
<1>. SUFFICES ASSUME TypeInv, TagsMatch, [Next]_vars PROVE TagsMatch'
    OBVIOUS
<1>. TypeOK
    BY DEF TypeInv
<1>1. ASSUME Live' \subseteq Live,
             \A s \in Live' : ctl'[s[1]][s[2]] = ctl[s[1]][s[2]] /\ KeyAt(s)' = KeyAt(s)
      PROVE  TagsMatch'
    <2>1. SUFFICES ASSUME NEW s \in Live' PROVE ctl'[s[1]][s[2]] = Target(KeyAt(s)')
        BY DEF TagsMatch, KeyAt, Target, do_hash
    <2>. QED BY <1>1, <2>1 DEF TagsMatch
<1>2. CASE QuietStep
    BY <1>1, <1>2, QuietKeys
<1>3. ASSUME NEW op, NEW k, NEW v, Store(op, k, v) PROVE TagsMatch'
    <2>1. CASE Grow
        BY <1>1, <2>1, LiveGrow DEF KeyAt
    <2>2. CASE UNCHANGED table
        BY <2>2 DEF table, TagsMatch, Live, IsLive, Rows, KeyAt, Target, do_hash
    <2>. QED BY <1>3, <2>1, <2>2 DEF Store, table
<1>4. CASE ResizeMove
    <2>1. PICK i \in Rows, d \in Slots :
             /\ Live' = (Live \ {pos}) \cup {<<i, d>>}
             /\ ctl'[i][d] = Target(KeyAt(pos)) /\ bucket'[i][d] = bucket[pos[1]][pos[2]]
             /\ \A s \in Live \ {pos} : /\ s # <<i, d>>
                                        /\ ctl'[s[1]][s[2]] = ctl[s[1]][s[2]]
                                        /\ bucket'[s[1]][s[2]] = bucket[s[1]][s[2]]
        BY <1>4, MoveFacts
    <2>2. SUFFICES ASSUME NEW s \in Live' PROVE ctl'[s[1]][s[2]] = Target(KeyAt(s)')
        BY DEF TagsMatch, KeyAt, Target, do_hash
    <2>3. CASE s = <<i, d>>
        BY <2>1, <2>3 DEF KeyAt
    <2>4. CASE s \in Live \ {pos}
        BY <2>1, <2>4 DEF KeyAt, TagsMatch
    <2>. QED BY <2>1, <2>2, <2>3, <2>4
<1>5. CASE RemoveHit \/ RemoveHere \/ ClearNext
    BY <1>1, <1>5, RemoveFacts
<1>6. CASE StoreMiss
    <2>1. PICK i \in Rows, c \in Slots :
             /\ Live' = Live \cup {<<i, c>>}
             /\ ctl'[i][c] = Target(call.key) /\ bucket'[i][c].key = call.key
             /\ \A s \in Live : ctl'[s[1]][s[2]] = ctl[s[1]][s[2]] /\ KeyAt(s)' = KeyAt(s)
        BY <1>6, StoreFacts
    <2>2. SUFFICES ASSUME NEW s \in Live' PROVE ctl'[s[1]][s[2]] = Target(KeyAt(s)')
        BY DEF TagsMatch, KeyAt, Target, do_hash
    <2>3. CASE s = <<i, c>>
        BY <2>1, <2>3 DEF KeyAt
    <2>4. CASE s \in Live
        BY <2>1, <2>4 DEF TagsMatch
    <2>. QED BY <2>1, <2>2, <2>3, <2>4
<1>. QED BY <1>2, <1>3, <1>4, <1>5, <1>6, StepCases

(* The control byte of every entry is the low byte of its key's hash, so   *)
(* match() skips no key it looks for and resize() rehashes the right one.  *)
THEOREM TagsAreHashes == Spec => []TagsMatch
<1>1. Init => TagsMatch
    BY InitEmpty DEF TagsMatch
<1>2. Spec => []TypeInv
    BY TypeInit, TypeNext, PTL DEF Spec
<1>. QED BY <1>1, <1>2, TagsNext, PTL DEF Spec

-------------------------------------------------------------------------------
(* A table that has not grown *)

(* A storing call has met neither its key nor the end of a chain so far.   *)
Probed == (pc = "probe" /\ Storing) =>
            \A l \in 0..(n - 1) : /\ Cont(ProbeRow(call.key, l))
                                 /\ Matches(ProbeRow(call.key, l), call.key) = {}

FixedInv == rows = InitialRows =>
                /\ Distinct
                /\ \A s \in Live : Reachable(s)
                /\ Probed

LEMMA SameRow ==
    ASSUME rows' = rows, NEW k, NEW m
    PROVE  ProbeRow(k, m)' = ProbeRow(k, m)
BY DEF ProbeRow, do_hash

(* A path stays open: control bytes that were used are never reset to 0.   *)
LEMMA ReachKept ==
    ASSUME TypeOK, rows' = rows, \A j \in Rows : Cont(j) => Cont(j)',
           NEW s \in Live, KeyAt(s)' = KeyAt(s), Reachable(s)
    PROVE  Reachable(s)'
<1>. DEFINE k == KeyAt(s)
<1>1. k \in Keys /\ rows \in Nat \ {0}
    BY DEF KeyAt, TypeOK, Live
<1>2. PICK m \in 0..(Period - 1) : PathTo(k, s[1], m)
    BY DEF Reachable
<1>3. \A l \in Nat : ProbeRow(k, l) \in Rows
    BY <1>1, ProbeRowType
<1>4. \A l \in Nat : (ProbeRow(KeyAt(s), l))' = ProbeRow(k, l)
    BY SameRow DEF ProbeRow, do_hash
<1>5. (ProbeRow(KeyAt(s), m))' = s[1]
    BY <1>2, <1>4 DEF PathTo
<1>6. ASSUME NEW l \in 0..(m - 1) PROVE Cont(ProbeRow(KeyAt(s), l))'
    <2>1. Cont(ProbeRow(k, l)) /\ ProbeRow(k, l) \in Rows
        BY <1>2, <1>3, <1>6 DEF PathTo
    <2>2. \A c \in Slots : ctl'[ProbeRow(k, l)][c] # 0
        BY <2>1 DEF Cont
    <2>. QED BY <1>4, <1>6, <2>2 DEF Cont
<1>7. m \in 0..(Period' - 1)
    BY DEF Period
<1>. QED BY <1>5, <1>6, <1>7 DEF Reachable, PathTo

LEMMA FixedKept ==
    ASSUME TypeOK, rows' = rows, Distinct, \A s \in Live : Reachable(s),
           Live' \subseteq Live,
           \A s \in Live' : KeyAt(s)' = KeyAt(s),
           \A j \in Rows : Cont(j) => Cont(j)'
    PROVE  Distinct' /\ \A s \in Live' : Reachable(s)'
<1>1. Distinct'
    BY DEF Distinct
<1>2. ASSUME NEW s \in Live' PROVE Reachable(s)'
    BY <1>2, ReachKept
<1>. QED BY <1>1, <1>2

(* What a storing call that meets the end of the chain may conclude.       *)
LEMMA NotStored ==
    ASSUME TypeOK, TagsMatch, Probed, pc = "probe", Storing, NoHit, ~Cont(Row),
           NEW s \in Live, Reachable(s)
    PROVE  KeyAt(s) # call.key
<1>. DEFINE k == call.key
<1>1. SUFFICES ASSUME KeyAt(s) = k PROVE FALSE
    OBVIOUS
<1>2. PICK m \in 0..(Period - 1) : PathTo(k, s[1], m)
    BY <1>1 DEF Reachable
<1>3. s[2] \in Matches(s[1], k) /\ ProbeRow(k, m) = s[1]
    BY <1>1, <1>2 DEF TagsMatch, Live, Matches, KeyAt, PathTo
<1>4. n \in Nat /\ m \in Nat
    BY DEF TypeOK, Period
<1>5. CASE m < n
    BY <1>3, <1>4, <1>5 DEF Probed
<1>6. CASE m = n
    BY <1>3, <1>6 DEF NoHit, Row
<1>7. CASE n < m
    <2>1. Cont(ProbeRow(k, n))
        BY <1>2, <1>4, <1>7 DEF PathTo
    <2>. QED BY <2>1 DEF Row
<1>. QED BY <1>4, <1>5, <1>6, <1>7

LEMMA ProbedNext ==
    ASSUME TypeInv, Probed, rows = InitialRows, rows' = rows, [Next]_vars
    PROVE  Probed'
<1>. TypeOK /\ Cursor
    BY DEF TypeInv
<1>1. SUFFICES ASSUME (pc = "probe" /\ Storing)' PROVE
          \A l \in 0..(n' - 1) : /\ Cont(ProbeRow(call.key, l))'
                               /\ (Matches(ProbeRow(call.key, l), call.key) = {})'
    BY DEF Probed
<1>2. pc' # "idle" /\ pc' # "at"
    BY <1>1
<1>3. CASE n' = 0
    BY <1>3
<1>4. CASE Advance
    <2>1. UNCHANGED <<rows, ctl, bucket, call>> /\ n' = (n + 1) % Period
        BY <1>4 DEF Advance, table
    <2>2. NoHit /\ Cont(Row) /\ pc = "probe" /\ Storing
        BY <1>1, <1>4, <2>1 DEF Advance, Storing
    <2>3. n' = 0 \/ n' = n + 1
        <3>1. n \in Nat /\ n + 1 <= Period /\ Period \in Nat \ {0}
            BY DEF TypeOK, Period
        <3>2. \A a \in Nat, p \in Nat \ {0} : a <= p => a % p = 0 \/ a % p = a
            OBVIOUS
        <3>. QED BY <2>1, <3>1, <3>2
    <2>4. \A l \in 0..n : /\ Cont(ProbeRow(call.key, l))
                          /\ Matches(ProbeRow(call.key, l), call.key) = {}
        <3>1. n \in Nat
            BY DEF TypeOK, Period
        <3>. QED BY <2>2, <3>1 DEF Probed, NoHit, Row
    <2>5. \A l \in 0..n : (ProbeRow(call.key, l))' = ProbeRow(call.key, l)
        BY <2>1 DEF ProbeRow, do_hash
    <2>6. \A l \in 0..n : /\ Cont(ProbeRow(call.key, l))'
                          /\ (Matches(ProbeRow(call.key, l), call.key) = {})'
        BY <2>1, <2>4, <2>5 DEF Cont, Matches, Target, do_hash
    <2>7. n \in Nat
        BY DEF TypeOK, Period
    <2>. QED BY <2>3, <2>6, <2>7
<1>5. CASE UNCHANGED vars
    <2>1. UNCHANGED <<rows, ctl, bucket, call, pc, n>>
        BY <1>5 DEF vars
    <2>2. \A l \in 0..(n - 1) : (ProbeRow(call.key, l))' = ProbeRow(call.key, l)
        BY <2>1 DEF ProbeRow, do_hash
    <2>. QED BY <1>1, <2>1, <2>2 DEF Probed, Storing, Cont, Matches, Target, do_hash
<1>6. CASE Calls
    <2>1. n' = 0
        BY <1>6 DEF Calls, Search, Store, Begin
    <2>. QED BY <2>1, <1>3
<1>7. CASE Resize
    <2>1. pc = "resize"
        BY <1>7 DEF Resize, ResizeSkip, ResizeMove, ResizeMoving, ResizeDone
    <2>. QED BY <2>1, ConstantsAssumption DEF Cursor
<1>8. CASE ProbeStep /\ ~Advance
    BY <1>2, <1>8 DEF ProbeStep, LookupHit, InsertHit, RemoveHit, FindHit, Miss,
                      StoreMiss, Place, Finish
<1>9. CASE Iterators
    <2>1. ~FindNext
        BY <1>1 DEF FindNext, table, Storing
    <2>. QED BY <1>2, <1>9, <2>1 DEF Iterators, Iterate, RemoveHere, IterateNext, ClearNext,
                             NextOrEnd, StandOn, Stop, Finish
<1>10. Calls \/ Resize \/ Advance \/ (ProbeStep /\ ~Advance) \/ Iterators \/ UNCHANGED vars
    BY DEF Next
<1>. QED BY <1>4, <1>5, <1>6, <1>7, <1>8, <1>9, <1>10

LEMMA FixedNext == TypeInv /\ TagsMatch /\ FixedInv /\ [Next]_vars => FixedInv'
<1>1. SUFFICES ASSUME TypeInv, TagsMatch, FixedInv, [Next]_vars, rows' = InitialRows
               PROVE  Distinct' /\ (\A s \in Live' : Reachable(s)') /\ Probed'
    BY DEF FixedInv
<1>. TypeOK /\ Cursor
    BY <1>1 DEF TypeInv
<1>2. rows' = rows
    <2>1. ~Grow
        BY ConstantsAssumption, <1>1 DEF Grow, Cursor, TypeOK
    <2>2. ASSUME NEW op, NEW k, NEW v, Store(op, k, v) PROVE rows' = rows
        BY <2>1, <2>2 DEF Store, table
    <2>. QED BY <1>1, <2>2, StepCases, QuietTable, MoveLive, RemoveFacts, StoreFacts
<1>3. Distinct /\ (\A s \in Live : Reachable(s)) /\ Probed
    BY <1>1, <1>2 DEF FixedInv
<1>4. Probed'
    BY <1>1, <1>2, <1>3, ProbedNext
<1>5. CASE QuietStep
    BY <1>2, <1>3, <1>4, <1>5, QuietKeys, FixedKept
<1>6. ASSUME NEW op, NEW k, NEW v, Store(op, k, v)
      PROVE  Distinct' /\ \A s \in Live' : Reachable(s)'
    <2>1. UNCHANGED table
        BY <1>2, <1>6, ConstantsAssumption DEF Store, Grow, TypeOK, table
    <2>2. Live' = Live /\ (\A s \in Live : KeyAt(s)' = KeyAt(s)) /\ \A j \in Rows : Cont(j) => Cont(j)'
        BY <2>1 DEF table, Live, IsLive, Rows, KeyAt, Cont
    <2>. QED BY <1>2, <1>3, <2>2, FixedKept
<1>7. CASE ResizeMove
    <2>1. pc = "resize"
        BY <1>7 DEF ResizeMove, ResizeMoving
    <2>. QED BY <1>1, <1>2, <2>1, ConstantsAssumption DEF Cursor
<1>8. CASE RemoveHit \/ RemoveHere \/ ClearNext
    BY <1>1, <1>2, <1>3, <1>4, <1>8, RemoveFacts, FixedKept
<1>9. CASE StoreMiss
    <2>1. PICK i \in Rows, c \in Slots :
             /\ i = Row /\ <<i, c>> \notin Live
             /\ Live' = Live \cup {<<i, c>>}
             /\ bucket'[i][c].key = call.key
             /\ \A s \in Live : KeyAt(s)' = KeyAt(s)
             /\ \A j \in Rows : Cont(j) => Cont(j)'
        BY <1>9, StoreFacts
    <2>2. pc = "probe" /\ Storing /\ NoHit /\ ~Cont(Row)
        BY <1>9 DEF StoreMiss, NoHit
    <2>3. \A s \in Live : KeyAt(s) # call.key
        BY <1>1, <1>3, <2>2, NotStored
    <2>4. KeyAt(<<i, c>>)' = call.key
        BY <2>1 DEF KeyAt
    <2>5. Distinct'
        BY <1>3, <2>1, <2>3, <2>4 DEF Distinct
    <2>6. ASSUME NEW s \in Live PROVE Reachable(s)'
        BY <1>2, <1>3, <2>1, ReachKept
    <2>7. Reachable(<<i, c>>)'
        <3>1. PICK m \in 0..(Period - 1) : m = n
            BY DEF TypeOK
        <3>2. call.key \in Keys /\ rows \in Nat \ {0} /\ m \in Nat
            BY DEF TypeOK, Period
        <3>3. \A l \in Nat : ProbeRow(KeyAt(<<i, c>>), l)' = ProbeRow(call.key, l)
            BY <1>2, <2>4 DEF ProbeRow, do_hash
        <3>4. ASSUME NEW l \in 0..(m - 1) PROVE Cont(ProbeRow(KeyAt(<<i, c>>), l))'
            <4>1. Cont(ProbeRow(call.key, l)) /\ l \in Nat
                BY <1>3, <2>2, <3>1 DEF Probed
            <4>2. ProbeRow(call.key, l) \in Rows
                BY <3>2, <4>1, ProbeRowType
            <4>3. \A e \in Slots : ctl'[ProbeRow(call.key, l)][e] # 0
                BY <2>1, <4>1, <4>2 DEF Cont
            <4>. QED BY <3>3, <4>1, <4>3 DEF Cont
        <3>5. ProbeRow(KeyAt(<<i, c>>), m)' = i
            BY <2>1, <3>1, <3>2, <3>3 DEF Row
        <3>6. m \in 0..(Period' - 1)
            BY <1>2 DEF Period
        <3>. QED BY <3>4, <3>5, <3>6 DEF Reachable, PathTo
    <2>. QED BY <1>4, <2>1, <2>5, <2>6, <2>7
<1>. QED BY <1>1, <1>4, <1>5, <1>6, <1>7, <1>8, <1>9, StepCases

(* As long as the table has its initial size, every entry is where a probe *)
(* for its key comes before any chain ends, and no key is stored twice,    *)
(* for any hash function and any history of inserts and removals.          *)
THEOREM FixedTableCorrect == Spec => []FixedSizeCorrect
<1>1. Init => FixedInv
    <2>1. Init => Live = {} /\ pc = "idle"
        BY InitEmpty DEF Init
    <2>. QED BY <2>1 DEF FixedInv, Distinct, Probed
<1>2. Spec => []TypeInv
    BY TypeInit, TypeNext, PTL DEF Spec
<1>3. Spec => []TagsMatch
    BY TagsAreHashes
<1>4. Spec => []FixedInv
    BY <1>1, <1>2, <1>3, FixedNext, PTL DEF Spec
<1>5. FixedInv => FixedSizeCorrect
    BY DEF FixedInv, FixedSizeCorrect
<1>. QED BY <1>4, <1>5, PTL

-------------------------------------------------------------------------------
(* Growing *)

LEMMA ResizeStepKeeps ==
    ASSUME TypeInv, [Next]_vars, pc = "resize"
    PROVE  Entries' = Entries /\ Cardinality(Live') = Cardinality(Live)
<1>. TypeOK
    BY DEF TypeInv
<1>1. Resize \/ UNCHANGED vars
    <2>1. ~Calls
        BY DEF Calls, Search, Store, Begin
    <2>2. ~ProbeStep
        BY DEF ProbeStep, LookupHit, InsertHit, RemoveHit, FindHit, Miss, StoreMiss, Advance,
               Hit, NoHit
    <2>3. ~Iterators
        BY DEF Iterators, Iterate, RemoveHere, IterateNext, ClearNext, FindNext, Stop
    <2>. QED BY <2>1, <2>2, <2>3 DEF Next
<1>2. ASSUME UNCHANGED table PROVE Entries' = Entries /\ Cardinality(Live') = Cardinality(Live)
    BY <1>2 DEF table, Entries, Live, IsLive, Rows
<1>3. CASE ResizeMove
    <2>1. PICK i \in Rows, d \in Slots :
             /\ Live' = (Live \ {pos}) \cup {<<i, d>>}
             /\ bucket'[i][d] = bucket[pos[1]][pos[2]]
             /\ \A s \in Live \ {pos} : bucket'[s[1]][s[2]] = bucket[s[1]][s[2]]
        BY <1>3, MoveFacts
    <2>2. pos \in Live
        BY <1>3, MoveLive
    <2>3. ASSUME NEW e PROVE e \in Entries' <=> e \in Entries
        <3>1. ASSUME e \in Entries PROVE e \in Entries'
            <4>1. PICK s \in Live : e = bucket[s[1]][s[2]]
                BY <3>1 DEF Entries
            <4>2. CASE s = pos
                <5>1. <<i, d>> \in Live' /\ e = bucket'[i][d]
                    BY <2>1, <4>1, <4>2
                <5>. QED BY <5>1 DEF Entries
            <4>3. CASE s # pos
                <5>1. s \in Live' /\ e = bucket'[s[1]][s[2]]
                    BY <2>1, <4>1, <4>3
                <5>. QED BY <5>1 DEF Entries
            <4>. QED BY <4>2, <4>3
        <3>2. ASSUME e \in Entries' PROVE e \in Entries
            <4>1. PICK s \in Live' : e = bucket'[s[1]][s[2]]
                BY <3>2 DEF Entries
            <4>2. CASE s = <<i, d>>
                BY <2>1, <2>2, <4>1, <4>2 DEF Entries
            <4>3. CASE s \in Live \ {pos}
                BY <2>1, <4>1, <4>3 DEF Entries
            <4>. QED BY <2>1, <4>1, <4>2, <4>3
        <3>. QED BY <3>1, <3>2
    <2>4. Entries' = Entries
        BY <2>3
    <2>. QED BY <1>3, <2>4, MoveCardinality
<1>. QED BY <1>1, <1>2, <1>3 DEF Resize, ResizeSkip, ResizeDone, vars, table

(* Growing a table of any size loses, copies and changes no entry.         *)
THEOREM GrowthKeepsEntries == Spec => ResizeKeepsEntries
<1>1. Spec => []TypeInv
    BY TypeInit, TypeNext, PTL DEF Spec
<1>2. TypeInv /\ [Next]_vars =>
        [pc = "resize" => Entries' = Entries /\ Cardinality(Live') = Cardinality(Live)]_vars
    BY ResizeStepKeeps
<1>. QED BY <1>1, <1>2, PTL DEF Spec, ResizeKeepsEntries

-------------------------------------------------------------------------------
(* The call in progress *)

Searches == {"lookup", "insert", "upsert", "remove", "find"}
Positions == {"find", "iterate", "clear"}

(* Where the client is tells which calls may be in progress.  A call of    *)
(* find_begin stands on a key that it looks for.                           *)
CallInv ==
    /\ pc = "idle" => call = NoCall /\ seen = <<>>
    /\ pc = "probe" => call.op \in Searches
    /\ pc = "resize" => Storing /\ n = 0
    /\ pc = "at" => call.op \in Positions /\ seen # <<>>
    /\ pc \in {"probe", "resize"} /\ call.op # "find" => seen = <<>>
    /\ pc = "at" /\ call.op = "find" => KeyAt(pos) = call.key

LEMMA Appended ==
    ASSUME NEW S, NEW q \in Seq(S), NEW e
    PROVE  /\ Len(Append(q, e)) = Len(q) + 1 /\ Append(q, e) # <<>>
           /\ \A j \in 1..Len(q) : Append(q, e)[j] = q[j]
           /\ Append(q, e)[Len(q) + 1] = e
OBVIOUS

LEMMA CallInit == Init => CallInv
BY DEF Init, CallInv

LEMMA CallNext == TypeInv /\ CallInv /\ [Next]_vars => CallInv'
<1>. SUFFICES ASSUME TypeInv, CallInv, [Next]_vars PROVE CallInv'
    OBVIOUS
<1>. TypeOK
    BY DEF TypeInv
<1>1. CASE UNCHANGED vars
    BY <1>1 DEF vars, CallInv, KeyAt, Storing
<1>2. CASE Calls
    <2>1. PICK op \in Searches, k \in Keys, v \in Values :
              /\ call' = [op |-> op, key |-> k, val |-> v] /\ n' = 0 /\ seen' = <<>>
              /\ pc' = "probe" \/ (pc' = "resize" /\ op \in {"insert", "upsert"})
        BY <1>2, ConstantsAssumption DEF Calls, Search, Store, Begin, Grow, Searches
    <2>. QED BY <2>1 DEF CallInv, Storing
<1>3. CASE Resize
    <2>1. pc = "resize" /\ UNCHANGED <<call, n, seen>> /\ pc' \in {"resize", "probe"}
        BY <1>3 DEF Resize, ResizeSkip, ResizeMove, ResizeMoving, ResizeDone
    <2>. QED BY <2>1 DEF CallInv, Storing, Searches
<1>4. CASE Finish
    BY <1>4 DEF Finish, CallInv
<1>5. CASE FindHit
    <2>1. HitSlot \in Matches(Row, call.key)
        BY <1>5, RowSlots DEF FindHit, Hit
    <2>2. bucket' = bucket /\ pos' = <<Row, HitSlot>> /\ call' = call
        BY <1>5 DEF FindHit, table
    <2>3. KeyAt(pos)' = call.key
        BY <2>1, <2>2 DEF KeyAt, Matches
    <2>4. seen' # <<>>
        BY <1>5, Appended DEF FindHit, TypeOK
    <2>. QED BY <1>5, <2>2, <2>3, <2>4 DEF FindHit, CallInv, Positions
<1>6. CASE Advance
    <2>1. UNCHANGED <<call, pc, seen>> /\ pc = "probe"
        BY <1>6 DEF Advance, NoHit
    <2>. QED BY <2>1 DEF CallInv
<1>7. CASE \E op \in {"iterate", "clear"} : Iterate(op)
    <2>1. call'.op \in {"iterate", "clear"} /\ pc' = "at"
        BY <1>7 DEF Iterate, StandOn, NoCall
    <2>2. seen' # <<>>
        BY <1>7, Appended DEF Iterate, StandOn, TypeOK
    <2>. QED BY <2>1, <2>2 DEF CallInv, Positions
<1>8. CASE RemoveHere
    BY <1>8 DEF RemoveHere, Drop, CallInv, KeyAt
<1>9. CASE (IterateNext \/ ClearNext) /\ ~Finish
    <2>1. call' = call /\ pc' = "at" /\ call.op \in {"iterate", "clear"}
        BY <1>9 DEF IterateNext, ClearNext, NextOrEnd, StandOn
    <2>2. seen' # <<>>
        BY <1>9, Appended DEF IterateNext, ClearNext, NextOrEnd, StandOn, TypeOK
    <2>. QED BY <2>1, <2>2 DEF CallInv, Positions
<1>10. CASE FindNext
    BY <1>10 DEF FindNext, CallInv, Searches, table
<1>. QED
    BY <1>1, <1>2, <1>3, <1>4, <1>5, <1>6, <1>7, <1>8, <1>9, <1>10
    DEF Next, ProbeStep, Iterators, LookupHit, InsertHit, RemoveHit, Miss, StoreMiss, Place, Stop

-------------------------------------------------------------------------------
(* A search *)

(* A search that handed no position out yet met neither its key nor the    *)
(* end of a chain.                                                         *)
SearchInv ==
    pc = "probe" /\ seen = <<>> =>
        \A l \in 0..(n - 1) : /\ Cont(ProbeRow(call.key, l))
                             /\ Matches(ProbeRow(call.key, l), call.key) = {}

LEMMA SearchNext == TypeInv /\ CallInv /\ SearchInv /\ [Next]_vars => SearchInv'
<1>. SUFFICES ASSUME TypeInv, CallInv, SearchInv, [Next]_vars, pc' = "probe", seen' = <<>>
              PROVE  \A l \in 0..(n' - 1) : /\ Cont(ProbeRow(call.key, l))'
                                            /\ (Matches(ProbeRow(call.key, l), call.key) = {})'
    BY DEF SearchInv
<1>. TypeOK
    BY DEF TypeInv
<1>1. CASE n' = 0
    BY <1>1
<1>2. ASSUME UNCHANGED <<rows, ctl, bucket, call>>, NEW l,
             Cont(ProbeRow(call.key, l)), Matches(ProbeRow(call.key, l), call.key) = {}
      PROVE  Cont(ProbeRow(call.key, l))' /\ (Matches(ProbeRow(call.key, l), call.key) = {})'
    <2>1. ProbeRow(call.key, l)' = ProbeRow(call.key, l)
        BY <1>2 DEF ProbeRow, do_hash
    <2>. QED BY <1>2, <2>1 DEF Cont, Matches, Target, do_hash
<1>3. CASE Advance
    <2>1. UNCHANGED <<rows, ctl, bucket, call, seen>> /\ pc = "probe" /\ n' = (n + 1) % Period
        BY <1>3 DEF Advance, NoHit, table
    <2>2. n' = 0 \/ n' = n + 1
        <3>1. n \in Nat /\ n + 1 <= Period /\ Period \in Nat \ {0}
            BY DEF TypeOK, Period
        <3>2. \A a \in Nat, p \in Nat \ {0} : a <= p => a % p = 0 \/ a % p = a
            OBVIOUS
        <3>. QED BY <2>1, <3>1, <3>2
    <2>3. \A l \in 0..n : /\ Cont(ProbeRow(call.key, l))
                          /\ Matches(ProbeRow(call.key, l), call.key) = {}
        <3>1. n \in Nat
            BY DEF TypeOK, Period
        <3>. QED BY <1>3, <2>1, <3>1 DEF SearchInv, Advance, NoHit, Row
    <2>4. n \in Nat
        BY DEF TypeOK, Period
    <2>. QED BY <1>2, <2>1, <2>2, <2>3, <2>4
<1>4. CASE UNCHANGED vars
    <2>1. UNCHANGED <<rows, ctl, bucket, call, pc, n, seen>>
        BY <1>4 DEF vars
    <2>. QED BY <1>2, <2>1 DEF SearchInv
<1>5. CASE Calls
    <2>1. n' = 0
        BY <1>5 DEF Calls, Search, Store, Begin
    <2>. QED BY <1>1, <2>1
<1>6. CASE Resize
    <2>1. n' = 0
        BY <1>6 DEF Resize, ResizeSkip, ResizeMove, ResizeMoving, ResizeDone, CallInv
    <2>. QED BY <1>1, <2>1
<1>7. CASE ProbeStep /\ ~Advance
    BY <1>7 DEF ProbeStep, LookupHit, InsertHit, RemoveHit, FindHit, Miss, StoreMiss, Place,
                Finish
<1>8. CASE Iterators
    <2>1. CASE FindNext
        BY <2>1 DEF FindNext, CallInv
    <2>. QED
        BY <1>8, <2>1 DEF Iterators, Iterate, RemoveHere, IterateNext, ClearNext, NextOrEnd,
                          StandOn, Stop, Finish
<1>. QED BY <1>3, <1>4, <1>5, <1>6, <1>7, <1>8 DEF Next

-------------------------------------------------------------------------------
(* An iterator *)

(* Least is least in the order of the positions. *)
LEMMA LeastBefore ==
    ASSUME NEW S \in SUBSET (Nat \X Nat), NEW s \in S
    PROVE  s = Least(S) \/ Before(Least(S), s)
<1> DEFINE I == {t[1] : t \in S}
           i == First(I)
           C == {t[2] : t \in {u \in S : u[1] = i}}
           c == First(C)
<1>1. I \in SUBSET Nat /\ I # {}
    OBVIOUS
<1>2. i \in I /\ \A d \in I : i <= d
    BY <1>1, LeastNatural DEF First
<1>3. C \in SUBSET Nat /\ C # {}
    BY <1>2
<1>4. c \in C /\ \A d \in C : c <= d
    BY <1>3, LeastNatural DEF First
<1>5. s = <<s[1], s[2]>> /\ s[1] \in I /\ (s[1] = i => s[2] \in C)
    <2>1. s \in Nat \X Nat
        OBVIOUS
    <2>2. s = <<s[1], s[2]>>
        BY <2>1
    <2>3. s[1] = i => s \in {u \in S : u[1] = i}
        OBVIOUS
    <2>. QED BY <2>2, <2>3
<1>6. Least(S) = <<i, c>>
    BY DEF Least
<1>. HIDE DEF I, i, C, c
<1>7. i \in Nat /\ c \in Nat /\ s[1] \in Nat /\ s[2] \in Nat
    BY <1>1, <1>2, <1>3, <1>4
<1>. QED BY <1>2, <1>4, <1>5, <1>6, <1>7 DEF Before

LEMMA BeforeOrder ==
    ASSUME NEW p \in Nat \X Nat, NEW q \in Nat \X Nat, NEW r \in Nat \X Nat
    PROVE  ~Before(p, p) /\ (Before(p, q) /\ Before(q, r) => Before(p, r))
BY DEF Before

(* Where an iterator is: the positions it stood on are behind it, each of  *)
(* them once, and no entry is behind it that it did not stand on; clear()  *)
(* leaves none.                                                            *)
WalkInv ==
    pc = "at" /\ call.op # "find" =>
        /\ \A j \in 1..Len(seen) : seen[j] = pos \/ Before(seen[j], pos)
        /\ \A j, l \in 1..Len(seen) : seen[j] = seen[l] => j = l
        /\ \A s \in Live : (\E j \in 1..Len(seen) : seen[j] = s) \/ Before(pos, s)
        /\ call.op = "clear" => \A s \in Live : s = pos \/ Before(pos, s)

LEMMA SlotsNatural == TypeOK => Rows \X Slots \subseteq Nat \X Nat
BY DEF TypeOK, Rows, Slots

(* Walking on: the next position is the first entry behind this one.       *)
LEMMA WalkOn ==
    ASSUME TypeInv, WalkInv, pc = "at", call.op # "find", call' = call,
           LiveAfter(pos) # {}, StandOn(Least(LiveAfter(pos))),
           Live' = Live \/ Live' = Live \ {pos}, call.op = "clear" => Live' = Live \ {pos}
    PROVE  WalkInv'
<1> DEFINE A == LiveAfter(pos)
           p == Least(A)
<1>. TypeOK
    BY DEF TypeInv
<1>. pos \in Nat \X Nat
    BY SlotsNatural DEF TypeInv, Cursor
<1>1. Live \in SUBSET (Nat \X Nat)
    BY LiveType
<1>2. A \in SUBSET (Nat \X Nat) /\ A # {} /\ A \subseteq Live
    BY <1>1 DEF LiveAfter
<1>3. p \in A /\ \A s \in A : s = p \/ Before(p, s)
    BY <1>2, LeastIn, LeastBefore
<1>4. p \in Nat \X Nat /\ p \in Rows \X Slots /\ Before(pos, p)
    BY <1>2, <1>3 DEF LiveAfter, Live
<1>5. pos' = p /\ seen' = Append(seen, p)
    BY DEF StandOn
<1>6. seen \in Seq(Rows \X Slots) /\ seen \in Seq(Nat \X Nat)
    <2>1. seen \in Seq(Rows \X Slots)
        BY DEF TypeOK
    <2>. QED BY <2>1, SlotsNatural
<1>. HIDE DEF A, p
<1>7. /\ Len(seen') = Len(seen) + 1 /\ seen'[Len(seen) + 1] = p
      /\ \A j \in 1..Len(seen) : seen'[j] = seen[j]
      /\ Len(seen) \in Nat
      /\ \A j \in 1..Len(seen) : seen[j] \in Nat \X Nat
    BY <1>5, <1>6, Appended
<1>8. \A j \in 1..Len(seen) : Before(seen[j], p)
    BY <1>4, <1>7, BeforeOrder DEF WalkInv
<1>9. \A j \in 1..Len(seen') : seen'[j] = pos' \/ Before(seen'[j], pos')
    BY <1>5, <1>7, <1>8
<1>10. \A j, l \in 1..Len(seen') : seen'[j] = seen'[l] => j = l
    <2>1. \A j \in 1..Len(seen) : seen[j] # p
        BY <1>4, <1>8, BeforeOrder
    <2>2. ASSUME NEW j \in 1..Len(seen'), NEW l \in 1..Len(seen'), seen'[j] = seen'[l]
          PROVE  j = l
        <3>1. CASE j \in 1..Len(seen) /\ l \in 1..Len(seen)
            BY <1>7, <2>2, <3>1 DEF WalkInv
        <3>2. CASE j = Len(seen) + 1 \/ l = Len(seen) + 1
            BY <1>7, <2>1, <2>2, <3>2
        <3>. QED BY <1>7, <3>1, <3>2
    <2>. QED BY <2>2
<1>11. ASSUME NEW s \in Live' PROVE (\E j \in 1..Len(seen') : seen'[j] = s) \/ Before(pos', s)
    <2>1. s \in Live
        OBVIOUS
    <2>2. CASE Before(pos, s)
        <3>1. s \in A
            BY <2>1, <2>2 DEF A, LiveAfter
        <3>. QED BY <1>3, <1>5, <1>7, <3>1
    <2>3. CASE \E j \in 1..Len(seen) : seen[j] = s
        BY <1>7, <2>3
    <2>. QED BY <2>1, <2>2, <2>3 DEF WalkInv
<1>12. ASSUME call.op = "clear", NEW s \in Live' PROVE s = pos' \/ Before(pos', s)
    <2>1. s \in Live /\ s # pos
        BY <1>12
    <2>2. s \in A
        BY <1>12, <2>1 DEF WalkInv, A, LiveAfter
    <2>. QED BY <1>3, <1>5, <2>2
<1>. QED BY <1>9, <1>10, <1>11, <1>12 DEF WalkInv

LEMMA WalkNext == TypeInv /\ CallInv /\ WalkInv /\ [Next]_vars => WalkInv'
<1>. SUFFICES ASSUME TypeInv, CallInv, WalkInv, [Next]_vars, pc' = "at", call'.op # "find"
              PROVE  WalkInv'
    BY DEF WalkInv
<1>. TypeOK
    BY DEF TypeInv
<1>1. CASE UNCHANGED vars
    BY <1>1 DEF vars, WalkInv, Live, IsLive, Rows
<1>2. ASSUME NEW op \in {"iterate", "clear"}, Iterate(op)
      PROVE  WalkInv'
    <2> DEFINE p == Least(Live)
    <2>1. UNCHANGED <<rows, ctl>> /\ seen = <<>> /\ Live # {} /\ StandOn(p) /\ call'.op = op
        BY <1>2 DEF Iterate, table, CallInv, NoCall
    <2>2. Live' = Live
        BY <2>1 DEF Live, IsLive, Rows
    <2>3. \A s \in Live : s = p \/ Before(p, s)
        BY LiveType, LeastBefore
    <2>4. pos' = p /\ seen' = <<p>>
        BY <2>1 DEF StandOn
    <2>. HIDE DEF p
    <2>5. Len(seen') = 1 /\ seen'[1] = p
        BY <2>4
    <2>. QED BY <2>2, <2>3, <2>4, <2>5 DEF WalkInv
<1>3. CASE RemoveHere
    <2>1. UNCHANGED <<call, pc, pos, seen>> /\ Live' \subseteq Live
        BY <1>3, RemoveFacts DEF RemoveHere
    <2>. QED BY <2>1 DEF WalkInv
<1>4. CASE IterateNext
    <2>1. /\ pc = "at" /\ call.op = "iterate" /\ UNCHANGED <<rows, ctl, call>>
          /\ LiveAfter(pos) # {} /\ StandOn(Least(LiveAfter(pos)))
        BY <1>4 DEF IterateNext, NextOrEnd, Finish, table
    <2>2. Live' = Live
        BY <2>1 DEF Live, IsLive, Rows
    <2>. QED BY <2>1, <2>2, WalkOn
<1>5. CASE ClearNext
    <2>1. /\ pc = "at" /\ call.op = "clear" /\ call' = call /\ LiveAfter(pos) # {}
          /\ StandOn(Least(LiveAfter(pos)))
        BY <1>5 DEF ClearNext, NextOrEnd, Finish
    <2>2. Live' = Live \ {pos}
        <3>1. Drop(pos[1], pos[2]) /\ pos = <<pos[1], pos[2]>> /\ pos[1] \in Rows /\ pos[2] \in Slots
            BY <1>5, DropStep
        <3>. QED BY <3>1, LiveMark DEF Drop
    <2>. QED BY <2>1, <2>2, WalkOn
<1>6. ~Calls /\ ~Resize
    BY DEF Calls, Search, Store, Grow, Resize, ResizeSkip, ResizeMove, ResizeMoving, ResizeDone
<1>7. ~ProbeStep
    BY DEF ProbeStep, LookupHit, InsertHit, RemoveHit, FindHit, Miss, StoreMiss, Place, Advance,
           Finish, NoHit
<1>8. ~FindNext /\ ~Stop
    BY DEF FindNext, Stop, Finish
<1>. QED BY <1>1, <1>2, <1>3, <1>4, <1>5, <1>6, <1>7, <1>8 DEF Next, Iterators

(* The entries that ++ has still to come to are those the iterator did not *)
(* stand on, and it stands on none twice: in a table of any size, through  *)
(* all removals on the way (map.hpp's Iterator and clear()).               *)
THEOREM IterationComplete == Spec => []IterateComplete
<1>1. Init => CallInv /\ WalkInv
    BY CallInit DEF Init, WalkInv
<1>2. Spec => []TypeInv
    BY TypeInit, TypeNext, PTL DEF Spec
<1>3. TypeInv /\ WalkInv => IterateComplete
    <2>. SUFFICES ASSUME TypeInv, WalkInv, pc = "at", call.op # "find"
                  PROVE  LiveAfter(pos) = {s \in Live : \A j \in 1..Len(seen) : seen[j] # s}
        BY DEF WalkInv, IterateComplete
    <2>1. pos \in Nat \X Nat /\ Live \in SUBSET (Nat \X Nat)
        BY LiveType, SlotsNatural DEF TypeInv, Cursor
    <2>2. ASSUME NEW s \in Live, Before(pos, s), NEW j \in 1..Len(seen) PROVE seen[j] # s
        BY <2>1, <2>2, BeforeOrder DEF WalkInv
    <2>. QED BY <2>2 DEF WalkInv, LiveAfter
<1>. QED BY <1>1, <1>2, <1>3, CallNext, WalkNext, PTL DEF Spec

-------------------------------------------------------------------------------
(* The dictionary a table stands for *)

(* A key is bound to the value in its slot; one that is in no slot is not  *)
(* bound.                                                                  *)
DictFacts ==
    /\ DictOf = [k \in Keys |-> DictOf[k]]
    /\ \A s \in Live : KeyAt(s) \in Keys /\ ValAt(s) \in Values /\ DictOf[KeyAt(s)] = ValAt(s)
    /\ \A k \in Keys : (\A s \in Live : KeyAt(s) # k) => DictOf[k] = NoValue

LEMMA DictIs == TypeOK /\ Distinct => DictFacts
<1>. SUFFICES ASSUME TypeOK, Distinct PROVE DictFacts
    OBVIOUS
<1>1. DictOf = [k \in Keys |-> DictOf[k]]
    BY DEF DictOf
<1>2. ASSUME NEW s \in Live
      PROVE  KeyAt(s) \in Keys /\ ValAt(s) \in Values /\ DictOf[KeyAt(s)] = ValAt(s)
    <2>1. KeyAt(s) \in Keys /\ ValAt(s) \in Values
        BY DEF Live, KeyAt, ValAt, TypeOK
    <2>2. Holding(KeyAt(s)) = {s}
        BY DEF Holding, Distinct
    <2>3. (CHOOSE t \in {s} : TRUE) = s
        OBVIOUS
    <2>. QED BY <2>1, <2>2, <2>3 DEF DictOf
<1>3. ASSUME NEW k \in Keys, \A s \in Live : KeyAt(s) # k PROVE DictOf[k] = NoValue
    <2>1. Holding(k) = {}
        BY <1>3 DEF Holding
    <2>. QED BY <2>1 DEF DictOf
<1>. QED BY <1>1, <1>2, <1>3 DEF DictFacts

LEMMA DictIsNext == TypeOK' /\ Distinct' => DictFacts'
BY DictIs, PTL

(* A key is bound to a value, or freed, and no other entry is touched.     *)
LEMMA DictPut ==
    ASSUME TypeOK, Distinct, TypeOK', Distinct', NEW k \in Keys, NEW v,
           \A s \in Live : KeyAt(s) # k =>
               s \in Live' /\ KeyAt(s)' = KeyAt(s) /\ ValAt(s)' = ValAt(s),
           \A s \in Live' : KeyAt(s)' # k => s \in Live /\ KeyAt(s)' = KeyAt(s),
           \/ \E s \in Live' : KeyAt(s)' = k /\ ValAt(s)' = v
           \/ v = NoValue /\ \A s \in Live' : KeyAt(s)' # k
    PROVE  DictOf' = [DictOf EXCEPT ![k] = v]
<1>1. DictOf'[k] = v
    BY DictIsNext DEF DictFacts
<1>2. ASSUME NEW j \in Keys, j # k PROVE DictOf'[j] = DictOf[j]
    <2>1. CASE \E s \in Live : KeyAt(s) = j
        BY <1>2, <2>1, DictIs, DictIsNext DEF DictFacts
    <2>2. CASE \A s \in Live : KeyAt(s) # j
        <3>1. \A s \in Live' : KeyAt(s)' # j
            BY <1>2, <2>2
        <3>. QED BY <2>2, <3>1, DictIs, DictIsNext DEF DictFacts
    <2>. QED BY <2>1, <2>2
<1>3. DictOf = [j \in Keys |-> DictOf[j]] /\ DictOf' = [j \in Keys |-> DictOf'[j]]
    BY DictIs, DictIsNext DEF DictFacts
<1>. QED BY <1>1, <1>2, <1>3

LEMMA DictSame ==
    ASSUME UNCHANGED <<rows, ctl, bucket>>
    PROVE  DictOf' = DictOf
BY DEF DictOf, Holding, Live, IsLive, Rows, KeyAt, ValAt

LEMMA DictBound ==
    ASSUME TypeOK, Distinct
    PROVE  Dict!Bound = {KeyAt(s) : s \in Live}
<1>1. \A k \in Keys : DictOf[k] # NoValue => \E s \in Live : KeyAt(s) = k
    BY DictIs DEF DictFacts
<1>2. \A s \in Live : KeyAt(s) \in Keys /\ DictOf[KeyAt(s)] # NoValue
    BY DictIs, ConstantsAssumption DEF DictFacts
<1>. QED BY <1>1, <1>2 DEF Dict!Bound

(* What a search finds is bound to what it stands on.                      *)
LEMMA HitIs ==
    ASSUME TypeOK, Distinct, Hit
    PROVE  /\ <<Row, HitSlot>> \in Live /\ KeyAt(<<Row, HitSlot>>) = call.key
           /\ Row \in Rows /\ HitSlot \in Slots
           /\ bucket[Row][HitSlot].val = DictOf[call.key] /\ DictOf[call.key] \in Values
           /\ call.key \in Dict!Bound
<1> DEFINE s == <<Row, HitSlot>>
<1>1. s \in Live /\ HitSlot \in Matches(Row, call.key) /\ Row \in Rows /\ HitSlot \in Slots
    BY HitLive, RowSlots DEF Hit
<1>2. KeyAt(s) = call.key /\ ValAt(s) = bucket[Row][HitSlot].val
    BY <1>1 DEF KeyAt, ValAt, Matches
<1>. HIDE DEF s
<1>3. ValAt(s) = DictOf[call.key] /\ ValAt(s) \in Values
    BY <1>1, <1>2, DictIs DEF DictFacts
<1>4. call.key \in Dict!Bound
    BY <1>1, <1>2, DictBound
<1>. QED BY <1>1, <1>2, <1>3, <1>4 DEF s

(* A search that came to the end of its chain looked for a key that is not *)
(* in the table.                                                           *)
LEMMA MissIs ==
    ASSUME TypeOK, Distinct, TagsMatch, SearchInv, NoHit, ~Cont(Row), seen = <<>>,
           \A s \in Live : Reachable(s)
    PROVE  DictOf[call.key] = NoValue /\ \A s \in Live : KeyAt(s) # call.key
<1> DEFINE k == call.key
<1>1. ASSUME NEW s \in Live, KeyAt(s) = k PROVE FALSE
    <2>1. PICK m \in 0..(Period - 1) : PathTo(k, s[1], m)
        BY <1>1 DEF Reachable
    <2>2. s[2] \in Matches(s[1], k) /\ ProbeRow(k, m) = s[1]
        BY <1>1, <2>1 DEF TagsMatch, Live, Matches, KeyAt, PathTo
    <2>3. n \in Nat /\ m \in Nat
        BY DEF TypeOK, Period
    <2>4. CASE m < n
        BY <2>2, <2>3, <2>4 DEF SearchInv, NoHit
    <2>5. CASE m = n
        BY <2>2, <2>5 DEF NoHit, Row
    <2>6. CASE n < m
        <3>1. Cont(ProbeRow(k, n))
            BY <2>1, <2>3, <2>6 DEF PathTo
        <3>. QED BY <3>1 DEF Row
    <2>. QED BY <2>3, <2>4, <2>5, <2>6
<1>2. call.key \in Keys
    BY DEF TypeOK
<1>. QED BY <1>1, <1>2, DictIs DEF DictFacts

-------------------------------------------------------------------------------
(* Every step of a table that does not grow is one of the dictionary's, or *)
(* changes nothing it has                                                  *)

(* What is known of the table and the call while the size is the first.    *)
DictInv ==
    /\ TypeInv /\ TagsMatch /\ CallInv /\ SearchInv /\ WalkInv
    /\ Distinct /\ \A s \in Live : Reachable(s)

LEMMA BeginStep ==
    ASSUME DictInv, Calls, rows' = rows
    PROVE  Dict!Begin
<1>1. pc = "idle" /\ UNCHANGED <<table, ret>> /\ call'.op \in Searches
    <2>1. ~Grow
        BY ConstantsAssumption DEF Grow, DictInv, TypeInv, TypeOK
    <2>. QED BY <2>1 DEF Calls, Search, Store, Begin, Searches
<1>2. DictOf' = DictOf
    BY <1>1, DictSame DEF table
<1>3. call.op = "none"
    BY <1>1 DEF DictInv, CallInv, NoCall
<1>. QED BY <1>1, <1>2, <1>3 DEF Dict!Begin, Dict!Idle, Searches

LEMMA LookupStep ==
    ASSUME DictInv, LookupHit
    PROVE  Dict!Lookup \/ Dict!Upsert
<1>. TypeOK /\ Distinct
    BY DEF DictInv, TypeInv
<1>1. DictOf' = DictOf
    BY DictSame DEF LookupHit, table
<1>2. ret' = DictOf[call.key] /\ DictOf[call.key] \in Values
    BY HitIs DEF LookupHit
<1>3. DictOf = [k \in Keys |-> DictOf[k]]
    BY DictIs DEF DictFacts
<1>4. [DictOf EXCEPT ![call.key] = DictOf[call.key]] = DictOf
    BY <1>3
<1>5. call'.op = "none" /\ call.op \in {"lookup", "upsert"}
    BY DEF LookupHit, Finish, NoCall
<1>. QED BY <1>1, <1>2, <1>4, <1>5 DEF Dict!Lookup, Dict!Upsert, Dict!End

LEMMA InsertStep ==
    ASSUME DictInv, TypeOK', Distinct', InsertHit
    PROVE  Dict!Insert
<1>. TypeOK /\ Distinct
    BY DEF DictInv, TypeInv
<1>. DEFINE t == <<Row, HitSlot>>
<1>1. /\ t \in Live /\ KeyAt(t) = call.key /\ Row \in Rows /\ HitSlot \in Slots
      /\ bucket[Row][HitSlot].val = DictOf[call.key]
    BY HitIs DEF InsertHit
<1>2. rows' = rows /\ ctl' = ctl /\ bucket' = [bucket EXCEPT ![Row][HitSlot].val = call.val]
    BY DEF InsertHit
<1>3. Live' = Live
    BY <1>2 DEF Live, IsLive, Rows
<1>4. ASSUME NEW s \in Live
      PROVE  KeyAt(s)' = KeyAt(s) /\ ValAt(s)' = IF s = t THEN call.val ELSE ValAt(s)
    <2>1. s[1] \in Rows /\ s[2] \in Slots /\ s = <<s[1], s[2]>>
        BY DEF Live
    <2>2. bucket'[s[1]][s[2]] = IF s[1] = Row /\ s[2] = HitSlot
                                THEN [bucket[Row][HitSlot] EXCEPT !.val = call.val]
                                ELSE bucket[s[1]][s[2]]
        BY <1>1, <1>2, <2>1 DEF TypeOK
    <2>3. bucket[Row][HitSlot] \in [key : Keys, val : Values]
        BY <1>1 DEF TypeOK
    <2>. QED BY <2>1, <2>2, <2>3 DEF KeyAt, ValAt
<1>. HIDE DEF t
<1>5. call.key \in Keys
    BY DEF TypeOK
<1>6. \A s \in Live : KeyAt(s) # call.key => s # t
    BY <1>1
<1>7. DictOf' = [DictOf EXCEPT ![call.key] = call.val]
    BY <1>1, <1>3, <1>4, <1>5, <1>6, DictPut
<1>. QED BY <1>1, <1>7 DEF InsertHit, Finish, NoCall, Dict!Insert, Dict!End

(* Freeing the slot of a key frees the key. *)
LEMMA DropKey ==
    ASSUME TypeOK, Distinct, TypeOK', Distinct', rows' = rows, bucket' = bucket,
           NEW i \in Rows, NEW c \in Slots, <<i, c>> \in Live,
           ctl' = [ctl EXCEPT ![i][c] = SENTINEL]
    PROVE  DictOf' = [DictOf EXCEPT ![KeyAt(<<i, c>>)] = NoValue]
<1> DEFINE t == <<i, c>>
           k == KeyAt(t)
<1>1. Live' = Live \ {t}
    BY LiveMark
<1>2. \A s : KeyAt(s)' = KeyAt(s) /\ ValAt(s)' = ValAt(s)
    BY DEF KeyAt, ValAt
<1>3. k \in Keys
    BY DEF KeyAt, TypeOK
<1>4. \A s \in Live : s # t => KeyAt(s) # k
    BY DEF Distinct
<1>. HIDE DEF t, k
<1>5. \A s \in Live' : KeyAt(s)' # k
    BY <1>1, <1>2, <1>4
<1>6. \A s \in Live : KeyAt(s) # k => s \in Live'
    BY <1>1 DEF k
<1>. QED BY <1>1, <1>2, <1>3, <1>5, <1>6, DictPut DEF k, t

LEMMA RemoveStep ==
    ASSUME DictInv, TypeOK', Distinct', RemoveHit
    PROVE  Dict!Remove
<1>. TypeOK /\ Distinct
    BY DEF DictInv, TypeInv
<1>1. /\ <<Row, HitSlot>> \in Live /\ KeyAt(<<Row, HitSlot>>) = call.key
      /\ Row \in Rows /\ HitSlot \in Slots
      /\ bucket[Row][HitSlot].val = DictOf[call.key]
    BY HitIs DEF RemoveHit
<1>2. DictOf' = [DictOf EXCEPT ![call.key] = NoValue]
    BY <1>1, DropKey DEF RemoveHit
<1>. QED BY <1>1, <1>2 DEF RemoveHit, Finish, NoCall, Dict!Remove, Dict!End

LEMMA MissStep ==
    ASSUME DictInv, Miss
    PROVE  Dict!Lookup \/ Dict!Remove \/ Dict!Leave
<1>. TypeOK /\ Distinct
    BY DEF DictInv, TypeInv
<1>1. DictOf' = DictOf /\ call'.op = "none" /\ call.op \in {"lookup", "remove", "find"}
    BY DictSame DEF Miss, NoHit, table, Finish, NoCall, DictInv, CallInv, Searches, Storing
<1>2. CASE seen = <<>>
    <2>1. DictOf[call.key] = NoValue /\ ret' = NoValue
        BY <1>2, MissIs DEF Miss, DictInv
    <2>2. DictOf = [k \in Keys |-> DictOf[k]]
        BY DictIs DEF DictFacts
    <2>3. [DictOf EXCEPT ![call.key] = NoValue] = DictOf
        BY <2>1, <2>2
    <2>. QED BY <1>1, <2>1, <2>3 DEF Dict!Lookup, Dict!Remove, Dict!End
<1>3. CASE seen # <<>>
    <2>1. call.op = "find" /\ ret' = ret
        BY <1>3 DEF Miss, NoHit, DictInv, CallInv
    <2>. QED BY <1>1, <2>1 DEF Dict!Leave, Dict!End
<1>. QED BY <1>2, <1>3

LEMMA StoreStep ==
    ASSUME DictInv, TypeOK', Distinct', StoreMiss
    PROVE  Dict!Insert \/ Dict!Upsert
<1>. TypeOK /\ Distinct
    BY DEF DictInv, TypeInv
<1>1. PICK i \in Rows, c \in Slots : <<i, c>> \notin Live /\ Place(i, c)
    BY PlaceStep, FreeSlot
<1> DEFINE t == <<i, c>>
<1>2. DictOf[call.key] = NoValue /\ \A s \in Live : KeyAt(s) # call.key
    BY MissIs DEF StoreMiss, NoHit, DictInv, CallInv, Storing
<1>3. Live' = Live \cup {t} /\ KeyAt(t)' = call.key /\ \A s \in Live : KeyAt(s)' = KeyAt(s)
    BY <1>1, PlaceFacts DEF KeyAt
<1>4. ASSUME NEW s \in Live PROVE ValAt(s)' = ValAt(s)
    <2>1. s[1] \in Rows /\ s[2] \in Slots /\ (s[1] # i \/ s[2] # c)
        BY <1>1 DEF Live
    <2>. QED BY <1>1, <2>1 DEF Place, TypeOK, ValAt
<1>5. call.key \in Keys /\ call.op \in {"insert", "upsert"} /\ call'.op = "none"
    BY <1>1 DEF TypeOK, StoreMiss, Storing, Place, Finish, NoCall
<1>6. CASE call.op = "insert"
    <2>1. ValAt(t)' = call.val /\ ret' = NoValue
        BY <1>1, <1>6 DEF Place, TypeOK, ValAt
    <2>. HIDE DEF t
    <2>2. DictOf' = [DictOf EXCEPT ![call.key] = call.val]
        BY <1>2, <1>3, <1>4, <1>5, <2>1, DictPut
    <2>. QED BY <1>2, <1>5, <1>6, <2>1, <2>2 DEF Dict!Insert, Dict!End
<1>7. CASE call.op = "upsert"
    <2>1. ValAt(t)' = ret' /\ ret' \in Values
        BY <1>1, <1>7 DEF Place, TypeOK, ValAt
    <2>. HIDE DEF t
    <2>2. DictOf' = [DictOf EXCEPT ![call.key] = ret']
        BY <1>2, <1>3, <1>4, <1>5, <2>1, DictPut
    <2>. QED BY <1>2, <1>5, <1>7, <2>1, <2>2 DEF Dict!Upsert, Dict!End
<1>. QED BY <1>5, <1>6, <1>7

(* What an iterator that stands on an entry hands back is bound.           *)
LEMMA ValueIsBound ==
    ASSUME TypeOK, Distinct, NEW s \in Live
    PROVE  ValAt(s) \in {DictOf[k] : k \in Dict!Bound}
BY DictIs, DictBound DEF DictFacts

LEMMA IterateStep ==
    ASSUME DictInv, NEW op \in {"iterate", "clear"}, Iterate(op)
    PROVE  Dict!Begin
<1>. TypeOK /\ Distinct
    BY DEF DictInv, TypeInv
<1>1. Least(Live) \in Live
    BY LiveType, LeastIn DEF Iterate
<1>2. DictOf' = DictOf /\ call.op = "none" /\ call'.op = op
    BY DictSame DEF Iterate, table, DictInv, CallInv, NoCall
<1>3. ret' = IF op = "clear" THEN ret ELSE ValAt(Least(Live))
    BY <1>2 DEF Iterate, StandOn
<1>. QED BY <1>1, <1>2, <1>3, ValueIsBound DEF Dict!Begin, Dict!Idle

LEMMA IterateNextStep ==
    ASSUME DictInv, IterateNext
    PROVE  Dict!Position \/ Dict!Leave
<1>. TypeOK /\ Distinct
    BY DEF DictInv, TypeInv
<1>1. DictOf' = DictOf /\ call.op = "iterate"
    BY DictSame DEF IterateNext, table
<1>2. CASE LiveAfter(pos) # {} /\ call' = call /\ StandOn(Least(LiveAfter(pos)))
    <2>1. LiveAfter(pos) \in SUBSET (Nat \X Nat) /\ LiveAfter(pos) \subseteq Live
        BY LiveType DEF LiveAfter
    <2>2. Least(LiveAfter(pos)) \in Live
        BY <1>2, <2>1, LeastIn
    <2>3. ret' = ValAt(Least(LiveAfter(pos)))
        BY <1>1, <1>2 DEF StandOn
    <2>. QED BY <1>1, <1>2, <2>2, <2>3, ValueIsBound DEF Dict!Position
<1>3. CASE Finish /\ ret' = ret
    BY <1>1, <1>3 DEF Finish, NoCall, Dict!Leave, Dict!End
<1>. QED BY <1>2, <1>3 DEF IterateNext, NextOrEnd

LEMMA EraseStep ==
    ASSUME DictInv, TypeOK', Distinct', RemoveHere \/ ClearNext
    PROVE  Dict!Erase
<1>. TypeOK /\ Distinct
    BY DEF DictInv, TypeInv
<1>1. /\ Drop(pos[1], pos[2]) /\ pos = <<pos[1], pos[2]>> /\ pos[1] \in Rows /\ pos[2] \in Slots
      /\ pos \in Live
    BY DropStep DEF DictInv
<1>2. PICK k : k = KeyAt(pos)
    OBVIOUS
<1>3. DictOf' = [DictOf EXCEPT ![k] = NoValue]
    <2>1. PICK i \in Rows, c \in Slots : i = pos[1] /\ c = pos[2]
        BY <1>1
    <2>. QED BY <1>1, <1>2, <2>1, DropKey DEF Drop
<1>4. k \in Dict!Bound
    BY <1>1, <1>2, DictBound
<1>5. pc = "at" /\ call.op \in {"find", "iterate", "clear"}
    BY DEF RemoveHere, ClearNext, DictInv, CallInv, Positions
<1>6. call.op = "find" => k = call.key
    BY <1>2, <1>5 DEF DictInv, CallInv
<1>7. ret' = ret /\ (UNCHANGED call \/ (call.op = "clear" /\ Dict!Bound = {k} /\ Dict!End))
    <2>1. CASE RemoveHere
        BY <2>1 DEF RemoveHere
    <2>2. CASE ClearNext /\ LiveAfter(pos) # {}
        BY <2>2 DEF ClearNext, NextOrEnd, StandOn, Finish
    <2>3. CASE ClearNext /\ LiveAfter(pos) = {}
        <3>1. call.op = "clear" /\ Finish /\ ret' = ret
            BY <2>3 DEF ClearNext, NextOrEnd
        <3>2. \A s \in Live : s = pos
            BY <1>5, <2>3, <3>1 DEF DictInv, WalkInv, LiveAfter
        <3>3. Dict!Bound = {k}
            BY <1>1, <1>2, <3>2, DictBound
        <3>. QED BY <3>1, <3>3 DEF Finish, NoCall, Dict!End
    <2>. QED BY <2>1, <2>2, <2>3
<1>. QED BY <1>3, <1>4, <1>5, <1>6, <1>7 DEF Dict!Erase, Dict!Iterating

LEMMA DictStep ==
    ASSUME DictInv, TypeOK', Distinct', [Next]_vars, rows = InitialRows, rows' = rows
    PROVE  [Dict!Next]_(Dict!vars)
<1>. TypeOK /\ Distinct
    BY DEF DictInv, TypeInv
<1>1. CASE UNCHANGED <<rows, ctl, bucket, call, ret>>
    BY <1>1, DictSame DEF Dict!vars
<1>2. CASE FindHit
    <2>1. call.key \in Dict!Bound /\ ret' = DictOf[call.key]
        BY <1>2, HitIs DEF FindHit
    <2>2. DictOf' = DictOf /\ call' = call /\ call.op = "find"
        BY <1>2, DictSame DEF FindHit, table
    <2>. QED BY <2>1, <2>2 DEF Dict!Next, Dict!Position
<1>3. CASE Stop
    <2>1. DictOf' = DictOf /\ ret' = ret /\ call'.op = "none"
        BY <1>3, DictSame DEF Stop, table, Finish, NoCall
    <2>2. call.op \in {"find", "iterate"}
        BY <1>3 DEF Stop, DictInv, CallInv, Positions
    <2>. QED BY <2>1, <2>2 DEF Dict!Next, Dict!Leave, Dict!End
<1>4. CASE Calls \/ \E op \in {"iterate", "clear"} : Iterate(op)
    BY <1>4, BeginStep, IterateStep DEF Dict!Next
<1>5. CASE LookupHit \/ InsertHit \/ RemoveHit
    BY <1>5, LookupStep, InsertStep, RemoveStep DEF Dict!Next
<1>6. CASE Miss \/ StoreMiss
    BY <1>6, MissStep, StoreStep DEF Dict!Next
<1>7. CASE RemoveHere \/ ClearNext \/ IterateNext
    BY <1>7, EraseStep, IterateNextStep DEF Dict!Next
<1>8. ~Resize
    BY ConstantsAssumption DEF DictInv, TypeInv, Cursor, Resize, ResizeSkip, ResizeMove,
                               ResizeMoving, ResizeDone
<1>9. CASE Advance \/ FindNext \/ UNCHANGED vars
    BY <1>1, <1>9 DEF Advance, FindNext, table, vars
<1>. QED
    BY <1>2, <1>3, <1>4, <1>5, <1>6, <1>7, <1>8, <1>9 DEF Next, ProbeStep, Iterators

(* Before its first growth a Map is a dictionary: each step of a call      *)
(* takes effect on what the table stands for as Dictionary says, or does   *)
(* not touch it, and what a call hands back is what the dictionary holds.  *)
DictAction == rows' = InitialRows => [Dict!Next]_(Dict!vars)

LEMMA DictInvAlways == Spec => [](rows = InitialRows => DictInv)
<1>1. Init => CallInv /\ WalkInv /\ SearchInv
    BY CallInit DEF Init, WalkInv, SearchInv
<1>2. Spec => []TypeInv
    BY TypeInit, TypeNext, PTL DEF Spec
<1>3. Spec => [](CallInv /\ WalkInv /\ SearchInv)
    BY <1>1, <1>2, CallNext, WalkNext, SearchNext, PTL DEF Spec
<1>4. TypeInv /\ TagsMatch /\ CallInv /\ WalkInv /\ SearchInv /\ FixedSizeCorrect
        => (rows = InitialRows => DictInv)
    BY DEF FixedSizeCorrect, DictInv
<1>. QED BY <1>2, <1>3, <1>4, TagsAreHashes, FixedTableCorrect, PTL

THEOREM FixedTableIsDictionary == Spec => [][DictAction]_vars
<1>1. /\ rows = InitialRows => DictInv
      /\ (rows = InitialRows => DictInv)'
      /\ TypeInv /\ [Next]_vars
      => [DictAction]_vars
    <2>. SUFFICES ASSUME rows = InitialRows => DictInv, (rows = InitialRows => DictInv)', TypeInv,
                         [Next]_vars, rows' = InitialRows
                  PROVE  [Dict!Next]_(Dict!vars)
        BY DEF DictAction
    <2>1. rows = InitialRows
        <3>1. ~Grow
            BY ConstantsAssumption DEF Grow, TypeInv, Cursor, TypeOK
        <3>2. ASSUME NEW op, NEW k, NEW v, Store(op, k, v) PROVE rows' = rows
            BY <3>1, <3>2 DEF Store, table
        <3>3. TypeOK
            BY DEF TypeInv
        <3>. QED BY <3>2, <3>3, StepCases, QuietTable, MoveLive, RemoveFacts, StoreFacts
    <2>2. DictInv /\ TypeOK' /\ Distinct'
        BY <2>1 DEF DictInv, TypeInv
    <2>. QED BY <2>1, <2>2, DictStep
<1>2. Spec => []TypeInv
    BY TypeInit, TypeNext, PTL DEF Spec
<1>. QED BY <1>1, <1>2, DictInvAlways, PTL DEF Spec

(* A Map whose client never makes it grow implements Dictionary. *)
THEOREM MapIsDictionary ==
    ASSUME MaxRows \in Nat, MaxRows < 2 * InitialRows
    PROVE  Spec => ImplementsDictionary
<1>1. Init => rows = InitialRows /\ Dict!Init
    <2>. SUFFICES ASSUME Init PROVE rows = InitialRows /\ Dict!Init
        OBVIOUS
    <2>1. \A k \in Keys : Holding(k) = {}
        BY InitEmpty DEF Holding
    <2>2. DictOf = [k \in Keys |-> NoValue]
        BY <2>1 DEF DictOf
    <2>. QED BY <2>2 DEF Init, NoCall, Dict!Init, Dict!Idle
<1>2. TypeInv /\ rows = InitialRows /\ [Next]_vars => (rows = InitialRows)'
    <2>. SUFFICES ASSUME TypeInv, rows = InitialRows, [Next]_vars PROVE rows' = rows
        OBVIOUS
    <2>1. ~Grow
        BY ConstantsAssumption DEF Grow
    <2>2. ASSUME NEW op, NEW k, NEW v, Store(op, k, v) PROVE rows' = rows
        BY <2>1, <2>2 DEF Store, table
    <2>3. TypeOK
        BY DEF TypeInv
    <2>. QED BY <2>2, <2>3, StepCases, QuietTable, MoveLive, RemoveFacts, StoreFacts
<1>3. [DictAction]_vars /\ (rows = InitialRows)' => [Dict!Next]_(Dict!vars)
    <2>1. UNCHANGED vars => UNCHANGED Dict!vars
        BY DictSame DEF vars, Dict!vars
    <2>. QED BY <2>1 DEF DictAction
<1>4. Spec => []TypeInv
    BY TypeInit, TypeNext, PTL DEF Spec
<1>. QED
    BY <1>1, <1>2, <1>3, <1>4, FixedTableIsDictionary, PTL DEF Spec, ImplementsDictionary, Dict!Spec

-------------------------------------------------------------------------------
(* Powers of two *)

Odd(a) == a % 2 = 1

(* no odd number divides it but 1 *)
PowerOfTwo(r) == r \in Nat \ {0} /\ \A d, q \in 1..r : d * q = r /\ Odd(d) => d = 1

LEMMA OddOrEven ==
    ASSUME NEW a \in Nat
    PROVE  IF Odd(a) THEN \E b \in Nat : a = 2 * b + 1 ELSE \E b \in Nat : a = 2 * b
<1>1. a = 2 * (a \div 2) + (a % 2) /\ a % 2 \in {0, 1} /\ a \div 2 \in Nat
    OBVIOUS
<1>. QED BY <1>1 DEF Odd

LEMMA OddIs ==
    ASSUME NEW b \in Nat
    PROVE  Odd(2 * b + 1) /\ ~Odd(2 * b)
BY DEF Odd

(* A product of two numbers is odd when both are. *)
LEMMA OddProduct ==
    ASSUME NEW a \in Nat, NEW b \in Nat
    PROVE  Odd(a * b) <=> Odd(a) /\ Odd(b)
<1>1. CASE ~Odd(a)
    <2>1. PICK c \in Nat : a = 2 * c
        BY <1>1, OddOrEven
    <2>2. a * b = 2 * (c * b) /\ c * b \in Nat
        BY <2>1
    <2>. QED BY <1>1, <2>2, OddIs
<1>2. CASE ~Odd(b)
    <2>1. PICK c \in Nat : b = 2 * c
        BY <1>2, OddOrEven
    <2>2. a * b = 2 * (a * c) /\ a * c \in Nat
        BY <2>1
    <2>. QED BY <1>2, <2>2, OddIs
<1>3. CASE Odd(a) /\ Odd(b)
    <2>1. PICK c \in Nat, d \in Nat : a = 2 * c + 1 /\ b = 2 * d + 1
        BY <1>3, OddOrEven
    <2>2. c * d \in Nat
        OBVIOUS
    <2>3. a * b = 2 * (2 * (c * d) + c + d) + 1
        BY <2>1
    <2>4. PICK e \in Nat : e = 2 * (c * d) + c + d
        BY <2>2
    <2>. QED BY <1>3, <2>3, <2>4, OddIs
<1>. QED BY <1>1, <1>2, <1>3

LEMMA Doubled ==
    ASSUME NEW r, PowerOfTwo(r)
    PROVE  PowerOfTwo(2 * r)
<1>. r \in Nat \ {0}
    BY DEF PowerOfTwo
<1>. SUFFICES ASSUME NEW d \in 1..(2 * r), NEW q \in 1..(2 * r), d * q = 2 * r, Odd(d)
              PROVE  d = 1
    BY DEF PowerOfTwo
<1>1. ~Odd(q)
    <2>1. ~Odd(d * q)
        BY OddIs
    <2>. QED BY <2>1, OddProduct
<1>2. PICK p \in Nat : q = 2 * p
    BY <1>1, OddOrEven
<1>3. d * q = 2 * (d * p) /\ d * p \in Nat
    BY <1>2
<1>4. d * p = r
    BY <1>3
<1>5. p >= 1 /\ d >= 1
    BY <1>2
<1>6. d <= r /\ p <= r
    <2>1. d * p >= d * 1 /\ d * p >= 1 * p
        BY <1>5, <1>2
    <2>. QED BY <1>4, <1>2, <2>1
<1>. QED BY <1>4, <1>5, <1>6 DEF PowerOfTwo

(* DEFAULT_BUCKETS is 2. *)
LEMMA TwoIsPower == PowerOfTwo(1) /\ PowerOfTwo(2)
<1>1. PowerOfTwo(1)
    BY DEF PowerOfTwo
<1>. QED BY <1>1, Doubled

LEMMA Halved ==
    ASSUME NEW r, PowerOfTwo(r), r # 1
    PROVE  \E m \in Nat : r = 2 * m /\ m < r /\ PowerOfTwo(m)
<1>. r \in Nat \ {0}
    BY DEF PowerOfTwo
<1>1. ~Odd(r)
    <2>1. r * 1 = r /\ r \in 1..r /\ 1 \in 1..r
        OBVIOUS
    <2>. QED BY <2>1 DEF PowerOfTwo
<1>2. PICK m \in Nat : r = 2 * m
    BY <1>1, OddOrEven
<1>3. ASSUME NEW d \in 1..m, NEW q \in 1..m, d * q = m, Odd(d) PROVE d = 1
    <2>1. d * (2 * q) = 2 * (d * q)
        OBVIOUS
    <2>2. d \in 1..r /\ 2 * q \in 1..r /\ d * (2 * q) = r
        BY <1>2, <1>3, <2>1
    <2>. QED BY <1>3, <2>2 DEF PowerOfTwo
<1>. QED BY <1>2, <1>3 DEF PowerOfTwo

Divides(r, a) == \E q \in Nat : a = r * q

(* A power of two that divides a product divides one factor if the other   *)
(* is odd.                                                                 *)
LEMMA OddCancels ==
    ASSUME NEW r, PowerOfTwo(r), NEW x \in Nat, Odd(x), NEW y \in Nat, Divides(r, x * y)
    PROVE  Divides(r, y)
<1> DEFINE Bad == {s \in Nat : PowerOfTwo(s) /\ \E z \in Nat : Divides(s, x * z) /\ ~Divides(s, z)}
<1>1. ASSUME Bad # {} PROVE FALSE
    <2>1. PICK s \in Bad : \A t \in Bad : s <= t
        BY <1>1, LeastNatural
    <2>2. PICK z \in Nat : Divides(s, x * z) /\ ~Divides(s, z)
        BY <2>1
    <2>3. s # 1
        <3>1. z = 1 * z
            OBVIOUS
        <3>. QED BY <2>2, <3>1 DEF Divides
    <2>4. PICK m \in Nat : s = 2 * m /\ m < s /\ PowerOfTwo(m)
        BY <2>1, <2>3, Halved
    <2>5. PICK q \in Nat : x * z = s * q
        BY <2>2 DEF Divides
    <2>6. x * z = 2 * (m * q) /\ m * q \in Nat
        BY <2>4, <2>5
    <2>7. ~Odd(z)
        BY <2>6, OddProduct, OddIs
    <2>8. PICK w \in Nat : z = 2 * w
        BY <2>7, OddOrEven
    <2>9. x * z = 2 * (x * w) /\ x * w \in Nat
        BY <2>8
    <2>10. x * w = m * q
        BY <2>6, <2>9
    <2>11. m \notin Bad
        BY <2>1, <2>4
    <2>12. Divides(m, w)
        BY <2>4, <2>10, <2>11 DEF Divides
    <2>13. PICK p \in Nat : w = m * p
        BY <2>12 DEF Divides
    <2>14. z = s * p
        BY <2>4, <2>8, <2>13
    <2>. QED BY <2>2, <2>14 DEF Divides
<1>. QED BY <1>1 DEF PowerOfTwo

-------------------------------------------------------------------------------
(* Triangular steps *)

Steps(m) == (m * (m + 1)) \div 2

LEMMA StepsAre ==
    ASSUME NEW m \in Nat
    PROVE  Steps(m) \in Nat /\ 2 * Steps(m) = m * (m + 1)
<1>1. \E b \in Nat : m * (m + 1) = 2 * b
    <2>1. CASE Odd(m)
        <3>1. PICK c \in Nat : m = 2 * c + 1
            BY <2>1, OddOrEven
        <3>2. m * (m + 1) = 2 * (m * (c + 1)) /\ m * (c + 1) \in Nat
            BY <3>1
        <3>. QED BY <3>2
    <2>2. CASE ~Odd(m)
        <3>1. PICK c \in Nat : m = 2 * c
            BY <2>2, OddOrEven
        <3>2. m * (m + 1) = 2 * (c * (m + 1)) /\ c * (m + 1) \in Nat
            BY <3>1
        <3>. QED BY <3>2
    <2>. QED BY <2>1, <2>2
<1>2. PICK b \in Nat : m * (m + 1) = 2 * b
    BY <1>1
<1>3. (2 * b) \div 2 = b
    OBVIOUS
<1>. QED BY <1>2, <1>3 DEF Steps

(* Equal remainders differ by a multiple. *)
LEMMA SameRemainder ==
    ASSUME NEW r \in Nat \ {0}, NEW a \in Nat, NEW b \in Nat, a <= b, a % r = b % r
    PROVE  Divides(r, b - a)
<1>1. a = r * (a \div r) + (a % r) /\ b = r * (b \div r) + (b % r)
    OBVIOUS
<1>2. PICK p \in Nat, q \in Nat : p = a \div r /\ q = b \div r
    OBVIOUS
<1>3. b - a = r * q - r * p
    BY <1>1, <1>2
<1>4. r * q - r * p = r * (q - p)
    OBVIOUS
<1>5. q >= p
    <2>1. SUFFICES ASSUME q < p PROVE FALSE
        BY <1>2
    <2>2. q - p <= -1 /\ q - p \in Int
        BY <2>1
    <2>3. r * (q - p) <= -r
        BY <2>2
    <2>. QED BY <1>3, <1>4, <2>3
<1>6. q - p \in Nat
    BY <1>5
<1>. QED BY <1>3, <1>4, <1>6 DEF Divides

(* As many steps as a table of a power of two has rows come to different   *)
(* rows, wherever they start.                                              *)
LEMMA StepsDiffer ==
    ASSUME NEW r, PowerOfTwo(r), NEW h \in Nat, NEW a \in Nat, NEW b \in Nat, a < b, b < r
    PROVE  (h + Steps(a)) % r # (h + Steps(b)) % r
<1>. r \in Nat \ {0}
    BY DEF PowerOfTwo
<1>1. SUFFICES ASSUME (h + Steps(a)) % r = (h + Steps(b)) % r PROVE FALSE
    OBVIOUS
<1>2. PICK s \in Nat, t \in Nat :
        s = Steps(a) /\ t = Steps(b) /\ 2 * s = a * (a + 1) /\ 2 * t = b * (b + 1)
    BY StepsAre
<1>3. PICK x \in Nat, y \in Nat : x = b - a /\ y = b + a + 1
    OBVIOUS
<1>4. x * y = 2 * t - 2 * s
    <2>1. x * y = (b - a) * (b + a + 1)
        BY <1>3
    <2>2. (b - a) * (b + a + 1) = b * (b + 1) - a * (a + 1)
        OBVIOUS
    <2>. QED BY <1>2, <2>1, <2>2
<1>5. s <= t
    <2>1. x * y \in Nat
        OBVIOUS
    <2>. QED BY <1>4, <2>1
<1>6. PICK q \in Nat : (h + t) - (h + s) = r * q
    <2>1. h + s \in Nat /\ h + t \in Nat /\ h + s <= h + t
        BY <1>5
    <2>2. (h + s) % r = (h + t) % r
        BY <1>1, <1>2, Zenon
    <2>. QED BY <2>1, <2>2, SameRemainder DEF Divides
<1>7. x * y = (2 * r) * q
    <2>1. t - s = r * q
        BY <1>6
    <2>2. 2 * (r * q) = (2 * r) * q
        OBVIOUS
    <2>. QED BY <1>4, <2>1, <2>2
<1>8. Divides(2 * r, x * y) /\ Divides(2 * r, y * x) /\ PowerOfTwo(2 * r)
    <2>1. x * y = y * x
        OBVIOUS
    <2>. QED BY <1>7, <2>1, Doubled DEF Divides
<1>9. ASSUME NEW z \in Nat, 0 < z, z < 2 * r, Divides(2 * r, z) PROVE FALSE
    <2>1. PICK p \in Nat : z = (2 * r) * p
        BY <1>9 DEF Divides
    <2>2. p # 0
        BY <1>9, <2>1
    <2>3. (2 * r) * p >= 2 * r
        BY <2>2
    <2>. QED BY <1>9, <2>1, <2>3
<1>10. CASE Odd(x)
    <2>1. Divides(2 * r, y)
        BY <1>8, <1>10, OddCancels
    <2>. QED BY <1>3, <1>9, <2>1
<1>11. CASE ~Odd(x)
    <2>1. PICK c \in Nat : x = 2 * c
        BY <1>11, OddOrEven
    <2>2. y = 2 * (c + a) + 1 /\ c + a \in Nat
        BY <1>3, <2>1
    <2>3. Odd(y)
        BY <2>2, OddIs
    <2>4. Divides(2 * r, x)
        BY <1>8, <2>3, OddCancels
    <2>. QED BY <1>3, <1>9, <2>4
<1>. QED BY <1>10, <1>11

(* A probe of a table of a power of two of rows comes to every row in its  *)
(* first round.                                                            *)
LEMMA ProbeVisits ==
    ASSUME PowerOfTwo(rows), NEW k \in Keys, NEW i \in Rows
    PROVE  \E m \in 0..(rows - 1) : ProbeRow(k, m) = i
<1>. rows \in Nat \ {0}
    BY DEF PowerOfTwo
<1> DEFINE f == [m \in Rows |-> ProbeRow(k, m)]
<1>1. \A m \in Rows : m \in Nat /\ m < rows /\ ProbeRow(k, m) \in Rows
    BY ProbeRowType DEF Rows
<1>2. ASSUME NEW a \in Rows, NEW b \in Rows, a < b PROVE ProbeRow(k, a) # ProbeRow(k, b)
    BY <1>1, <1>2, HashType, StepsDiffer DEF ProbeRow, Steps
<1>3. \A a, b \in Rows : f[a] = f[b] => a = b
    BY <1>1, <1>2
<1>4. f \in Injection(Rows, Rows)
    BY <1>1, <1>3 DEF Injection, IsInjective
<1>5. IsFiniteSet(Rows)
    BY FS_Interval DEF Rows
<1>6. f \in Surjection(Rows, Rows)
    BY <1>4, <1>5, FS_Injection
<1>7. PICK m \in Rows : f[m] = i
    BY <1>6 DEF Surjection
<1>. QED BY <1>7 DEF Rows

-------------------------------------------------------------------------------
(* Searches that come around *)

LEMMA PowerNext ==
    ASSUME TypeInv, PowerOfTwo(rows), [Next]_vars
    PROVE  PowerOfTwo(rows')
<1>1. rows' = rows \/ rows' = 2 * rows
    <2>1. ASSUME NEW op, NEW k, NEW v, Store(op, k, v) PROVE rows' = rows \/ rows' = 2 * rows
        BY <2>1 DEF Store, Grow, table
    <2>2. TypeOK
        BY DEF TypeInv
    <2>. QED BY <2>1, <2>2, StepCases, QuietTable, MoveLive, RemoveFacts, StoreFacts
<1>. QED BY <1>1, Doubled

LEMMA ProbedAll ==
    ASSUME TypeOK, CallInv, SearchInv, PowerOfTwo(rows), pc = "probe", call.op # "find",
           n >= rows, NEW i \in Rows
    PROVE  Cont(i)
<1>1. call.key \in Keys /\ n \in Nat /\ rows \in Nat
    BY DEF TypeOK, Period
<1>2. PICK m \in 0..(rows - 1) : ProbeRow(call.key, m) = i
    BY <1>1, ProbeVisits
<1>3. m \in 0..(n - 1)
    BY <1>1
<1>. QED BY <1>2, <1>3 DEF CallInv, SearchInv

LEMMA SearchAlways ==
    ASSUME PowerOfTwo(InitialRows)
    PROVE  Spec => [](TypeInv /\ CallInv /\ SearchInv /\ PowerOfTwo(rows))
<1>1. Init => TypeInv /\ CallInv /\ SearchInv /\ PowerOfTwo(rows)
    BY TypeInit, CallInit DEF Init, SearchInv
<1>2. TypeInv /\ CallInv /\ SearchInv /\ PowerOfTwo(rows) /\ [Next]_vars
        => (TypeInv /\ CallInv /\ SearchInv /\ PowerOfTwo(rows))'
    BY TypeNext, CallNext, SearchNext, PowerNext
<1>. QED BY <1>1, <1>2, PTL DEF Spec

(* A search that came back to where it began has seen every row, and no    *)
(* byte that was never used: map.hpp's DEFAULT_BUCKETS and the sizes that  *)
(* Map(unsigned) computes are powers of two, and growing doubles them.     *)
THEOREM SpinningTablesAreSaturated ==
    ASSUME PowerOfTwo(InitialRows)
    PROVE  Spec => []SpinsOnlyWhenSaturated
<1>1. TypeInv /\ CallInv /\ SearchInv /\ PowerOfTwo(rows) => SpinsOnlyWhenSaturated
    BY ProbedAll DEF TypeInv, SpinsOnlyWhenSaturated
<1>. QED BY <1>1, SearchAlways, PTL

(* A table that is at most half full has a byte that is free. *)
LEMMA HasFree ==
    ASSUME TypeOK, CountCorrect, 2 * count <= rows * W
    PROVE  \E i \in Rows, c \in Slots : ctl[i][c] \in {0, SENTINEL}
<1>1. rows \in Nat \ {0} /\ W \in Nat \ {0} /\ rows * W \in Nat \ {0}
    <2>1. rows \in Nat \ {0} /\ W \in Nat \ {0}
        BY ConstantsAssumption DEF TypeOK
    <2>. QED BY <2>1, LoadType
<1>2. SUFFICES ASSUME \A i \in Rows, c \in Slots : ctl[i][c] \notin {0, SENTINEL} PROVE FALSE
    OBVIOUS
<1>3. Live = Rows \X Slots
    BY <1>2 DEF Live, IsLive
<1>4. Cardinality(Rows) = rows /\ Cardinality(Slots) = W /\ IsFiniteSet(Rows) /\ IsFiniteSet(Slots)
    BY <1>1, FS_Interval DEF Rows, Slots
<1>5. Cardinality(Rows \X Slots) = rows * W
    BY <1>4, FS_Product
<1>. QED BY <1>1, <1>3, <1>5 DEF CountCorrect

(* An insertion into a table from which nothing was removed comes to its   *)
(* slot before it probed each row once.                                    *)
InsertionEnds == pc = "probe" /\ Storing /\ ~Removed => n < rows

THEOREM InsertionsEnd ==
    ASSUME PowerOfTwo(InitialRows)
    PROVE  Spec => []InsertionEnds
<1>1. TypeInv /\ CallInv /\ SearchInv /\ PowerOfTwo(rows) /\ CountCorrect /\ LoadBounded
        => InsertionEnds
    <2>. SUFFICES ASSUME TypeInv, CallInv, SearchInv, PowerOfTwo(rows), CountCorrect, LoadBounded,
                         pc = "probe", Storing, ~Removed, n >= rows
                  PROVE  FALSE
        BY DEF InsertionEnds, TypeInv, TypeOK, Period
    <2>1. TypeOK /\ 2 * count <= rows * W
        BY DEF TypeInv, LoadBounded
    <2>2. PICK i \in Rows, c \in Slots : ctl[i][c] = 0
        BY <2>1, HasFree DEF Removed
    <2>3. call.op # "find"
        BY DEF Storing
    <2>4. Cont(i)
        BY <2>1, <2>3, ProbedAll
    <2>. QED BY <2>2, <2>4 DEF Cont
<1>. QED BY <1>1, SearchAlways, CountIsEntries, LoadIsBounded, PTL
===============================================================================
