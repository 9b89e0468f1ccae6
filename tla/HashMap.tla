------------------------------- MODULE HashMap -------------------------------
(***************************************************************************)
(* Map<K,V> of src/src/map.hpp: an open-addressing hash table              *)
(* whose rows of W slots carry one control byte per slot (0 never used,    *)
(* SENTINEL removed, anything else the low byte of the hash of the key     *)
(* stored there) and whose rows are probed at triangular distances.        *)
(*                                                                         *)
(* One call of the client runs at a time.  A call is a sequence of steps:  *)
(* one per row probed, one per slot that resize() visits, one per position *)
(* of an iterator, so a probe that never ends is an infinite behaviour.    *)
(***************************************************************************)
EXTENDS Integers, FiniteSets, Sequences

CONSTANTS
    Keys, Values, NoValue,
    DefaultKey, DefaultValue, \* what K() and V() of a fresh bucket are
    Hash,          \* std::hash, as [low |-> its low byte, high |-> hash >> 8]
    HighMod,       \* one more than the largest hash >> 8
    Bytes,         \* values of an unsigned char: 256 in the code
    W,             \* NUM_CONTROL_BYTES: 16 in the code
    InitialRows,   \* DEFAULT_BUCKETS, or what Map(unsigned cap) computes
    Ops,           \* the operations this client uses
    MaxRows,       \* bound: no call that would grow past it is made
    MaxHits        \* bound: the client leaves a find loop after so many hits

SENTINEL == Bytes \div 2

ASSUME ConstantsAssumption ==
    /\ NoValue \notin Values
    /\ DefaultKey \in Keys /\ DefaultValue \in Values
    /\ Bytes \in Nat /\ Bytes > 3 /\ Bytes % 2 = 0
    /\ HighMod \in Nat \ {0}
    /\ Hash \in [Keys -> [low : 0..(Bytes - 1), high : 0..(HighMod - 1)]]
    /\ W \in Nat \ {0}
    /\ InitialRows \in Nat \ {0}

VARIABLES
    rows,     \* control_bytes.size()
    ctl,      \* control_bytes
    bucket,   \* buckets, W to a row; a removed entry's pair stays in place
    count,    \* Map::count
    call,     \* the call in progress: its operation and arguments
    pc,       \* "idle", or the loop the call is in
    n,        \* Probe::probe_i, modulo the period of the probe sequence
    pos,      \* resize()'s (i, c), or the position of an iterator
    seen,     \* history: the slots an iterator of this call stood on
    ret       \* what the last call, or iterator position, handed back

vars == <<rows, ctl, bucket, count, call, pc, n, pos, seen, ret>>
table == <<rows, ctl, bucket, count>>

-------------------------------------------------------------------------------
(* The table *)

Slots == 0..(W - 1)
Rows == 0..(rows - 1)
NoCall == [op |-> "none", key |-> DefaultKey, val |-> DefaultValue]

(* do_hash: a low byte that means "free" is complemented away with the rest *)
do_hash(k) ==
    IF Hash[k].low \in {0, SENTINEL}
    THEN [low |-> Bytes - 1 - Hash[k].low, high |-> HighMod - 1 - Hash[k].high]
    ELSE Hash[k]

Target(k) == do_hash(k).low

(* mutant of ProbeRow: probe_i grows by two, and half of the rows are missed *)
ProbeRow_ByTwo(k, m) == (do_hash(k).high + m * (m + 1)) % rows

(* the row Probe stands on after m increments: i += 1, i += 2, ... *)
ProbeRow(k, m) == (do_hash(k).high + (m * (m + 1)) \div 2) % rows

(* probe_i only matters modulo this *)
Period == 2 * rows

Free(i) == {c \in Slots : ctl[i][c] \in {0, SENTINEL}}
IsLive(i, c) == ctl[i][c] \notin {0, SENTINEL}
Live == {s \in Rows \X Slots : IsLive(s[1], s[2])}
KeyAt(s) == bucket[s[1]][s[2]].key
ValAt(s) == bucket[s[1]][s[2]].val

(* Probe::match(k) on row i: the slots it would accept, and res.cont *)
Matches(i, k) == {c \in Slots : ctl[i][c] = Target(k) /\ bucket[i][c].key = k}
(* mutant of Cont: a SENTINEL ends the chain *)
Cont_NotSentinel(i) == \A c \in Slots : ctl[i][c] \notin {0, SENTINEL}
Cont(i) == \A c \in Slots : ctl[i][c] # 0

First(S) == CHOOSE c \in S : \A d \in S : c <= d

(* mutant of load_factor: a table may fill up *)
load_factor_Full == count > rows * W

load_factor == 2 * count > rows * W

(* the rows Map(unsigned cap) asks for: 2^(sz+1), sz least with 2^sz > cap *)
RowsFor(cap) == 2 * First({x \in {2^sz : sz \in 0..cap} : x > cap})

-------------------------------------------------------------------------------
Init ==
    /\ rows = InitialRows
    /\ ctl = [i \in 0..(InitialRows - 1) |-> [c \in Slots |-> 0]]
    /\ bucket = [i \in 0..(InitialRows - 1) |->
                    [c \in Slots |-> [key |-> DefaultKey, val |-> DefaultValue]]]
    /\ count = 0
    /\ call = NoCall
    /\ pc = "idle"
    /\ n = 0
    /\ pos = <<0, 0>>
    /\ seen = <<>>
    /\ ret = NoValue

-------------------------------------------------------------------------------
(* Calls *)

Begin(op, k, v) ==
    /\ pc = "idle"
    /\ op \in Ops
    /\ call' = [op |-> op, key |-> k, val |-> v]
    /\ n' = 0
    /\ seen' = <<>>
    /\ UNCHANGED ret

Finish == /\ call' = NoCall
          /\ pc' = "idle"
          /\ n' = 0
          /\ pos' = <<0, 0>>
          /\ seen' = <<>>

(* operator[], remove and find_begin only probe *)
Search(op, k) ==
    /\ Begin(op, k, DefaultValue)
    /\ pc' = "probe"
    /\ UNCHANGED <<table, pos>>

(* resize(2 * control_bytes.size()): the vectors grow, then the old rows *)
(* are walked                                                            *)
Grow ==
    /\ 2 * rows <= MaxRows
    /\ rows' = 2 * rows
    /\ ctl' = [i \in 0..(2 * rows - 1) |->
                  IF i < rows THEN ctl[i] ELSE [c \in Slots |-> 0]]
    /\ bucket' = [i \in 0..(2 * rows - 1) |->
                     IF i < rows THEN bucket[i]
                     ELSE [c \in Slots |-> [key |-> DefaultKey, val |-> DefaultValue]]]
    /\ pc' = "resize"
    /\ pos' = <<0, 0>>
    /\ UNCHANGED count

(* insert and upsert start with check_resize() *)
Store(op, k, v) ==
    /\ Begin(op, k, v)
    /\ \/ load_factor /\ Grow
       \/ ~load_factor /\ pc' = "probe" /\ UNCHANGED <<table, pos>>

-------------------------------------------------------------------------------
(* resize() *)

PrevRows == rows \div 2

Walked(p) == IF p[2] + 1 < W THEN <<p[1], p[2] + 1>> ELSE <<p[1] + 1, 0>>

(* an entry moves when its row in the grown table is a new one *)
Moves(i, c) == IsLive(i, c) /\ ProbeRow(bucket[i][c].key, 0) >= PrevRows

ResizeSkip ==
    /\ pc = "resize" /\ pos[1] < PrevRows
    /\ ~Moves(pos[1], pos[2])
    /\ pos' = Walked(pos)
    /\ UNCHANGED <<table, call, pc, n, seen, ret>>

(* where the entry at slot p goes: the first free slot along its probe,   *)
(* which may be an old slot again, or p itself                            *)
FreeAfter(p, i) == Free(i) \cup (IF i = p[1] THEN {p[2]} ELSE {})
GoesTo(p, i, d) ==
    \E m \in 0..(Period - 1) :
        /\ i = ProbeRow(KeyAt(p), m)
        /\ FreeAfter(p, i) # {} /\ d = First(FreeAfter(p, i))
        /\ \A l \in 0..(m - 1) : FreeAfter(p, ProbeRow(KeyAt(p), l)) = {}

ResizeMoving ==
    /\ pc = "resize" /\ pos[1] < PrevRows
    /\ Moves(pos[1], pos[2])
    /\ pos' = Walked(pos)
    /\ UNCHANGED <<rows, count, call, pc, n, seen, ret>>

(* mutants of ResizeMove: the old slot stays live; the pair is not copied *)
ResizeMove_Copies ==
    /\ ResizeMoving
    /\ \E i \in Rows, d \in Slots :
        /\ GoesTo(pos, i, d)
        /\ ctl' = [ctl EXCEPT ![i][d] = Target(KeyAt(pos))]
        /\ bucket' = [bucket EXCEPT ![i][d] = bucket[pos[1]][pos[2]]]
ResizeMove_NoPair ==
    /\ ResizeMoving
    /\ \E i \in Rows, d \in Slots :
        /\ GoesTo(pos, i, d)
        /\ ctl' = [ctl EXCEPT ![pos[1]][pos[2]] = SENTINEL, ![i][d] = Target(KeyAt(pos))]
    /\ UNCHANGED bucket

ResizeMove ==
    /\ ResizeMoving
    /\ \E i \in Rows, d \in Slots :
        /\ GoesTo(pos, i, d)
        /\ ctl' = [ctl EXCEPT ![pos[1]][pos[2]] = SENTINEL, ![i][d] = Target(KeyAt(pos))]
        /\ bucket' = [bucket EXCEPT ![i][d] = bucket[pos[1]][pos[2]]]

ResizeDone ==
    /\ pc = "resize" /\ pos[1] = PrevRows
    /\ pc' = "probe"
    /\ pos' = <<0, 0>>
    /\ UNCHANGED <<table, call, n, seen, ret>>

-------------------------------------------------------------------------------
(* Probing: one step per row *)

Row == ProbeRow(call.key, n)
Storing == call.op \in {"insert", "upsert"}

Hit == pc = "probe" /\ Matches(Row, call.key) # {}
HitSlot == First(Matches(Row, call.key))
NoHit == pc = "probe" /\ Matches(Row, call.key) = {}

LookupHit ==
    /\ Hit /\ (call.op = "lookup" \/ call.op = "upsert")
    /\ ret' = bucket[Row][HitSlot].val
    /\ Finish
    /\ UNCHANGED table

(* mutants of InsertHit: the old value stays; the entry is counted again *)
InsertHit_Keeps ==
    /\ Hit /\ call.op = "insert"
    /\ ret' = bucket[Row][HitSlot].val
    /\ Finish
    /\ UNCHANGED table
InsertHit_Counts ==
    /\ Hit /\ call.op = "insert"
    /\ ret' = bucket[Row][HitSlot].val
    /\ bucket' = [bucket EXCEPT ![Row][HitSlot].val = call.val]
    /\ count' = count + 1
    /\ Finish
    /\ UNCHANGED <<rows, ctl>>

InsertHit ==
    /\ Hit /\ call.op = "insert"
    /\ ret' = bucket[Row][HitSlot].val
    /\ bucket' = [bucket EXCEPT ![Row][HitSlot].val = call.val]
    /\ Finish
    /\ UNCHANGED <<rows, ctl, count>>

RemoveHit ==
    /\ Hit /\ call.op = "remove"
    /\ ret' = bucket[Row][HitSlot].val
    /\ ctl' = [ctl EXCEPT ![Row][HitSlot] = SENTINEL]
    /\ count' = count - 1
    /\ Finish
    /\ UNCHANGED <<rows, bucket>>

(* FindIterator: the client gets the position and decides what comes next *)
FindHit ==
    /\ Hit /\ call.op = "find"
    /\ pc' = "at"
    /\ pos' = <<Row, HitSlot>>
    /\ seen' = Append(seen, <<Row, HitSlot>>)
    /\ ret' = bucket[Row][HitSlot].val
    /\ UNCHANGED <<table, call, n>>

(* a row with a byte that was never used ends the chain *)
Miss ==
    /\ NoHit /\ ~Cont(Row) /\ ~Storing
    /\ ret' = IF seen = <<>> THEN NoValue ELSE ret
    /\ Finish
    /\ UNCHANGED table

Place(i, c) ==
    /\ ctl' = [ctl EXCEPT ![i][c] = Target(call.key)]
    /\ count' = count + 1
    /\ bucket' = IF call.op = "insert"
                 THEN [bucket EXCEPT ![i][c] = [key |-> call.key, val |-> call.val]]
                 ELSE [bucket EXCEPT ![i][c].key = call.key]
    /\ ret' = IF call.op = "insert" THEN NoValue ELSE bucket[i][c].val
    /\ Finish
    /\ UNCHANGED rows

StoreMiss == NoHit /\ ~Cont(Row) /\ Storing /\ Place(Row, First(Free(Row)))

(* mutant of Advance: probe_i is not incremented *)
Advance_Stays == NoHit /\ Cont(Row) /\ UNCHANGED vars

(* operator++ *)
Advance ==
    /\ NoHit /\ Cont(Row)
    /\ n' = (n + 1) % Period
    /\ UNCHANGED <<table, call, pc, pos, seen, ret>>

-------------------------------------------------------------------------------
(* Positions handed to the client: FindIterator, Iterator, clear() *)

Before(p, q) == p[1] < q[1] \/ (p[1] = q[1] /\ p[2] < q[2])
(* mutant of LiveAfter: the rest of the row is skipped *)
LiveAfter_NextRow(p) == {s \in Live : p[1] < s[1]}
LiveAfter(p) == {s \in Live : Before(p, s)}
Least(S) == LET i == First({s[1] : s \in S})
            IN <<i, First({s[2] : s \in {t \in S : t[1] = i}})>>

StandOn(s) ==
    /\ pc' = "at"
    /\ pos' = s
    /\ seen' = Append(seen, s)
    /\ ret' = IF call'.op = "clear" THEN ret ELSE ValAt(s)

(* begin(); in an empty map it is end(), and the loop never starts *)
Iterate(op) ==
    /\ pc = "idle" /\ op \in Ops
    /\ call' = [NoCall EXCEPT !.op = op]
    /\ Live # {} /\ StandOn(Least(Live))
    /\ UNCHANGED <<table, n>>

Drop(i, c) ==
    /\ ctl' = [ctl EXCEPT ![i][c] = SENTINEL]
    /\ count' = count - 1
    /\ UNCHANGED <<rows, bucket>>

(* Iterator::remove, FindIterator::remove: a client uses it once a position *)
RemoveHere ==
    /\ pc = "at" /\ call.op # "clear"
    /\ IsLive(pos[1], pos[2])
    /\ Drop(pos[1], pos[2])
    /\ UNCHANGED <<call, pc, n, pos, seen, ret>>

(* operator++: the next entry in the order of the slots, or end() *)
NextOrEnd ==
    \/ /\ LiveAfter(pos) # {}
       /\ UNCHANGED <<call, n>>
       /\ StandOn(Least(LiveAfter(pos)))
    \/ LiveAfter(pos) = {} /\ Finish /\ UNCHANGED ret

IterateNext == pc = "at" /\ call.op = "iterate" /\ NextOrEnd /\ UNCHANGED table

ClearNext == /\ pc = "at" /\ call.op = "clear"
             /\ Drop(pos[1], pos[2])
             /\ NextOrEnd

(* FindIterator::operator++ with a bucket set goes to the next row at once *)
FindNext ==
    /\ pc = "at" /\ call.op = "find"
    /\ Len(seen) < MaxHits
    /\ pc' = "probe"
    /\ n' = (n + 1) % Period
    /\ pos' = <<0, 0>>
    /\ UNCHANGED <<table, call, seen, ret>>

(* the client leaves its loop *)
Stop == pc = "at" /\ call.op # "clear" /\ Finish /\ UNCHANGED <<table, ret>>

-------------------------------------------------------------------------------
Resize == ResizeSkip \/ ResizeMove \/ ResizeDone
ProbeStep == \/ LookupHit \/ InsertHit \/ RemoveHit \/ FindHit
             \/ Miss \/ StoreMiss \/ Advance

Calls == \E k \in Keys :
            \/ \E op \in {"lookup", "remove", "find"} : Search(op, k)
            \/ \E v \in Values : Store("insert", k, v)
            \/ Store("upsert", k, DefaultValue)
Iterators == \/ \E op \in {"iterate", "clear"} : Iterate(op)
             \/ RemoveHere \/ IterateNext \/ ClearNext \/ FindNext \/ Stop

Next == Calls \/ Resize \/ ProbeStep \/ Iterators

Spec == Init /\ [][Next]_vars

(* a started call runs: nothing in it waits for anybody *)
FairSpec == Spec /\ WF_vars(Resize \/ ProbeStep)

-------------------------------------------------------------------------------
(* Properties *)

(* The table has the shape its size says, and the cursors of a call stay   *)
(* inside it (Probe::i, resize()'s i and c, Iterator::c).  That count, a    *)
(* size_t, never goes below zero is part of CountCorrect.                   *)
TypeOK ==
    /\ rows \in Nat \ {0}
    /\ ctl \in [Rows -> [Slots -> 0..(Bytes - 1)]]
    /\ bucket \in [Rows -> [Slots -> [key : Keys, val : Values]]]
    /\ count \in Int
    /\ call \in [op : Ops \cup {"none"}, key : Keys, val : Values]
    /\ pc \in {"idle", "resize", "probe", "at"}
    /\ n \in 0..(Period - 1)
    /\ pos \in (0..rows) \X Slots
    /\ seen \in Seq(Rows \X Slots)
    /\ ret \in Values \cup {NoValue}

(* Map::count is the number of occupied slots, whatever inserts, removals, *)
(* iterator removals, clears and growths came before (the load factor and  *)
(* the client both read it).                                               *)
CountCorrect == count = Cardinality(Live)

(* Both: whatever calls came before (map.hpp:335 reads count, and every    *)
(* probe relies on the shape).                                             *)
TableSound == TypeOK /\ CountCorrect

(* A control byte that is neither free nor SENTINEL is the low byte of the *)
(* hash of the key in its bucket: match() never skips the key it looks for *)
(* in the row it stands on, and resize() rehashes the right key.           *)
TagsMatch == \A s \in Live : ctl[s[1]][s[2]] = Target(KeyAt(s))

(* The probe for k comes to row i after m increments: no row before it     *)
(* ends the chain.                                                         *)
PathTo(k, i, m) == /\ ProbeRow(k, m) = i
                   /\ \A l \in 0..(m - 1) : Cont(ProbeRow(k, l))
Reachable(s) == \E m \in 0..(Period - 1) : PathTo(KeyAt(s), s[1], m)

Distinct == \A s, t \in Live : KeyAt(s) = KeyAt(t) => s = t

(* Until the table first grows, every entry can be found by probing for    *)
(* its key and no key is stored twice, whatever removals left SENTINELs.   *)
FixedSizeCorrect ==
    rows = InitialRows =>
        Distinct /\ \A s \in Live : Reachable(s)

(* A search that came back to its first row has seen every row, and only   *)
(* rows full of entries and SENTINELs: triangular steps over a power of    *)
(* two of rows miss none, so a call that never ends means that the table   *)
(* has no byte left that was never used.  (The find loop of FindIterator   *)
(* goes on past the end of a chain and is not covered: see FoundOnce.)     *)
SpinsOnlyWhenSaturated ==
    pc = "probe" /\ call.op # "find" /\ n >= rows => \A i \in Rows : Cont(i)

(* check_resize() keeps a free slot for every insert: an insertion that     *)
(* probes does so in a table that is at most half full, so no table is ever *)
(* more than one entry over that.                                           *)
LoadBounded ==
    /\ 2 * (count - 1) <= rows * W
    /\ pc = "probe" /\ Storing => 2 * count <= rows * W

(* Growing moves entries without losing, copying or changing one.          *)
Entries == {bucket[s[1]][s[2]] : s \in Live}
ResizeKeepsEntries ==
    [][pc = "resize" => Entries' = Entries /\ Cardinality(Live') = Cardinality(Live)]_vars

(* At each position the entries that ++ has still to come to are those the *)
(* iterator has not stood on, and it stands on none twice, also when the   *)
(* client removes entries on the way.                                      *)
IterateComplete ==
    pc = "at" /\ call.op # "find" =>
        /\ LiveAfter(pos) = {s \in Live : \A j \in 1..Len(seen) : seen[j] # s}
        /\ \A j, l \in 1..Len(seen) : seen[j] = seen[l] => j = l

(* As long as no slot of the table is a removed one, every call comes back. *)
Removed == \E i \in Rows, j \in Slots : ctl[i][j] = SENTINEL
Returns == pc # "idle" ~> pc = "idle" \/ Removed

(* The dictionary the table stands for, and the implementation of it.      *)
Holding(k) == {s \in Live : KeyAt(s) = k}
DictOf == [k \in Keys |-> IF Holding(k) = {} THEN NoValue
                          ELSE LET s == CHOOSE s \in Holding(k) : TRUE
                               IN ValAt(s)]
Dict == INSTANCE Dictionary WITH dict <- DictOf
ImplementsDictionary == Dict!Spec

(* tests/maptest2.cpp:43 `assert(m[s]!=nullptr);` and maptest.cpp:51: a    *)
(* key that was inserted and never removed is found.                       *)
InsertedIsFound ==
    pc = "idle" => \A s \in Live :
        \E m \in 0..(Period - 1), i \in Rows :
            Matches(i, KeyAt(s)) # {} /\ PathTo(KeyAt(s), i, m)

(* tests/maptest2.cpp:40 `assert(cnt<=1);`: iterating over the matches of  *)
(* one key gives it at most once.                                          *)
FoundOnce == call.op = "find" => Len(seen) <= 1
===============================================================================
