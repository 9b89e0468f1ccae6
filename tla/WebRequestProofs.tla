--------------------------- MODULE WebRequestProofs ---------------------------
(***************************************************************************)
(* Theorems about WebRequest, for any handlers, any streams of bytes, any  *)
(* way they arrive and any grammars of their lines.                        *)
(***************************************************************************)
EXTENDS WebRequest, TLAPS, FiniteSetTheorems, SequenceTheorems, WellFoundedInduction

(* how much of the stream has been taken off the input buffer *)
At == got - Len(input)

-------------------------------------------------------------------------------
(* Lemmas about numbers and sequences *)

(* Min is the least number of a set. *)
LEMMA MinIsLeast ==
    ASSUME NEW S \in SUBSET Nat, S # {}
    PROVE  Min(S) \in S /\ \A y \in S : Min(S) <= y
<1>1. PICK x \in S : \A y \in S : ~(<<y, x>> \in OpToRel(<, Nat))
    BY NatLessThanWellFounded, WFMin, Zenon
<1>2. \A y \in S : x <= y
  <2> TAKE y \in S
  <2>1. ~(y < x)
    BY <1>1 DEF OpToRel
  <2> QED
    BY <2>1
<1> QED
    BY <1>2 DEF Min

(* The stream is a sequence. *)
LEMMA StreamIsSequence ==
    ASSUME stream \in Streams
    PROVE  /\ stream \in Seq({stream[i] : i \in 1..Len(stream)})
           /\ Len(stream) \in Nat
<1>1. stream \in Seq({stream[i] : i \in 1..Len(stream)})
    BY StreamAssumption
<1> QED
    BY <1>1, LenProperties

(* what of a sequence stands between two positions *)
Piece(s, a, g) == SubSeq(s, a + 1, g)

LEMMA PieceIs ==
    ASSUME NEW C, NEW s \in Seq(C), NEW g \in 0..Len(s), NEW a \in 0..g
    PROVE  Piece(s, a, g) \in Seq(C) /\ Len(Piece(s, a, g)) = g - a
<1>1. Len(s) \in Nat /\ g \in Nat /\ a \in Nat /\ a <= g
    BY LenProperties
<1>2. \A i \in (a + 1)..g : s[i] \in C
    BY <1>1, ElementOfSeq
<1> QED
    BY <1>1, <1>2, SubSeqProperties DEF Piece

(* What is left of a piece when some of it is taken away. *)
LEMMA CutPiece ==
    ASSUME NEW C, NEW s \in Seq(C), NEW g \in 0..Len(s), NEW a \in 0..g, NEW m \in 1..(g - a)
    PROVE  /\ Piece(Piece(s, a, g), m, g - a) = Piece(s, a + m, g)
           /\ Piece(Piece(s, a, g), 0, m - 1) = Piece(s, a, a + m - 1)
<1>1. Len(s) \in Nat /\ g \in Nat /\ a \in Nat /\ m \in Nat /\ a + m <= g /\ 1 <= m
    BY LenProperties
<1>2. SubSeq(s, a + 1, g) \in Seq(C)
  <2>1. \A i \in (a + 1)..g : s[i] \in C
    BY <1>1, ElementOfSeq
  <2> QED
    BY <1>1, <2>1, SubSeqProperties
<1>3. SubSeq(SubSeq(s, a + 1, g), m + 1, g - a) = SubSeq(s, a + m + 1, g)
  <2>1. CASE m = g - a
    <3>1. SubSeq(SubSeq(s, a + 1, g), m + 1, g - a) = <<>>
        BY <1>1, <2>1, SubSeqEmpty
    <3>2. SubSeq(s, a + m + 1, g) = <<>>
        BY <1>1, <2>1, SubSeqEmpty
    <3> QED
        BY <3>1, <3>2
  <2>2. CASE m # g - a
    <3>1. /\ a + 1 \in 1..Len(s) /\ g \in 1..Len(s)
          /\ m + 1 \in 1..(g - (a + 1) + 1) /\ g - a \in 1..(g - (a + 1) + 1)
        BY <1>1, <2>2
    <3>2. SubSeq(SubSeq(s, a + 1, g), m + 1, g - a) = SubSeq(s, a + 1 + (m + 1) - 1, a + 1 + (g - a) - 1)
        BY <3>1, <1>2, SubSeqOfSubSeq
    <3> QED
        BY <3>2, <1>1
  <2> QED
    BY <2>1, <2>2
<1>4. SubSeq(SubSeq(s, a + 1, g), 1, m - 1) = SubSeq(s, a + 1, a + m - 1)
  <2>1. CASE m = 1
    <3>1. SubSeq(SubSeq(s, a + 1, g), 1, m - 1) = <<>>
        BY <1>1, <2>1, SubSeqEmpty
    <3>2. SubSeq(s, a + 1, a + m - 1) = <<>>
        BY <1>1, <2>1, SubSeqEmpty
    <3> QED
        BY <3>1, <3>2
  <2>2. CASE m # 1
    <3>1. /\ a + 1 \in 1..Len(s) /\ g \in 1..Len(s)
          /\ 1 \in 1..(g - (a + 1) + 1) /\ m - 1 \in 1..(g - (a + 1) + 1)
        BY <1>1, <2>2
    <3>2. SubSeq(SubSeq(s, a + 1, g), 1, m - 1) = SubSeq(s, a + 1 + 1 - 1, a + 1 + (m - 1) - 1)
        BY <3>1, <1>2, SubSeqOfSubSeq
    <3> QED
        BY <3>2, <1>1
  <2> QED
    BY <2>1, <2>2
<1> QED
    BY <1>1, <1>3, <1>4 DEF Piece

(* A piece and the one behind it. *)
LEMMA GrowPiece ==
    ASSUME NEW C, NEW s \in Seq(C), NEW g \in 0..Len(s), NEW a \in 0..g, NEW k \in 0..(Len(s) - g)
    PROVE  /\ Piece(s, a, g) \o Piece(s, g, g + k) = Piece(s, a, g + k)
           /\ Len(Piece(s, a, g + k)) = g + k - a
<1>1. Len(s) \in Nat /\ g \in Nat /\ a \in Nat /\ k \in Nat /\ a <= g /\ g + k <= Len(s)
    BY LenProperties
<1>2. a + 1 \in 1..(Len(s) + 1) /\ g \in (a + 1 - 1)..Len(s) /\ g + k \in g..Len(s)
    BY <1>1
<1>3. \A i \in (a + 1)..(g + k) : s[i] \in C
    BY <1>1, ElementOfSeq
<1>4. Len(SubSeq(s, a + 1, g + k)) = g + k - a
    BY <1>1, <1>3, SubSeqProperties
<1> QED
    BY <1>2, <1>4, ConcatAdjacentSubSeq DEF Piece

-------------------------------------------------------------------------------
(* Types and positions *)

(* Before accept() nothing has happened; a callback is running only while  *)
(* the bufferevent lives; nothing is deleted before it is freed.           *)
Bookkeeping ==
    /\ obj = "none" => req = Blank /\ calls = <<>> /\ frees = 0 /\ pc = "idle"
    /\ frees > 0 => pc = "idle"
    /\ frees = 0 => deletes = 0

(* readcb stands at the start of a line until it is through the headers.   *)
LineStarts ==
    /\ req.pstate = "RequestLine" /\ pc # "error" /\ frees = 0 => At = 0
    /\ req.pstate = "Headers" => At >= 1 /\ stream[At] = EndLine

TypeInv == TypeOK /\ Bookkeeping /\ LineStarts

(* the facts of TypeOK that are about numbers *)
LEMMA Lengths ==
    ASSUME TypeOK
    PROVE  /\ Len(stream) \in Nat /\ got \in 0..Len(stream)
           /\ Len(input) \in Nat /\ At \in 0..got /\ got = At + Len(input)
           /\ \A i \in 1..Len(input) : input[i] = stream[At + i]
<1>1. Len(stream) \in Nat
    BY StreamIsSequence DEF TypeOK
<1>2. got \in 0..Len(stream)
    BY DEF TypeOK
<1>3. Len(input) \in 0..got
    BY DEF TypeOK
<1>4. Len(input) \in Nat /\ Len(input) <= got
    BY <1>1, <1>2, <1>3
<1>5. input = SubSeq(stream, got - Len(input) + 1, got)
    BY DEF TypeOK
<1> DEFINE C == {stream[i] : i \in Int}
           m == got - Len(input) + 1
<1>6. m \in Int /\ got \in Int
    BY <1>1, <1>2, <1>4
<1>7. \A i \in m..got : stream[i] \in C
    BY <1>6
<1>8. \A i \in 1..(got - m + 1) : SubSeq(stream, m, got)[i] = stream[m + i - 1]
  <2> HIDE DEF C, m
  <2> QED
    BY <1>6, <1>7, SubSeqProperties
<1>9. \A i \in 1..Len(input) : input[i] = stream[got - Len(input) + i]
  <2> TAKE i \in 1..Len(input)
  <2>1. i \in 1..(got - m + 1) /\ m + i - 1 = got - Len(input) + i
    BY <1>2, <1>4
  <2>2. SubSeq(stream, m, got)[i] = stream[m + i - 1]
    BY <1>8, <2>1
  <2> QED
    BY <1>5, <2>1, <2>2
<1> QED
    BY <1>1, <1>2, <1>4, <1>9 DEF At

(* The first line of the input buffer is the one of the stream that starts *)
(* behind what has been taken.                                             *)
LEMMA LineIs ==
    ASSUME TypeOK, Ends # {}, NEW m, m = Min(Ends)
    PROVE  /\ m \in 1..Len(input)
           /\ At + m \in 1..Len(stream) /\ stream[At + m] = EndLine
           /\ \A k \in 1..(m - 1) : stream[At + k] # EndLine
           /\ Line = LineFrom(stream, At + 1)
           /\ Line = <<>> <=> m = 1
           /\ Len(Piece(input, m, Len(input))) = Len(input) - m
           /\ Piece(input, m, Len(input)) = Piece(stream, At + m, got)
<1>1. /\ Len(stream) \in Nat /\ got \in 0..Len(stream)
      /\ Len(input) \in Nat /\ At \in 0..got /\ got = At + Len(input)
      /\ \A i \in 1..Len(input) : input[i] = stream[At + i]
    BY Lengths
<1>2. Ends \in SUBSET Nat
    BY <1>1 DEF Ends
<1>3. m \in Ends /\ \A y \in Ends : m <= y
    BY <1>2, MinIsLeast
<1>4. m \in 1..Len(input) /\ input[m] = EndLine
    BY <1>3 DEF Ends
<1>5. At + m \in 1..Len(stream) /\ stream[At + m] = EndLine
    BY <1>1, <1>4
<1>6. \A k \in 1..(m - 1) : stream[At + k] # EndLine
  <2> TAKE k \in 1..(m - 1)
  <2>1. k \in 1..Len(input) /\ ~(m <= k)
    BY <1>1, <1>4
  <2>2. input[k] # EndLine
    BY <1>3, <2>1 DEF Ends
  <2> QED
    BY <1>1, <2>1, <2>2
<1>7. PICK C : stream \in Seq(C)
    BY StreamIsSequence DEF TypeOK
<1>8. At \in 0..got /\ got \in 0..Len(stream) /\ m \in 1..(got - At) /\ got - At = Len(input)
    BY <1>1, <1>4
<1>9. input = Piece(stream, At, got)
  <2>1. input = SubSeq(stream, got - Len(input) + 1, got)
    BY DEF TypeOK
  <2>2. got - Len(input) + 1 = At + 1
    BY <1>1
  <2> QED
    BY <2>1, <2>2 DEF Piece
<1>10. /\ Piece(input, m, Len(input)) = Piece(stream, At + m, got)
       /\ Piece(input, 0, m - 1) = Piece(stream, At, At + m - 1)
       /\ Len(Piece(input, m, Len(input))) = Len(input) - m
  <2>1. At \in 0..got /\ got \in 0..Len(stream) /\ m \in 1..(got - At)
    BY <1>8
  <2>2. Piece(Piece(stream, At, got), m, got - At) = Piece(stream, At + m, got)
    BY <1>7, <2>1, CutPiece
  <2>3. Piece(Piece(stream, At, got), 0, m - 1) = Piece(stream, At, At + m - 1)
    BY <1>7, <2>1, CutPiece
  <2>4. Len(Piece(stream, At + m, got)) = got - At - m
    <3>1. At + m \in 0..got /\ got - (At + m) = got - At - m
        BY <2>1, <1>1
    <3> QED
        BY <1>7, <2>1, <3>1, PieceIs
  <2> QED
    BY <2>2, <2>3, <2>4, <1>8, <1>9
<1>11. Line = SubSeq(stream, At + 1, At + m - 1)
  <2>1. Line = SubSeq(input, 1, m - 1)
    BY DEF Line
  <2>2. Piece(input, 0, m - 1) = SubSeq(input, 1, m - 1)
    BY DEF Piece
  <2>3. Piece(stream, At, At + m - 1) = SubSeq(stream, At + 1, At + m - 1)
    BY DEF Piece
  <2> QED
    BY <2>1, <2>2, <2>3, <1>10
<1>12. Line = LineFrom(stream, At + 1)
  <2> DEFINE E == {j \in (At + 1)..Len(stream) : stream[j] = EndLine} \cup {Len(stream) + 1}
  <2>1. E \in SUBSET Nat /\ At + m \in E
    BY <1>1, <1>4, <1>5
  <2>2. Min(E) \in E /\ \A y \in E : Min(E) <= y
    <3> HIDE DEF E
    <3> QED
        BY <2>1, MinIsLeast
  <2>3. \A y \in E : At + m <= y
    <3> TAKE y \in E
    <3>1. CASE y = Len(stream) + 1
        BY <3>1, <1>5
    <3>2. CASE y \in (At + 1)..Len(stream) /\ stream[y] = EndLine
      <4>1. ~(y - At \in 1..(m - 1))
        BY <1>6, <1>1, <3>2
      <4> QED
        BY <4>1, <3>2, <1>1, <1>4
    <3> QED
        BY <3>1, <3>2
  <2>4. Min(E) = At + m
    <3>1. Min(E) \in Nat /\ At + m \in Nat
        BY <2>1, <2>2, <1>5
    <3>2. At + m <= Min(E) /\ Min(E) <= At + m
        BY <2>1, <2>2, <2>3
    <3> HIDE DEF E
    <3> QED
        BY <3>1, <3>2
  <2>5. LineFrom(stream, At + 1) = SubSeq(stream, At + 1, Min(E) - 1)
    BY DEF LineFrom
  <2> HIDE DEF E
  <2> QED
    BY <2>4, <2>5, <1>1, <1>4, <1>11
<1>13. Line = <<>> <=> m = 1
  <2>1. Line = SubSeq(stream, At + 1, At + m - 1)
    BY <1>11
  <2>2. \A i \in (At + 1)..(At + m - 1) : stream[i] \in C
    <3> TAKE i \in (At + 1)..(At + m - 1)
    <3>1. i \in 1..Len(stream)
        BY <1>1, <1>4, <1>5
    <3> QED
        BY <3>1, <1>7, ElementOfSeq
  <2> DEFINE a == At + 1
             b == At + m - 1
  <2>3. a \in Int /\ b \in Int /\ b - a + 1 = m - 1 /\ (a <= b <=> m > 1)
    BY <1>1, <1>4
  <2>4. /\ SubSeq(stream, a, b) \in Seq(C)
        /\ Len(SubSeq(stream, a, b)) = IF a <= b THEN b - a + 1 ELSE 0
    <3> HIDE DEF a, b
    <3> QED
        BY <2>2, <2>3, SubSeqProperties DEF a, b
  <2>5. Len(Line) = m - 1 /\ Line \in Seq(C)
    BY <1>4, <2>1, <2>3, <2>4
  <2> QED
    BY <2>5, <1>4, EmptySeq
<1> QED
    BY <1>4, <1>5, <1>6, <1>10, <1>12, <1>13

(* The grammars have an answer for every line that readcb reads. *)
LEMMA LineIsKnown ==
    ASSUME TypeInv, TakeLine
    PROVE  /\ req.pstate = "RequestLine" => Line \in DOMAIN AsRequest
           /\ req.pstate = "Headers" => Line \in DOMAIN AsHeader
<1> DEFINE m == Min(Ends)
<1>1. /\ m \in 1..Len(input)
      /\ At + m \in 1..Len(stream) /\ stream[At + m] = EndLine
      /\ Line = LineFrom(stream, At + 1)
    BY LineIs DEF TypeInv, TakeLine
<1>2. /\ Len(stream) \in Nat /\ got \in 0..Len(stream) /\ At \in 0..got /\ stream \in Streams
    BY Lengths DEF TypeInv, TypeOK
<1> HIDE DEF m
<1>3. At + 1 \in 1..Len(stream) /\ At + 1 <= At + m /\ At + 1 - 1 = At
    BY <1>1, <1>2
<1>4. /\ At + 1 = 1 => LineFrom(stream, At + 1) \in DOMAIN AsRequest
      /\ At + 1 > 1 /\ stream[At] = EndLine => LineFrom(stream, At + 1) \in DOMAIN AsHeader
  <2> DEFINE i == At + 1
             j == At + m
  <2>1. i \in 1..Len(stream) /\ j \in 1..Len(stream) /\ i <= j /\ stream[j] = EndLine
    BY <1>1, <1>3
  <2>2. /\ i = 1 => LineFrom(stream, i) \in DOMAIN AsRequest
        /\ i > 1 /\ stream[i - 1] = EndLine => LineFrom(stream, i) \in DOMAIN AsHeader
    <3> HIDE DEF i, j
    <3> QED
        BY <1>2, <2>1, StreamAssumption
  <2>3. i = At + 1 /\ i - 1 = At
    BY <1>2
  <2> HIDE DEF i, j
  <2> QED
    BY <2>2, <2>3
<1>5. pc = "lines" /\ frees = 0
  <2>1. pc = "lines" /\ ~(frees > 0)
    BY DEF TypeInv, Bookkeeping, TakeLine
  <2>2. frees \in 0..2
    BY DEF TypeInv, TypeOK
  <2> QED
    BY <2>1, <2>2
<1> QED
    BY <1>1, <1>2, <1>4, <1>5 DEF TypeInv, LineStarts

(* the part of TypeOK that is about the input buffer *)
InputOK ==
    /\ stream \in Streams /\ got \in 0..Len(stream)
    /\ Len(input) \in 0..got /\ input = SubSeq(stream, got - Len(input) + 1, got)

(* When a line is taken, the next one is at the front. *)
LEMMA LineTaken ==
    ASSUME TypeOK, TakeLine, UNCHANGED client
    PROVE  /\ InputOK'
           /\ At' = At + Min(Ends) /\ At' \in 1..Len(stream)
           /\ stream'[At'] = EndLine
<1> DEFINE m == Min(Ends)
<1>1. /\ m \in 1..Len(input)
      /\ At + m \in 1..Len(stream) /\ stream[At + m] = EndLine
      /\ Len(Piece(input, m, Len(input))) = Len(input) - m
      /\ Piece(input, m, Len(input)) = Piece(stream, At + m, got)
    BY LineIs DEF TakeLine
<1>2. input' = Piece(input, m, Len(input)) /\ stream' = stream /\ got' = got
    BY DEF TakeLine, Piece, client
<1>3. /\ Len(stream) \in Nat /\ got \in 0..Len(stream)
      /\ Len(input) \in Nat /\ At \in 0..got /\ got = At + Len(input)
    BY Lengths
<1> HIDE DEF m
<1>4. Len(input') = Len(input) - m /\ Len(input') \in 0..got'
    BY <1>1, <1>2, <1>3
<1>5. input' = SubSeq(stream', got' - Len(input') + 1, got')
  <2>1. got' - Len(input') + 1 = At + m + 1
    BY <1>1, <1>2, <1>3, <1>4
  <2>2. Piece(stream, At + m, got) = SubSeq(stream, At + m + 1, got)
    BY DEF Piece
  <2> QED
    BY <1>1, <1>2, <2>1, <2>2
<1>6. At' = At + m
    BY <1>1, <1>2, <1>3, <1>4 DEF At
<1>7. InputOK'
    BY <1>2, <1>4, <1>5 DEF InputOK, TypeOK
<1> QED
    BY <1>1, <1>2, <1>6, <1>7 DEF m

(* What arrives is put behind what there is. *)
LEMMA PieceArrives ==
    ASSUME TypeOK, NEW k, Arrive(k)
    PROVE  /\ InputOK' /\ At' = At
           /\ got' = got + k /\ Len(input') = Len(input) + k /\ k >= 1
<1>1. k \in 1..(Len(stream) - got) /\ got' = got + k /\ stream' = stream
    BY DEF Arrive
<1>2. /\ Len(stream) \in Nat /\ got \in 0..Len(stream)
      /\ Len(input) \in Nat /\ At \in 0..got /\ got = At + Len(input)
    BY Lengths
<1>3. PICK C : stream \in Seq(C)
    BY StreamIsSequence DEF TypeOK
<1>4. input = Piece(stream, At, got)
  <2>1. got - Len(input) + 1 = At + 1
    BY <1>2
  <2> QED
    BY <2>1 DEF TypeOK, Piece
<1>5. input' = Piece(stream, At, got) \o Piece(stream, got, got + k)
    BY <1>4 DEF Arrive, Piece
<1>6. k \in 0..(Len(stream) - got) /\ got + k \in 0..Len(stream) /\ At \in 0..(got + k)
    BY <1>1, <1>2
<1>7. input' = Piece(stream, At, got + k)
    BY <1>2, <1>3, <1>5, <1>6, GrowPiece
<1>8. Len(input') = got + k - At
  <2> DEFINE h == got + k
  <2>1. h \in 0..Len(stream) /\ At \in 0..h /\ input' = Piece(stream, At, h)
    BY <1>6, <1>7
  <2>2. Len(input') = h - At
    <3> HIDE DEF h
    <3> QED
        BY <1>3, <2>1, PieceIs
  <2> QED
    BY <2>2, <1>1, <1>2
<1>9. got' - Len(input') + 1 = At + 1 /\ Len(input') \in 0..got' /\ Len(input') = Len(input) + k
    BY <1>1, <1>2, <1>8
<1>10. input' = SubSeq(stream', got' - Len(input') + 1, got')
    BY <1>1, <1>7, <1>9 DEF Piece
<1>11. At' = At
    BY <1>1, <1>2, <1>9 DEF At
<1>12. InputOK'
    BY <1>1, <1>6, <1>9, <1>10 DEF InputOK, TypeOK
<1> QED
    BY <1>1, <1>2, <1>9, <1>11, <1>12

(* The input buffer may be emptied. *)
LEMMA AllTaken ==
    ASSUME TypeOK, input' = <<>>, UNCHANGED client
    PROVE  InputOK' /\ At' = got
<1>1. Len(stream) \in Nat /\ got \in 0..Len(stream)
    BY Lengths
<1>2. stream' = stream /\ got' = got /\ Len(input') = 0
    BY DEF client
<1>3. input' = SubSeq(stream', got' - Len(input') + 1, got')
  <2>1. got' - Len(input') + 1 = got + 1 /\ got + 1 > got
    BY <1>1, <1>2
  <2>2. SubSeq(stream, got + 1, got) = <<>>
    BY <1>1, SubSeqEmpty
  <2> QED
    BY <1>2, <2>1, <2>2
<1>4. At' = got /\ 0 \in 0..got'
    BY <1>1, <1>2 DEF At
<1>5. stream \in Streams
    BY DEF TypeOK
<1> QED
    BY <1>1, <1>2, <1>3, <1>4, <1>5 DEF InputOK

Requests == [pstate : {"RequestLine", "Headers", "Content", "Done"},
             content : Nat \cup {NoContent}, ctype : ContentTypes \cup {"none"},
             read_content : BOOLEAN, to_close : BOOLEAN, closed : BOOLEAN,
             handler : Handlers \cup Routed \cup {"none"},
             output : {"empty", "answer", "error page", "lost"}]
Told == {"segment", "path", "content", "parse_err", "close"}

(* the rest of TypeOK *)
FieldsOK ==
    /\ obj \in {"none", "live", "deleted"}
    /\ req \in Requests
    /\ pc \in {"idle", "read", "lines", "error"}
    /\ calls \in Seq(Told)
    /\ frees \in 0..2 /\ deletes \in 0..2

LEMMA TypeOKIs == TypeOK <=> FieldsOK /\ InputOK
BY DEF TypeOK, FieldsOK, InputOK, Requests, Told

(* Requests are closed under what is done to them. *)
LEMMA RequestsRespond ==
    ASSUME NEW r \in Requests, NEW what \in {"answer", "error page"}
    PROVE  respond(r, what) \in Requests
BY DEF Requests, respond

LEMMA RequestsHandle ==
    ASSUME NEW r \in Requests, NEW h \in Handlers \cup Routed
    PROVE  handle(r, h) \in Requests
<1>1. [r EXCEPT !.handler = h, !.read_content = @ \/ h = "form"] \in Requests
    BY DEF Requests
<1> QED
    BY <1>1, RequestsRespond DEF handle, ContentHandler

LEMMA RequestsAfter ==
    ASSUME NEW r \in Requests, NEW n, NEW q \in AfterSegments(r, n)
    PROVE  q \in Requests /\ AfterPath(q) \in Requests
<1>1. q \in Requests
    BY RequestsHandle DEF AfterSegments
<1> QED
    BY <1>1, RequestsRespond DEF AfterPath

(* A call is added to those before. *)
LEMMA ToldMore ==
    ASSUME calls \in Seq(Told), NEW s \in Seq(Told), Tell(s)
    PROVE  /\ calls' \in Seq(Told) /\ Len(calls) \in Nat /\ Len(s) \in Nat
           /\ Len(calls') = Len(calls) + Len(s)
           /\ \A i \in 1..Len(calls) : calls'[i] = calls[i]
           /\ \A i \in 1..Len(s) : calls'[Len(calls) + i] = s[i]
<1>1. calls' = calls \o s
    BY DEF Tell
<1> QED
    BY <1>1, ConcatProperties, LenProperties

(* The steps that leave the streams and the input buffer alone. *)
LEMMA InputKept ==
    ASSUME TypeOK, UNCHANGED <<client, input>>
    PROVE  InputOK' /\ At' = At /\ stream' = stream
BY DEF TypeOK, InputOK, client, At

(* What the request line tells the handler. *)
Heard(line, asked) ==
    [i \in 1..AsRequest[line].segments |-> "segment"]
        \o <<"path">> \o (IF asked THEN <<"content">> ELSE <<>>)

LEMMA HeardIs ==
    ASSUME NEW line \in DOMAIN AsRequest, NEW asked \in BOOLEAN
    PROVE  LET n == AsRequest[line].segments
               s == Heard(line, asked)
           IN /\ n \in Nat /\ s \in Seq(Told)
              /\ Len(s) = IF asked THEN n + 2 ELSE n + 1
              /\ \A i \in 1..Len(s) : s[i] = IF i <= n THEN "segment"
                                             ELSE IF i = n + 1 THEN "path" ELSE "content"
<1> DEFINE n == AsRequest[line].segments
           a == [i \in 1..n |-> "segment"]
           b == <<"path">>
           c == IF asked THEN <<"content">> ELSE <<>>
<1>1. n \in Nat
    BY RequestAssumption
<1> HIDE DEF n
<1>2. a \in Seq(Told) /\ Len(a) = n /\ \A i \in 1..n : a[i] = "segment"
    BY <1>1 DEF Told
<1>3. b \in Seq(Told) /\ Len(b) = 1 /\ b[1] = "path"
    BY DEF Told
<1>4. c \in Seq(Told) /\ Len(c) = (IF asked THEN 1 ELSE 0) /\ (asked => c[1] = "content")
  <2>1. CASE asked
    <3>1. c = <<"content">>
        BY <2>1
    <3> QED
        BY <2>1, <3>1 DEF Told
  <2>2. CASE ~asked
    <3>1. c = <<>>
        BY <2>2
    <3> QED
        BY <2>2, <3>1 DEF Told
  <2> QED
    BY <2>1, <2>2
<1> HIDE DEF a, b, c
<1>5. /\ a \o b \in Seq(Told) /\ Len(a \o b) = n + 1
      /\ \A i \in 1..(n + 1) : (a \o b)[i] = IF i <= n THEN "segment" ELSE "path"
  <2>1. /\ a \o b \in Seq(Told) /\ Len(a \o b) = n + 1
        /\ \A i \in 1..(n + 1) : (a \o b)[i] = IF i <= n THEN a[i] ELSE b[i - n]
    <3>1. /\ a \o b \in Seq(Told) /\ Len(a \o b) = Len(a) + Len(b)
          /\ \A i \in 1..(Len(a) + Len(b)) : (a \o b)[i] = IF i <= Len(a) THEN a[i] ELSE b[i - Len(a)]
        BY <1>2, <1>3, ConcatProperties
    <3> QED
        BY <1>1, <1>2, <1>3, <3>1
  <2>2. \A i \in 1..(n + 1) : i <= n \/ i - n = 1
    BY <1>1
  <2> QED
    BY <1>1, <1>2, <1>3, <2>1, <2>2
<1> DEFINE ab == a \o b
<1> HIDE DEF ab
<1>6. /\ ab \o c \in Seq(Told) /\ Len(ab \o c) = n + 1 + Len(c)
      /\ \A i \in 1..(n + 1 + Len(c)) : (ab \o c)[i] = IF i <= n + 1 THEN ab[i] ELSE c[i - (n + 1)]
  <2>1. ab \in Seq(Told) /\ Len(ab) = n + 1
    BY <1>5 DEF ab
  <2>2. /\ ab \o c \in Seq(Told) /\ Len(ab \o c) = Len(ab) + Len(c)
        /\ \A i \in 1..(Len(ab) + Len(c)) : (ab \o c)[i] = IF i <= Len(ab) THEN ab[i] ELSE c[i - Len(ab)]
    BY <2>1, <1>4, ConcatProperties
  <2> QED
    BY <1>1, <1>4, <2>1, <2>2
<1>7. \A i \in 1..(n + 1 + Len(c)) :
          (ab \o c)[i] = IF i <= n THEN "segment" ELSE IF i = n + 1 THEN "path" ELSE "content"
  <2> TAKE i \in 1..(n + 1 + Len(c))
  <2>1. CASE i <= n + 1
    <3>1. i \in 1..(n + 1) /\ (~(i <= n) => i = n + 1)
        BY <1>1, <1>4, <2>1
    <3>2. (ab \o c)[i] = ab[i]
        BY <1>6, <2>1
    <3>3. ab[i] = IF i <= n THEN "segment" ELSE "path"
        BY <1>5, <3>1 DEF ab
    <3> QED
        BY <3>1, <3>2, <3>3
  <2>2. CASE i > n + 1
    <3>1. asked /\ i - (n + 1) = 1
        BY <1>1, <1>4, <2>2
    <3> QED
        BY <1>1, <1>4, <1>6, <2>2, <3>1
  <2>3. i <= n + 1 \/ i > n + 1
    BY <1>1, <1>4
  <2> QED
    BY <2>1, <2>2, <2>3
<1>8. Heard(line, asked) = ab \o c
    BY DEF Heard, ab, a, b, c, n
<1>9. Len(ab \o c) = IF asked THEN n + 2 ELSE n + 1
    BY <1>1, <1>4, <1>6
<1> QED
    BY <1>1, <1>4, <1>6, <1>7, <1>8, <1>9 DEF n

(* Types, bookkeeping and positions are kept by every step. *)
LEMMA TypeStep == TypeInv /\ [Next]_vars => TypeInv'
<1> SUFFICES ASSUME TypeInv, [Next]_vars PROVE TypeInv'
    OBVIOUS
<1> USE DEF Bookkeeping, LineStarts
<1>0. /\ TypeOK /\ FieldsOK /\ Bookkeeping /\ LineStarts
      /\ At \in Nat /\ got \in Nat /\ Len(stream) \in Nat /\ Len(input) \in Nat
      /\ got = At + Len(input)
    BY TypeOKIs, Lengths DEF TypeInv
<1> SUFFICES FieldsOK' /\ InputOK' /\ Bookkeeping' /\ LineStarts'
  <2>1. TypeOK' <=> FieldsOK' /\ InputOK'
    BY TypeOKIs, PTL
  <2> QED
    BY <2>1 DEF TypeInv
<1>1. ASSUME NEW h \in Handlers, Accept(h) PROVE FieldsOK' /\ InputOK' /\ Bookkeeping' /\ LineStarts'
  <2>1. InputOK' /\ At' = At /\ stream' = stream
    BY <1>0, <1>1, InputKept DEF Accept
  <2>2. Blank \in Requests
    BY DEF Blank, Requests, NoContent
  <2>3. req' \in Requests
    BY <1>1, <2>2, RequestsHandle DEF Accept
  <2>4. req'.pstate = "RequestLine" /\ req.pstate = "RequestLine"
    BY <1>0, <1>1 DEF Accept, handle, ContentHandler, respond, Blank
  <2> QED
    BY <1>0, <1>1, <2>1, <2>3, <2>4 DEF Accept, FieldsOK
<1>2. ASSUME NEW k \in 1..Len(stream), Arrive(k) PROVE FieldsOK' /\ InputOK' /\ Bookkeeping' /\ LineStarts'
  <2>1. InputOK' /\ At' = At
    BY <1>0, <1>2, PieceArrives
  <2>2. stream' = stream /\ UNCHANGED <<obj, req, calls, frees, deletes>>
    BY <1>2 DEF Arrive
  <2> QED
    BY <1>0, <1>2, <2>1, <2>2 DEF Arrive, Open, FieldsOK
<1>3. CASE Drain
  <2>1. InputOK'
    BY <1>0, <1>3, AllTaken DEF Drain
  <2> QED
    BY <1>0, <1>3, <2>1 DEF Drain, Return, FieldsOK
<1>4. CASE AwaitContent
  <2>1. InputOK' /\ At' = At /\ stream' = stream
    BY <1>0, <1>4, InputKept DEF AwaitContent
  <2> QED
    BY <1>0, <1>4, <2>1 DEF AwaitContent, ReadContent, Return, FieldsOK
<1>5. CASE ContentTooLong
  <2>1. InputOK' /\ At' = At /\ stream' = stream
    BY <1>0, <1>5, InputKept DEF ContentTooLong
  <2> QED
    BY <1>0, <1>5, <2>1 DEF ContentTooLong, ReadContent, FieldsOK
<1>6. CASE FormContent \/ MultipartContent
  <2>1. InputOK'
    BY <1>0, <1>6, AllTaken DEF FormContent, MultipartContent, TakeContent
  <2>2. req' \in Requests /\ req'.pstate = "Done"
    BY <1>0, <1>6 DEF FormContent, MultipartContent, FieldsOK, Requests
  <2>3. \E s \in Seq(Told) : Tell(s)
    <3>1. <<"content">> \in Seq(Told) /\ <<>> \in Seq(Told)
        BY DEF Told
    <3> QED
        BY <1>6, <3>1 DEF FormContent, MultipartContent
  <2>4. calls' \in Seq(Told)
    BY <1>0, <2>3, ToldMore DEF FieldsOK
  <2>5. pc' = "idle" /\ obj # "none" /\ UNCHANGED <<obj, frees, deletes>>
    BY <1>0, <1>6 DEF FormContent, MultipartContent, TakeContent, ReadContent, Return, FieldsOK
  <2> QED
    BY <1>0, <2>1, <2>2, <2>4, <2>5 DEF FieldsOK
<1>7. CASE BadContent
  <2>1. InputOK'
    BY <1>0, <1>7, AllTaken DEF BadContent, TakeContent
  <2> QED
    BY <1>0, <1>7, <2>1 DEF BadContent, TakeContent, ReadContent, FieldsOK
<1>8. CASE StartLines \/ NoLine
  <2>1. InputOK' /\ At' = At /\ stream' = stream
    BY <1>0, <1>8, InputKept DEF StartLines, NoLine
  <2> QED
    BY <1>0, <1>8, <2>1 DEF StartLines, NoLine, Return, FieldsOK
<1> DEFINE Kept == FieldsOK' /\ InputOK' /\ Bookkeeping' /\ LineStarts'
<1>9. ASSUME TakeLine, UNCHANGED client, req' \in Requests, calls' \in Seq(Told),
             pc' \in {"lines", "error"}, UNCHANGED <<obj, frees, deletes>>,
             req'.pstate = "RequestLine" => FALSE,
             req'.pstate = "Headers" => req.pstate \in {"RequestLine", "Headers"}
      PROVE  Kept
  <2>1. /\ InputOK' /\ At' \in 1..Len(stream)
        /\ stream'[At'] = EndLine
    BY <1>0, <1>9, LineTaken
  <2>2. pc = "lines"
    BY <1>9 DEF TakeLine
  <2> QED
    BY <1>0, <1>9, <2>1, <2>2 DEF FieldsOK
<1>10. CASE LineError
  <2>1. InputOK' /\ At' \in 1..Len(stream) /\ stream'[At'] = EndLine
    BY <1>0, <1>10, LineTaken DEF LineError
  <2>2. pc = "lines" /\ pc' = "error" /\ UNCHANGED <<obj, req, calls, frees, deletes>>
    BY <1>10 DEF LineError, TakeLine
  <2> QED
    BY <1>0, <2>1, <2>2 DEF FieldsOK
<1>11. CASE RequestLine
  <2>1. Line \in DOMAIN AsRequest
    BY <1>11, LineIsKnown DEF RequestLine
  <2>2. PICK r \in AfterSegments(req, AsRequest[Line].segments) :
            LET asked == AsRequest[Line].query /\ r.read_content
            IN /\ req' = [AfterPath(r) EXCEPT !.pstate = "Headers",
                                              !.content = IF asked THEN 0 ELSE @]
               /\ Tell(Heard(Line, asked))
    BY <1>11 DEF RequestLine, Heard
  <2>3. r \in Requests /\ AfterPath(r) \in Requests
    BY <1>0, <2>2, RequestsAfter DEF FieldsOK
  <2>4. req' \in Requests /\ req'.pstate = "Headers"
    BY <2>2, <2>3 DEF Requests
  <2>5. (AsRequest[Line].query /\ r.read_content) \in BOOLEAN
    OBVIOUS
  <2>6. calls' \in Seq(Told)
    BY <1>0, <2>1, <2>2, <2>5, HeardIs, ToldMore DEF FieldsOK
  <2> QED
    BY <1>9, <1>11, <2>4, <2>6 DEF RequestLine, TakeLine
<1>12. CASE LengthLine
  <2>1. Line \in DOMAIN AsHeader
    BY <1>12, LineIsKnown DEF LengthLine
  <2>2. AsHeader[Line].length \in Nat \cup {NoContent}
    BY <2>1, RequestAssumption
  <2>3. req' \in Requests /\ req'.pstate = "Headers"
    BY <1>0, <1>12, <2>2 DEF LengthLine, FieldsOK, Requests
  <2> QED
    BY <1>0, <1>9, <1>12, <2>3 DEF LengthLine, TakeLine, FieldsOK
<1>13. CASE HeaderLine
  <2>1. Line \in DOMAIN AsHeader
    BY <1>13, LineIsKnown DEF HeaderLine
  <2>2. AsHeader[Line].ctype \in ContentTypes \cup {"none"}
    BY <2>1, RequestAssumption
  <2>3. req' \in Requests /\ req'.pstate = "Headers"
    BY <1>0, <1>13, <2>2 DEF HeaderLine, FieldsOK, Requests
  <2> QED
    BY <1>0, <1>9, <1>13, <2>3 DEF HeaderLine, TakeLine, FieldsOK
<1>14. CASE EndOfHeaders
  <2>1. req' \in Requests /\ req'.pstate \in {"Done", "Content"}
    BY <1>0, <1>14 DEF EndOfHeaders, FieldsOK, Requests
  <2> QED
    BY <1>0, <1>9, <1>14, <2>1 DEF EndOfHeaders, TakeLine, FieldsOK
<1>15. CASE LineDropped
  BY <1>0, <1>9, <1>15 DEF LineDropped, TakeLine, FieldsOK
<1>16. CASE ParseErrDefault \/ ParseErrPage
  <2>1. InputOK' /\ At' = At /\ stream' = stream
    BY <1>0, <1>16, InputKept DEF ParseErrDefault, ParseErrPage
  <2>2. \A r \in Requests : Closed(r) \in Requests /\ Closed(r).pstate = r.pstate
    BY DEF Closed, Requests
  <2>3. respond(req, "error page") \in Requests /\ respond(req, "error page").pstate = req.pstate
    BY <1>0, RequestsRespond DEF FieldsOK, Requests, respond
  <2>4. req' \in Requests /\ req'.pstate = req.pstate
    BY <1>0, <1>16, <2>2, <2>3 DEF ParseErrDefault, ParseErrPage, FieldsOK
  <2>5. \E s \in Seq(Told) : Tell(s)
    <3>1. <<"close">> \in Seq(Told) /\ <<"parse_err", "close">> \in Seq(Told)
        BY DEF Told
    <3> QED
        BY <1>16, <3>1 DEF ParseErrDefault, ParseErrPage
  <2>6. calls' \in Seq(Told)
    BY <1>0, <2>5, ToldMore DEF FieldsOK
  <2>7. frees = 0 /\ deletes = 0
    <3>1. pc = "error" /\ frees \in 0..2
        BY <1>0, <1>16 DEF ParseErrDefault, ParseErrPage, FieldsOK
    <3> QED
        BY <1>0, <3>1
  <2>8. /\ pc' = "idle" /\ obj' = "deleted"
        /\ frees' = 1 /\ deletes' \in 0..2
    <3>1. CASE ParseErrDefault
      <4>1. frees' = frees + 1 /\ deletes' = deletes + 2
        BY <3>1 DEF ParseErrDefault
      <4>2. pc' = "idle" /\ obj' = "deleted"
        BY <3>1 DEF ParseErrDefault, Return
      <4> QED
        BY <2>7, <4>1, <4>2
    <3>2. CASE ParseErrPage
      <4>1. frees' = frees + 1 /\ deletes' = deletes + 1
        BY <3>2 DEF ParseErrPage
      <4>2. pc' = "idle" /\ obj' = "deleted"
        BY <3>2 DEF ParseErrPage, Return
      <4> QED
        BY <2>7, <4>1, <4>2
    <3> QED
        BY <1>16, <3>1, <3>2
  <2> QED
    BY <1>0, <2>1, <2>4, <2>6, <2>8 DEF FieldsOK
<1>17. CASE Write
  <2>1. InputOK' /\ At' = At /\ stream' = stream
    BY <1>0, <1>17, InputKept DEF Write
  <2>2. req' \in Requests /\ req'.pstate = req.pstate
    BY <1>0, <1>17 DEF Write, FieldsOK, Requests
  <2>3. calls' \in Seq(Told)
    <3>1. <<"close">> \in Seq(Told)
        BY DEF Told
    <3> QED
        BY <1>0, <1>17, <3>1, ToldMore DEF Write, FieldsOK
  <2>4. obj = "live" /\ obj' = "live" /\ frees' \in 0..1 /\ UNCHANGED <<pc, deletes>> /\ pc = "idle"
    BY <1>17 DEF Write, Open
  <2>5. frees = 0 /\ deletes = 0
    BY <1>0, <1>17 DEF Write, Open
  <2> QED
    BY <1>0, <2>1, <2>2, <2>3, <2>4, <2>5 DEF FieldsOK
<1>18. CASE Event
  <2>1. InputOK' /\ At' = At /\ stream' = stream
    BY <1>0, <1>18, InputKept DEF Event
  <2>2. req' \in Requests /\ req'.pstate = req.pstate
    BY <1>0, <1>18 DEF Event, Closed, FieldsOK, Requests
  <2>3. calls' \in Seq(Told)
    <3>1. <<"close", "close">> \in Seq(Told)
        BY DEF Told
    <3> QED
        BY <1>0, <1>18, <3>1, ToldMore DEF Event, FieldsOK
  <2>4. frees = 0 /\ deletes = 0 /\ frees' = 2 /\ deletes' = 1
    BY <1>0, <1>18 DEF Event, Open
  <2> QED
    BY <1>0, <1>18, <2>1, <2>2, <2>3, <2>4 DEF Event, FieldsOK
<1>19. CASE Answer
  <2>1. InputOK' /\ At' = At /\ stream' = stream
    BY <1>0, <1>19, InputKept DEF Answer
  <2>2. req' \in Requests /\ req'.pstate = req.pstate
    <3>1. req \in Requests /\ req' = respond(req, "answer")
        BY <1>0, <1>19 DEF Answer, FieldsOK
    <3>2. req' \in Requests
        BY <3>1, RequestsRespond
    <3> QED
        BY <3>1, <3>2 DEF respond, Requests
  <2> QED
    BY <1>0, <1>19, <2>1, <2>2 DEF Answer, Open, FieldsOK
<1>20. CASE UNCHANGED vars
  <2>1. InputOK' /\ At' = At /\ stream' = stream
    BY <1>0, <1>20, InputKept DEF vars, client
  <2> QED
    BY <1>0, <1>20, <2>1 DEF vars, FieldsOK
<1> QED
    BY <1>1, <1>2, <1>3, <1>4, <1>5, <1>6, <1>7, <1>8, <1>10, <1>11, <1>12, <1>13, <1>14, <1>15,
       <1>16, <1>17, <1>18, <1>19, <1>20 DEF Next, Callback

LEMMA TypeInit == Init => TypeInv
<1> SUFFICES ASSUME Init PROVE TypeInv
    OBVIOUS
<1>1. stream \in Streams /\ Len(stream) \in Nat
    BY StreamIsSequence DEF Init
<1>2. InputOK
  <2>1. SubSeq(stream, got - Len(input) + 1, got) = <<>>
    BY SubSeqEmpty DEF Init
  <2> QED
    BY <1>1, <2>1 DEF Init, InputOK
<1>3. FieldsOK
    BY DEF Init, FieldsOK, Requests, Blank, NoContent, Told
<1>4. Bookkeeping /\ LineStarts
  <2>1. At = 0
    <3>1. got = 0
        BY DEF Init
    <3>2. Len(input) = 0
        BY DEF Init
    <3> QED
        BY <3>1, <3>2 DEF At
  <2>2. req.pstate = "RequestLine"
    BY DEF Init, Blank
  <2> QED
    BY <2>1, <2>2 DEF Init, Bookkeeping, LineStarts
<1> QED
    BY <1>2, <1>3, <1>4, TypeOKIs DEF TypeInv

(* Every state has its types, and readcb stands at the start of a line     *)
(* while it reads the head of a request.                                   *)
THEOREM TypesHold == Spec => []TypeInv
BY TypeInit, TypeStep, PTL DEF Spec

-------------------------------------------------------------------------------
(* The calls on the handler *)

Places(c) == {i \in 1..Len(calls) : calls[i] = c}
One(S) == \E a : S = {a}
AtMostOne(S) == \E a : S \subseteq {a}
AtMostTwo(S) == \E a, b : S \subseteq {a, b}
Sorted(s) == \A i, j \in 1..Len(s) : i <= j => Rank(s[i]) <= Rank(s[j])

(* Until the end is told the handler heard of no end; before the request   *)
(* line it heard nothing; one call for content came before the body's; a   *)
(* length is kept only for a handler that asked for the content.           *)
CallsInv ==
    /\ Sorted(calls)
    /\ frees = 0 => \A i \in 1..Len(calls) : calls[i] \in {"segment", "path", "content"}
    /\ req.pstate = "RequestLine" /\ frees = 0 => calls = <<>>
    /\ IF req.pstate = "RequestLine" THEN Places("path") = {} ELSE One(Places("path"))
    /\ req.pstate # "Done" => AtMostOne(Places("content"))
    /\ AtMostTwo(Places("content"))
    /\ Places("content") # {} => req.read_content
    /\ req.content # NoContent => req.read_content
    /\ req.pstate = "Content" => req.content # NoContent

LEMMA RankIs ==
    /\ Rank("segment") = 1 /\ Rank("path") = 2 /\ Rank("content") = 3
    /\ Rank("parse_err") = 4 /\ Rank("close") = 5
<1>1. /\ Order[1] = "segment" /\ Order[2] = "path" /\ Order[3] = "content"
      /\ Order[4] = "parse_err" /\ Order[5] = "close" /\ Len(Order) = 5
    BY DEF Order
<1>2. \A c : \A k \in 1..5 : Order[k] = c => Rank(c) = k
  <2> TAKE c
  <2> TAKE k \in 1..5
  <2> HAVE Order[k] = c
  <2>1. \A i \in 1..5 : Order[i] = c => i = k
    BY <1>1
  <2> QED
    BY <1>1, <2>1 DEF Rank
<1> QED
    BY <1>1, <1>2

(* Calls that come behind all the others leave them in order. *)
LEMMA SortedMore ==
    ASSUME calls \in Seq(Told), NEW s \in Seq(Told), Tell(s), Sorted(calls), Sorted(s),
           \A i \in 1..Len(calls), j \in 1..Len(s) : Rank(calls[i]) <= Rank(s[j])
    PROVE  Sorted(calls)'
<1>1. /\ Len(calls) \in Nat /\ Len(s) \in Nat
      /\ Len(calls') = Len(calls) + Len(s)
      /\ \A i \in 1..Len(calls) : calls'[i] = calls[i]
      /\ \A i \in 1..Len(s) : calls'[Len(calls) + i] = s[i]
    BY ToldMore
<1> SUFFICES ASSUME NEW i \in 1..Len(calls'), NEW j \in 1..Len(calls'), i <= j
             PROVE  Rank(calls'[i]) <= Rank(calls'[j])
    BY DEF Sorted
<1>2. CASE j <= Len(calls)
  <2>1. i \in 1..Len(calls) /\ j \in 1..Len(calls)
    BY <1>1, <1>2
  <2> QED
    BY <1>1, <2>1 DEF Sorted
<1>3. CASE i <= Len(calls) /\ j > Len(calls)
  <2>1. i \in 1..Len(calls) /\ j - Len(calls) \in 1..Len(s) /\ j = Len(calls) + (j - Len(calls))
    BY <1>1, <1>3
  <2>2. calls'[i] = calls[i] /\ calls'[j] = s[j - Len(calls)]
    BY <1>1, <2>1
  <2> QED
    BY <2>1, <2>2
<1>4. CASE i > Len(calls)
  <2>1. /\ i - Len(calls) \in 1..Len(s) /\ i = Len(calls) + (i - Len(calls))
        /\ j - Len(calls) \in 1..Len(s) /\ j = Len(calls) + (j - Len(calls))
        /\ i - Len(calls) <= j - Len(calls)
    BY <1>1, <1>4
  <2>2. calls'[i] = s[i - Len(calls)] /\ calls'[j] = s[j - Len(calls)]
    BY <1>1, <2>1
  <2> QED
    BY <2>1, <2>2 DEF Sorted
<1> QED
    BY <1>1, <1>2, <1>3, <1>4

(* where a call stands when others were added *)
LEMMA PlacesMore ==
    ASSUME calls \in Seq(Told), NEW s \in Seq(Told), Tell(s), NEW c
    PROVE  /\ \A i \in Places(c)' : i \in Places(c) \/ (i - Len(calls) \in 1..Len(s) /\ s[i - Len(calls)] = c)
           /\ Places(c) \subseteq Places(c)'
<1>1. /\ Len(calls) \in Nat /\ Len(s) \in Nat
      /\ Len(calls') = Len(calls) + Len(s)
      /\ \A i \in 1..Len(calls) : calls'[i] = calls[i]
      /\ \A i \in 1..Len(s) : calls'[Len(calls) + i] = s[i]
    BY ToldMore
<1>2. Places(c)' = {i \in 1..Len(calls') : calls'[i] = c}
    BY DEF Places
<1>3. Places(c) \subseteq Places(c)'
    BY <1>1, <1>2 DEF Places
<1>4. ASSUME NEW i \in Places(c)', i \notin Places(c)
      PROVE  i - Len(calls) \in 1..Len(s) /\ s[i - Len(calls)] = c
  <2>1. i \in 1..Len(calls') /\ calls'[i] = c
    BY <1>2
  <2>2. ~(i \in 1..Len(calls))
    BY <1>1, <1>4, <2>1 DEF Places
  <2>3. i - Len(calls) \in 1..Len(s) /\ i = Len(calls) + (i - Len(calls))
    BY <1>1, <2>1, <2>2
  <2> QED
    BY <1>1, <2>1, <2>3
<1> QED
    BY <1>3, <1>4

(* The steps that tell the handler nothing. *)
LEMMA NothingTold ==
    ASSUME CallsInv, calls' = calls, frees' = frees \/ frees' > 0,
           req'.pstate = req.pstate, req'.content = req.content,
           req.read_content => req'.read_content
    PROVE  CallsInv'
<1>1. Places("path")' = Places("path") /\ Places("content")' = Places("content")
    BY DEF Places
<1>2. Sorted(calls)'
    BY DEF CallsInv, Sorted
<1>3. frees' = 0 => frees = 0
    OBVIOUS
<1>4. /\ IF req'.pstate = "RequestLine" THEN Places("path")' = {} ELSE One(Places("path")')
      /\ req'.pstate # "Done" => AtMostOne(Places("content")')
      /\ AtMostTwo(Places("content")')
      /\ Places("content")' # {} => req'.read_content
      /\ req'.content # NoContent => req'.read_content
      /\ req'.pstate = "Content" => req'.content # NoContent
    BY <1>1 DEF CallsInv
<1>5. /\ frees' = 0 => \A i \in 1..Len(calls') : calls'[i] \in {"segment", "path", "content"}
      /\ req'.pstate = "RequestLine" /\ frees' = 0 => calls' = <<>>
    BY <1>3 DEF CallsInv
<1> QED
    BY <1>2, <1>4, <1>5 DEF CallsInv

(* The steps that end a request tell its handler of errors and closes only. *)
LEMMA EndTold ==
    ASSUME TypeInv, CallsInv, frees = 0, frees' > 0, NEW s \in Seq({"parse_err", "close"}),
           Sorted(s), Tell(s),
           req'.pstate = req.pstate, req'.content = req.content,
           req'.read_content = req.read_content
    PROVE  CallsInv'
<1>1. calls \in Seq(Told) /\ s \in Seq(Told)
    BY TypeOKIs, SeqMonotonic DEF TypeInv, FieldsOK, Told
<1>2. /\ \A i \in 1..Len(calls) : Rank(calls[i]) \in 1..3
      /\ \A i \in 1..Len(s) : Rank(s[i]) \in 4..5
      /\ \A i \in 1..Len(s) : s[i] \in {"parse_err", "close"}
  <2>1. \A i \in 1..Len(s) : s[i] \in {"parse_err", "close"}
    BY ElementOfSeq
  <2> QED
    BY <2>1, RankIs DEF CallsInv
<1>3. Sorted(calls)'
    BY <1>1, <1>2, SortedMore DEF CallsInv
<1>4. \A c \in {"path", "content"} : Places(c)' = Places(c)
  <2> TAKE c \in {"path", "content"}
  <2>1. /\ \A i \in Places(c)' : i \in Places(c) \/ (i - Len(calls) \in 1..Len(s) /\ s[i - Len(calls)] = c)
        /\ Places(c) \subseteq Places(c)'
    BY <1>1, PlacesMore
  <2> QED
    BY <1>2, <2>1
<1>5. Places("path")' = Places("path") /\ Places("content")' = Places("content")
    BY <1>4
<1>6. ~(frees' = 0)
    OBVIOUS
<1>7. /\ IF req'.pstate = "RequestLine" THEN Places("path")' = {} ELSE One(Places("path")')
      /\ req'.pstate # "Done" => AtMostOne(Places("content")')
      /\ AtMostTwo(Places("content")')
      /\ Places("content")' # {} => req'.read_content
      /\ req'.content # NoContent => req'.read_content
      /\ req'.pstate = "Content" => req'.content # NoContent
    BY <1>5 DEF CallsInv
<1> QED
    BY <1>3, <1>6, <1>7 DEF CallsInv

(* The steps that take the content from the input buffer. *)
LEMMA ContentTold ==
    ASSUME TypeInv, CallsInv, frees = 0, frees' = 0, req.pstate = "Content",
           calls' = calls \/ Tell(<<"content">>),
           req' = [req EXCEPT !.pstate = "Done"]
    PROVE  CallsInv'
<1>1. calls \in Seq(Told) /\ <<"content">> \in Seq(Told) /\ req \in Requests
    BY TypeOKIs DEF TypeInv, FieldsOK, Told
<1>2. /\ req'.pstate = "Done" /\ req'.content = req.content /\ req'.read_content = req.read_content
      /\ req.read_content
    BY <1>1 DEF Requests, CallsInv
<1>3. CASE calls' = calls
  <2>1. Places("path")' = Places("path") /\ Places("content")' = Places("content")
    BY <1>3 DEF Places
  <2>2. Sorted(calls)'
    BY <1>3 DEF CallsInv, Sorted
  <2> QED
    BY <1>2, <1>3, <2>1, <2>2 DEF CallsInv
<1>4. CASE Tell(<<"content">>)
  <2> DEFINE s == <<"content">>
  <2>1. s \in Seq(Told) /\ Len(s) = 1 /\ s[1] = "content" /\ Tell(s)
    BY <1>1, <1>4
  <2> HIDE DEF s
  <2>2. Sorted(s)
    BY <2>1, RankIs DEF Sorted
  <2>3. \A i \in 1..Len(calls), j \in 1..Len(s) : Rank(calls[i]) <= Rank(s[j])
    BY <2>1, RankIs DEF CallsInv
  <2>4. Sorted(calls)'
    BY <1>1, <2>1, <2>2, <2>3, SortedMore DEF CallsInv
  <2>5. /\ \A i \in Places("path")' : i \in Places("path") \/ (i - Len(calls) \in 1..Len(s) /\ s[i - Len(calls)] = "path")
        /\ Places("path") \subseteq Places("path")'
    BY <1>1, <2>1, PlacesMore
  <2>6. Places("path")' = Places("path")
    <3>1. \A j \in 1..Len(s) : s[j] # "path"
        BY <2>1
    <3> QED
        BY <2>5, <3>1
  <2>7. PICK a : Places("content") \subseteq {a}
    BY DEF CallsInv, AtMostOne
  <2>8. Places("content")' \subseteq {a, Len(calls) + 1}
    <3> SUFFICES ASSUME NEW i \in Places("content")', i \notin Places("content")
                 PROVE  i = Len(calls) + 1
        BY <2>7
    <3>1. i - Len(calls) \in 1..Len(s) /\ i \in 1..Len(calls')
        BY <1>1, <2>1, PlacesMore DEF Places
    <3>2. Len(calls) \in Nat /\ Len(calls') \in Nat
        BY <1>1, <2>1, ToldMore
    <3> QED
        BY <2>1, <3>1, <3>2
  <2>9. AtMostTwo(Places("content")')
    BY <2>8 DEF AtMostTwo
  <2>10. \A i \in 1..Len(calls') : calls'[i] \in {"segment", "path", "content"}
    <3>1. /\ Len(calls) \in Nat /\ Len(calls') = Len(calls) + 1
          /\ \A i \in 1..Len(calls) : calls'[i] = calls[i]
          /\ \A i \in 1..Len(s) : calls'[Len(calls) + i] = s[i]
        BY <1>1, <2>1, ToldMore
    <3>2. calls'[Len(calls) + 1] = "content"
        BY <2>1, <3>1
    <3>3. \A i \in 1..Len(calls') : i \in 1..Len(calls) \/ i = Len(calls) + 1
        BY <3>1
    <3> QED
        BY <3>1, <3>2, <3>3 DEF CallsInv
  <2> QED
    BY <1>2, <2>4, <2>6, <2>9, <2>10 DEF CallsInv
<1> QED
    BY <1>3, <1>4

(* The request line. *)
LEMMA RequestLineTold ==
    ASSUME TypeInv, CallsInv, RequestLine
    PROVE  CallsInv'
<1>1. Line \in DOMAIN AsRequest
    BY LineIsKnown DEF RequestLine
<1>2. PICK r \in AfterSegments(req, AsRequest[Line].segments) :
          LET asked == AsRequest[Line].query /\ r.read_content
          IN /\ req' = [AfterPath(r) EXCEPT !.pstate = "Headers",
                                            !.content = IF asked THEN 0 ELSE @]
             /\ Tell(Heard(Line, asked))
    BY DEF RequestLine, Heard
<1> DEFINE asked == AsRequest[Line].query /\ r.read_content
           n == AsRequest[Line].segments
           s == Heard(Line, asked)
<1>3. /\ n \in Nat /\ s \in Seq(Told)
      /\ Len(s) = IF asked THEN n + 2 ELSE n + 1
      /\ \A i \in 1..Len(s) : s[i] = IF i <= n THEN "segment"
                                     ELSE IF i = n + 1 THEN "path" ELSE "content"
  <2>1. asked \in BOOLEAN
    OBVIOUS
  <2> HIDE DEF asked
  <2> QED
    BY <1>1, <2>1, HeardIs
<1>4. calls = <<>> /\ frees = 0 /\ frees' = 0
  <2>1. pc = "lines" /\ req.pstate = "RequestLine" /\ frees' = frees
    BY DEF RequestLine, TakeLine
  <2>2. frees \in 0..2
    BY TypeOKIs DEF TypeInv, FieldsOK
  <2> QED
    BY <2>1, <2>2 DEF CallsInv, TypeInv, Bookkeeping
<1>5. calls' = s
  <2>1. calls' = <<>> \o s
    BY <1>2, <1>4 DEF Tell
  <2> HIDE DEF s
  <2> QED
    BY <1>3, <2>1, ConcatEmptySeq
<1>6. /\ req'.pstate = "Headers" /\ req'.read_content = r.read_content
      /\ req'.content = (IF asked THEN 0 ELSE NoContent) \/ r.read_content
  <2>1. req \in Requests
    BY TypeOKIs DEF TypeInv, FieldsOK
  <2>2. r \in Requests /\ AfterPath(r) \in Requests
    BY <2>1, RequestsAfter
  <2>3. AfterPath(r).read_content = r.read_content /\ AfterPath(r).content = r.content
    BY <2>2 DEF AfterPath, respond, Requests
  <2>4. r.content = req.content /\ (req.read_content => r.read_content)
    BY <2>1 DEF AfterSegments, handle, ContentHandler, respond, Requests
  <2>5. /\ req'.pstate = "Headers" /\ req'.read_content = r.read_content
        /\ req'.content = IF asked THEN 0 ELSE r.content
    BY <1>2, <2>2, <2>3 DEF Requests
  <2> QED
    BY <2>4, <2>5 DEF CallsInv
<1> HIDE DEF asked, n, s
<1>7. \A i \in 1..Len(s) : Rank(s[i]) = IF i <= n THEN 1 ELSE IF i = n + 1 THEN 2 ELSE 3
    BY <1>3, RankIs
<1>8. Sorted(calls)'
  <2>1. Sorted(s)
    <3> SUFFICES ASSUME NEW i \in 1..Len(s), NEW j \in 1..Len(s), i <= j
                 PROVE  Rank(s[i]) <= Rank(s[j])
        BY DEF Sorted
    <3> QED
        BY <1>3, <1>7
  <2> QED
    BY <1>5, <2>1 DEF Sorted
<1>9. Places("path")' = {n + 1}
    BY <1>3, <1>5 DEF Places
<1>10. Places("content")' \subseteq {n + 2} /\ (Places("content")' # {} => asked)
    BY <1>3, <1>5 DEF Places
<1>11. asked => r.read_content
    BY DEF asked
<1>12. /\ One(Places("path")') /\ AtMostOne(Places("content")') /\ AtMostTwo(Places("content")')
    BY <1>9, <1>10 DEF One, AtMostOne, AtMostTwo
<1>13. \A i \in 1..Len(calls') : calls'[i] \in {"segment", "path", "content"}
    BY <1>3, <1>5
<1>14. req'.content # NoContent => req'.read_content
    BY <1>6, <1>11
<1> QED
    BY <1>6, <1>8, <1>10, <1>11, <1>12, <1>13, <1>14 DEF CallsInv

(* The steps between the request line and the content. *)
LEMMA HeadersTold ==
    ASSUME TypeInv, CallsInv, LengthLine \/ HeaderLine \/ EndOfHeaders
    PROVE  CallsInv'
<1>1. req \in Requests /\ req.pstate = "Headers"
    BY TypeOKIs DEF TypeInv, FieldsOK, LengthLine, HeaderLine, EndOfHeaders
<1>2. calls' = calls /\ frees' = frees
    BY DEF LengthLine, HeaderLine, EndOfHeaders
<1>3. /\ req'.read_content = req.read_content
      /\ req'.pstate # "RequestLine"
      /\ req'.pstate # "Done" => req.pstate # "Done"
      /\ req'.content # NoContent => req'.read_content
      /\ req'.pstate = "Content" => req'.content # NoContent
  <2>1. CASE LengthLine
    BY <1>1, <2>1 DEF LengthLine, IsLength, Requests
  <2>2. CASE HeaderLine
    BY <1>1, <2>2 DEF HeaderLine, Requests, CallsInv
  <2>3. CASE EndOfHeaders
    BY <1>1, <2>3 DEF EndOfHeaders, Requests, CallsInv
  <2> QED
    BY <2>1, <2>2, <2>3
<1>4. Places("path")' = Places("path") /\ Places("content")' = Places("content")
    BY <1>2 DEF Places
<1>5. Sorted(calls)'
    BY <1>2 DEF CallsInv, Sorted
<1> QED
    BY <1>1, <1>2, <1>3, <1>4, <1>5 DEF CallsInv

LEMMA CallsStep == TypeInv /\ CallsInv /\ [Next]_vars => CallsInv'
<1> SUFFICES ASSUME TypeInv, CallsInv, [Next]_vars PROVE CallsInv'
    OBVIOUS
<1>0. req \in Requests /\ frees \in 0..2
    BY TypeOKIs DEF TypeInv, FieldsOK
<1>1. ASSUME NEW h \in Handlers, Accept(h) PROVE CallsInv'
  <2>1. req = Blank /\ calls' = calls /\ frees' = frees
    BY <1>1 DEF Accept, TypeInv, Bookkeeping
  <2>2. Blank \in Requests
    BY DEF Blank, Requests, NoContent
  <2>3. req'.pstate = Blank.pstate /\ req'.content = Blank.content
    BY <1>1 DEF Accept, handle, ContentHandler, respond, Blank
  <2>4. ~req.read_content
    BY <2>1 DEF Blank
  <2> QED
    BY <2>1, <2>3, <2>4, NothingTold
<1>2. CASE (\E k \in 1..Len(stream) : Arrive(k)) \/ Drain \/ AwaitContent \/ ContentTooLong \/ BadContent
           \/ StartLines \/ NoLine \/ LineError \/ LineDropped \/ UNCHANGED vars
  <2>1. req' = req /\ calls' = calls /\ frees' = frees
    BY <1>2 DEF Arrive, Drain, AwaitContent, ContentTooLong, BadContent, StartLines, NoLine,
                LineError, LineDropped, vars
  <2> QED
    BY <2>1, NothingTold
<1>3. CASE FormContent \/ MultipartContent
  <2>1. req.pstate = "Content" /\ req' = [req EXCEPT !.pstate = "Done"] /\ frees' = frees
    BY <1>3 DEF FormContent, MultipartContent, TakeContent, ReadContent
  <2>2. pc = "read"
    BY <1>3 DEF FormContent, MultipartContent, TakeContent, ReadContent
  <2>3. frees = 0
    BY <1>0, <2>2 DEF TypeInv, Bookkeeping
  <2>4. calls' = calls \/ Tell(<<"content">>)
    <3>1. CASE Tell(<<"content">>)
        BY <3>1
    <3>2. CASE Tell(<<>>)
      <4>1. calls \in Seq(Told) /\ calls' = calls \o <<>>
        BY <3>2, TypeOKIs DEF TypeInv, FieldsOK, Tell
      <4> QED
        BY <4>1, ConcatEmptySeq
    <3> QED
        BY <1>3, <3>1, <3>2 DEF FormContent, MultipartContent
  <2> QED
    BY <2>1, <2>3, <2>4, ContentTold
<1>4. CASE RequestLine
    BY <1>4, RequestLineTold
<1>5. CASE LengthLine \/ HeaderLine \/ EndOfHeaders
    BY <1>5, HeadersTold
<1>6. CASE ParseErrDefault \/ ParseErrPage
  <2>1. pc = "error" /\ frees' = frees + 1
    BY <1>6 DEF ParseErrDefault, ParseErrPage
  <2>2. frees = 0 /\ frees' > 0
    BY <1>0, <2>1 DEF TypeInv, Bookkeeping
  <2>3. /\ req'.pstate = req.pstate /\ req'.content = req.content
        /\ req'.read_content = req.read_content
    BY <1>0, <1>6 DEF ParseErrDefault, ParseErrPage, Closed, respond, Requests
  <2>4. PICK s \in Seq({"parse_err", "close"}) : Tell(s) /\ Sorted(s)
    <3>1. CASE ParseErrDefault
      <4>1. <<"close">> \in Seq({"parse_err", "close"}) /\ Sorted(<<"close">>)
        BY RankIs DEF Sorted
      <4> QED
        BY <3>1, <4>1 DEF ParseErrDefault
    <3>2. CASE ParseErrPage
      <4> DEFINE s == <<"parse_err", "close">>
      <4>1. s \in Seq({"parse_err", "close"}) /\ Len(s) = 2 /\ s[1] = "parse_err" /\ s[2] = "close"
        OBVIOUS
      <4>2. Sorted(s)
        <5> HIDE DEF s
        <5> SUFFICES ASSUME NEW i \in 1..2, NEW j \in 1..2, i <= j PROVE Rank(s[i]) <= Rank(s[j])
            BY <4>1 DEF Sorted
        <5>1. (i = 1 \/ i = 2) /\ (j = 1 \/ j = 2)
            OBVIOUS
        <5> QED
            BY <4>1, <5>1, RankIs
      <4> QED
        BY <3>2, <4>1, <4>2 DEF ParseErrPage
    <3> QED
        BY <1>6, <3>1, <3>2
  <2> QED
    BY <2>2, <2>3, <2>4, EndTold
<1>7. CASE Write
  <2>1. frees = 0
    BY <1>7 DEF Write, Open
  <2>2. /\ req'.pstate = req.pstate /\ req'.content = req.content
        /\ req'.read_content = req.read_content
    BY <1>0, <1>7 DEF Write, Requests
  <2>3. CASE UNCHANGED <<calls, frees>>
    BY <2>2, <2>3, NothingTold
  <2>4. CASE frees' = frees + 1 /\ Tell(<<"close">>)
    <3>1. <<"close">> \in Seq({"parse_err", "close"}) /\ Sorted(<<"close">>)
        BY RankIs DEF Sorted
    <3>2. frees' > 0
        BY <2>1, <2>4
    <3> QED
        BY <2>1, <2>2, <2>4, <3>1, <3>2, EndTold
  <2> QED
    BY <1>7, <2>3, <2>4 DEF Write
<1>8. CASE Event
  <2>1. frees = 0 /\ frees' = frees + 2 /\ frees' > 0
    BY <1>8 DEF Event, Open
  <2>2. /\ req'.pstate = req.pstate /\ req'.content = req.content
        /\ req'.read_content = req.read_content
    BY <1>0, <1>8 DEF Event, Closed, Requests
  <2> DEFINE s == <<"close", "close">>
  <2>3. s \in Seq({"parse_err", "close"}) /\ Len(s) = 2 /\ s[1] = "close" /\ s[2] = "close"
    OBVIOUS
  <2>4. Tell(s)
    BY <1>8 DEF Event
  <2> HIDE DEF s
  <2>5. Sorted(s)
    <3>1. \A i \in 1..2 : s[i] = "close"
        BY <2>3
    <3> QED
        BY <2>3, <3>1, RankIs DEF Sorted
  <2> QED
    BY <2>1, <2>2, <2>3, <2>4, <2>5, EndTold
<1>9. CASE Answer
  <2>1. calls' = calls /\ frees' = frees
    BY <1>9 DEF Answer
  <2>2. /\ req'.pstate = req.pstate /\ req'.content = req.content
        /\ req'.read_content = req.read_content
    BY <1>0, <1>9 DEF Answer, respond, Requests
  <2> QED
    BY <2>1, <2>2, NothingTold
<1> QED
    BY <1>1, <1>2, <1>3, <1>4, <1>5, <1>6, <1>7, <1>8, <1>9 DEF Next, Callback

LEMMA CallsInit == Init => CallsInv
<1> SUFFICES ASSUME Init PROVE CallsInv
    OBVIOUS
<1>1. calls = <<>> /\ req.pstate = "RequestLine" /\ req.content = NoContent
    BY DEF Init, Blank
<1>2. /\ Places("path") = {} /\ Places("content") = {}
      /\ \A i \in 1..Len(calls) : calls[i] \in {"segment", "path", "content"}
    BY <1>1 DEF Places
<1>3. Sorted(calls)
    BY <1>1 DEF Sorted
<1>4. AtMostOne({}) /\ AtMostTwo({})
    BY DEF AtMostOne, AtMostTwo
<1> QED
    BY <1>1, <1>2, <1>3, <1>4 DEF CallsInv

(* The invariant counts what the property counts. *)
LEMMA CallsCounted == TypeInv /\ CallsInv => CallsInOrder
<1> SUFFICES ASSUME TypeInv, CallsInv PROVE CallsInOrder
    OBVIOUS
<1>1. \A c : Count(c) = Cardinality(Places(c))
    BY DEF Count, Places
<1>2. Count("path") = IF req.pstate = "RequestLine" THEN 0 ELSE 1
  <2>1. CASE req.pstate = "RequestLine"
    BY <1>1, <2>1, FS_EmptySet DEF CallsInv
  <2>2. CASE req.pstate # "RequestLine"
    <3>1. PICK a : Places("path") = {a}
        BY <2>2 DEF CallsInv, One
    <3> QED
        BY <1>1, <2>2, <3>1, FS_Singleton
  <2> QED
    BY <2>1, <2>2
<1>3. Count("content") <= 2 /\ (Count("content") > 0 => Places("content") # {})
  <2>1. PICK a, b : Places("content") \subseteq {a, b}
    BY DEF CallsInv, AtMostTwo
  <2>2. /\ IsFiniteSet({a}) /\ Cardinality({a}) = 1
        /\ IsFiniteSet({a} \cup {b}) /\ Cardinality({a} \cup {b}) <= 2
    <3>1. IsFiniteSet({a}) /\ Cardinality({a}) = 1
        BY FS_Singleton
    <3>2. /\ IsFiniteSet({a} \cup {b})
          /\ Cardinality({a} \cup {b}) = IF b \in {a} THEN Cardinality({a}) ELSE Cardinality({a}) + 1
        BY <3>1, FS_AddElement
    <3> QED
        BY <3>1, <3>2
  <2>3. {a, b} = {a} \cup {b}
    OBVIOUS
  <2>4. Cardinality(Places("content")) <= Cardinality({a, b}) /\ Cardinality({a, b}) \in Nat
        /\ Cardinality(Places("content")) \in Nat
    BY <2>1, <2>2, <2>3, FS_Subset, FS_CardinalityType
  <2>5. Cardinality({}) = 0
    BY FS_EmptySet
  <2> QED
    BY <1>1, <2>2, <2>3, <2>4, <2>5
<1> QED
    BY <1>2, <1>3 DEF CallsInOrder, CallsInv, Sorted, TypeInv

(* Whatever comes and however it is cut, whatever handlers there are and   *)
(* whichever replaces which: they hear of the segments, the end of the     *)
(* path, the content and the end in this order, of the end of the path     *)
(* once, of content at most twice and only when they asked for it.         *)
THEOREM CallsAlwaysInOrder == Spec => []CallsInOrder
<1>1. Init => TypeInv /\ CallsInv
    BY TypeInit, CallsInit
<1>2. (TypeInv /\ CallsInv) /\ [Next]_vars => (TypeInv /\ CallsInv)'
    BY TypeStep, CallsStep
<1> QED
    BY <1>1, <1>2, CallsCounted, PTL DEF Spec

-------------------------------------------------------------------------------
(* Well-formed requests *)

(* the headers that start in the stream up to a position *)
HeadersTo(p) == {AsHeader[LineFrom(stream, i)] : i \in {j \in 2..p : stream[j - 1] = EndLine}}

(* The request has its length and its type from one of these headers.      *)
Noted(H) ==
    /\ (\E h \in H : h.length # NoContent) /\ req.read_content =>
           \E h \in H : h.length # NoContent /\ req.content = h.length
    /\ (\E h \in H : h.ctype # "none") => \E h \in H : h.ctype # "none" /\ req.ctype = h.ctype

(* While readcb reads headers the end of the head is before it and the     *)
(* headers behind it are noted; in the body, all of them are.  It runs     *)
(* only when bytes came.                                                   *)
HeadInv ==
    /\ pc = "read" => Len(input) > 0
    /\ req.pstate = "Headers" /\ pc # "error" /\ frees = 0 =>
           (\A i \in HeadEnds(stream) : At < i) /\ Noted(HeadersTo(At))
    /\ req.pstate = "Content" =>
           /\ HeadEnds(stream) # {} /\ Min(HeadEnds(stream)) <= At
           /\ Noted(HeadersOf(stream))

(* The headers of the stream are those that start before its head ends. *)
LEMMA HeadersAre == HeadersOf(stream) = HeadersTo(Min(HeadEnds(stream)) - 1)
BY DEF HeadersOf, HeadersTo

LEMMA HeadEndIs ==
    ASSUME TypeOK, HeadEnds(stream) # {}
    PROVE  /\ Min(HeadEnds(stream)) \in 2..Len(stream)
           /\ \A i \in HeadEnds(stream) : Min(HeadEnds(stream)) <= i
           /\ Body(stream) = Piece(stream, Min(HeadEnds(stream)), Len(stream))
           /\ Len(Body(stream)) = Len(stream) - Min(HeadEnds(stream))
<1> DEFINE e == Min(HeadEnds(stream))
<1>1. Len(stream) \in Nat
    BY Lengths
<1>2. HeadEnds(stream) \in SUBSET (2..Len(stream)) /\ HeadEnds(stream) \in SUBSET Nat
    BY <1>1 DEF HeadEnds
<1>3. e \in HeadEnds(stream) /\ \A i \in HeadEnds(stream) : e <= i
    BY <1>2, MinIsLeast
<1>4. Body(stream) = Piece(stream, e, Len(stream))
    BY DEF Body, Piece
<1>5. PICK C : stream \in Seq(C)
    BY StreamIsSequence DEF TypeOK
<1>6. e \in 0..Len(stream) /\ Len(stream) \in 0..Len(stream)
    BY <1>1, <1>2, <1>3
<1> DEFINE l == Len(stream)
<1>7. Len(Piece(stream, e, l)) = l - e
  <2>1. l \in 0..Len(stream) /\ e \in 0..l
    BY <1>6
  <2> HIDE DEF e, l
  <2> QED
    BY <1>5, <2>1, PieceIs
<1> QED
    BY <1>2, <1>3, <1>4, <1>7

(* No line is empty before the head ends, and the empty one ends it. *)
LEMMA HeadGoesOn ==
    ASSUME TypeInv, HeadInv, TakeLine, UNCHANGED client, req.pstate = "Headers"
    PROVE  /\ Line = <<>> => HeadEnds(stream) # {} /\ Min(HeadEnds(stream)) = At + 1 /\ At' = At + 1
           /\ Line # <<>> => /\ \A i \in HeadEnds(stream) : At' < i
                            /\ HeadersTo(At') = HeadersTo(At) \cup {AsHeader[Line]}
<1> DEFINE m == Min(Ends)
<1>0. TypeOK /\ Ends # {}
    BY DEF TypeInv, TakeLine
<1>1. /\ m \in 1..Len(input)
      /\ At + m \in 1..Len(stream) /\ stream[At + m] = EndLine
      /\ \A k \in 1..(m - 1) : stream[At + k] # EndLine
      /\ Line = LineFrom(stream, At + 1)
      /\ Line = <<>> <=> m = 1
    BY <1>0, LineIs
<1>2. At' = At + m /\ stream' = stream
    BY <1>0, LineTaken DEF client
<1> HIDE DEF m
<1>3. At \in Nat /\ Len(stream) \in Nat /\ At >= 1 /\ stream[At] = EndLine
    BY <1>0, Lengths DEF TypeInv, LineStarts
<1>4. \A i \in HeadEnds(stream) : At < i /\ i \in 2..Len(stream) /\ stream[i] = EndLine /\ stream[i - 1] = EndLine
  <2>1. pc = "lines" /\ frees = 0
    <3>1. pc = "lines" /\ ~(frees > 0)
        BY DEF TypeInv, Bookkeeping, TakeLine
    <3>2. frees \in 0..2
        BY DEF TypeInv, TypeOK
    <3> QED
        BY <3>1, <3>2
  <2> QED
    BY <2>1 DEF HeadInv, HeadEnds
<1>5. ASSUME Line = <<>>
      PROVE  HeadEnds(stream) # {} /\ Min(HeadEnds(stream)) = At + 1 /\ At' = At + 1
  <2>1. m = 1
    BY <1>1, <1>5
  <2> DEFINE e == At + 1
  <2>2. e \in 2..Len(stream) /\ stream[e] = EndLine /\ e - 1 = At
    BY <1>1, <1>3, <2>1
  <2>3. e \in HeadEnds(stream)
    BY <1>3, <2>2 DEF HeadEnds
  <2>4. Min(HeadEnds(stream)) \in 2..Len(stream) /\ Min(HeadEnds(stream)) <= e /\ At < Min(HeadEnds(stream))
    <3>1. HeadEnds(stream) \in SUBSET Nat
        BY <1>3 DEF HeadEnds
    <3>2. Min(HeadEnds(stream)) \in HeadEnds(stream) /\ \A i \in HeadEnds(stream) : Min(HeadEnds(stream)) <= i
        BY <2>3, <3>1, MinIsLeast
    <3> QED
        BY <1>4, <2>3, <3>2
  <2> QED
    BY <1>2, <1>3, <2>1, <2>3, <2>4
<1>6. ASSUME Line # <<>>
      PROVE  \A i \in HeadEnds(stream) : At' < i
  <2>1. m > 1
    BY <1>1, <1>6
  <2> SUFFICES ASSUME NEW i \in HeadEnds(stream), i <= At + m PROVE FALSE
    BY <1>1, <1>2, <1>4
  <2>2. CASE i = At + m
    <3>1. m - 1 \in 1..(m - 1) /\ i - 1 = At + (m - 1)
        BY <1>1, <1>3, <2>1, <2>2
    <3> QED
        BY <1>1, <1>4, <3>1
  <2>3. CASE i < At + m
    <3>1. i - At \in 1..(m - 1) /\ i = At + (i - At)
        BY <1>1, <1>3, <1>4, <2>3
    <3> QED
        BY <1>1, <1>4, <3>1
  <2> QED
    BY <1>1, <1>3, <1>4, <2>2, <2>3
<1>7. HeadersTo(At') = HeadersTo(At) \cup {AsHeader[Line]}
  <2> DEFINE starts(p) == {j \in 2..p : stream[j - 1] = EndLine}
  <2>1. starts(At + m) = starts(At) \cup {At + 1}
    <3>1. ASSUME NEW j \in starts(At + m) PROVE j \in starts(At) \cup {At + 1}
      <4>1. j \in 2..(At + m) /\ stream[j - 1] = EndLine
        OBVIOUS
      <4>2. CASE j > At + 1
        <5>1. j - 1 - At \in 1..(m - 1) /\ At + (j - 1 - At) = j - 1
            BY <1>1, <1>3, <4>1, <4>2
        <5> QED
            BY <1>1, <4>1, <5>1
      <4>3. CASE j <= At
        BY <1>1, <1>3, <4>1, <4>3
      <4> QED
        BY <1>1, <1>3, <4>1, <4>2, <4>3
    <3>2. At + 1 \in starts(At + m)
      <4>1. At + 1 \in 2..(At + m) /\ (At + 1) - 1 = At
        BY <1>1, <1>3
      <4> QED
        BY <1>3, <4>1
    <3>3. starts(At) \subseteq starts(At + m)
        BY <1>1, <1>3
    <3> QED
        BY <3>1, <3>2, <3>3
  <2>2. HeadersTo(At') = {AsHeader[LineFrom(stream, i)] : i \in starts(At + m)}
    BY <1>2 DEF HeadersTo
  <2>3. HeadersTo(At) = {AsHeader[LineFrom(stream, i)] : i \in starts(At)}
    BY DEF HeadersTo
  <2> HIDE DEF starts
  <2> QED
    BY <1>1, <2>1, <2>2, <2>3
<1> QED
    BY <1>5, <1>6, <1>7

(* The steps that leave the request's notes alone. *)
LEMMA HeadKept ==
    ASSUME TypeInv, HeadInv, At' \in Int, stream' = stream, req'.pstate = req.pstate,
           req'.content = req.content, req'.ctype = req.ctype, req'.read_content = req.read_content,
           pc' = "read" => Len(input') > 0,
           req.pstate = "Headers" /\ pc' # "error" /\ frees' = 0 =>
               At' = At /\ pc # "error" /\ frees = 0,
           req.pstate = "Content" => At' >= At
    PROVE  HeadInv'
<1>1. HeadEnds(stream)' = HeadEnds(stream) /\ HeadersOf(stream)' = HeadersOf(stream)
    BY DEF HeadEnds, HeadersOf, LineFrom
<1>2. req'.pstate = "Headers" /\ pc' # "error" /\ frees' = 0 =>
          (\A i \in HeadEnds(stream)' : At' < i) /\ Noted(HeadersTo(At))'
  <2> SUFFICES ASSUME req'.pstate = "Headers", pc' # "error", frees' = 0
               PROVE  (\A i \in HeadEnds(stream)' : At' < i) /\ Noted(HeadersTo(At))'
    OBVIOUS
  <2>1. At' = At /\ (\A i \in HeadEnds(stream) : At < i) /\ Noted(HeadersTo(At))
    BY DEF HeadInv
  <2>2. HeadersTo(At)' = HeadersTo(At)
    BY <2>1 DEF HeadersTo
  <2>3. Noted(HeadersTo(At))'
    BY <2>1, <2>2 DEF Noted
  <2> QED
    BY <1>1, <2>1, <2>3
<1>3. req'.pstate = "Content" => /\ HeadEnds(stream)' # {} /\ Min(HeadEnds(stream))' <= At'
                                /\ Noted(HeadersOf(stream))'
  <2> SUFFICES ASSUME req'.pstate = "Content"
               PROVE  /\ HeadEnds(stream)' # {} /\ Min(HeadEnds(stream))' <= At'
                      /\ Noted(HeadersOf(stream))'
    OBVIOUS
  <2>1. HeadEnds(stream) # {} /\ Min(HeadEnds(stream)) <= At /\ Noted(HeadersOf(stream))
    BY DEF HeadInv
  <2>2. Min(HeadEnds(stream)) \in 2..Len(stream)
    BY <2>1, HeadEndIs DEF TypeInv
  <2>3. Min(HeadEnds(stream))' <= At'
    <3>1. At \in Int /\ At' >= At
        BY Lengths DEF TypeInv
    <3> QED
        BY <1>1, <2>1, <2>2, <3>1
  <2>4. Noted(HeadersOf(stream))'
    BY <1>1, <2>1 DEF Noted
  <2> QED
    BY <1>1, <2>1, <2>3, <2>4
<1> QED
    BY <1>2, <1>3 DEF HeadInv

(* Behind the request line the headers begin. *)
LEMMA HeadBegins ==
    ASSUME TypeInv, HeadInv, RequestLine, req'.pstate = "Headers"
    PROVE  HeadInv'
<1> DEFINE m == Min(Ends)
<1>1. /\ TypeOK /\ Ends # {} /\ pc = "lines" /\ pc' = pc /\ UNCHANGED client
      /\ TakeLine /\ req.pstate = "RequestLine"
    BY DEF RequestLine, TypeInv, TakeLine
<1>2. At = 0
  <2>1. ~(frees > 0) /\ frees \in 0..2
    BY <1>1 DEF TypeInv, TypeOK, Bookkeeping
  <2> QED
    BY <1>1, <2>1 DEF TypeInv, LineStarts
<1>3. /\ m \in 1..Len(input) /\ At + m \in 1..Len(stream)
      /\ \A k \in 1..(m - 1) : stream[At + k] # EndLine
    BY <1>1, LineIs
<1>4. At' = At + m /\ stream' = stream
    BY <1>1, LineTaken DEF client
<1>5. Len(stream) \in Nat
    BY <1>1, Lengths
<1> HIDE DEF m
<1>6. At' = m /\ m \in 1..Len(stream) /\ \A k \in 1..(m - 1) : stream[k] # EndLine
    BY <1>2, <1>3, <1>4, <1>5
<1>7. \A i \in HeadEnds(stream)' : At' < i
  <2> SUFFICES ASSUME NEW i \in HeadEnds(stream), i <= m PROVE FALSE
    BY <1>4, <1>5, <1>6 DEF HeadEnds
  <2>1. i \in 2..Len(stream) /\ stream[i - 1] = EndLine /\ i - 1 \in 1..(m - 1)
    BY <1>5, <1>6 DEF HeadEnds
  <2> QED
    BY <1>6, <2>1
<1>8. HeadersTo(At)' = {}
  <2>1. {j \in 2..m : stream[j - 1] = EndLine} = {}
    <3> SUFFICES ASSUME NEW j \in 2..m, stream[j - 1] = EndLine PROVE FALSE
        OBVIOUS
    <3>1. j - 1 \in 1..(m - 1)
        BY <1>6
    <3> QED
        BY <1>6, <3>1
  <2> QED
    BY <1>4, <1>6, <2>1 DEF HeadersTo
<1>9. Noted(HeadersTo(At))'
    BY <1>8 DEF Noted
<1> QED
    BY <1>1, <1>7, <1>9 DEF HeadInv

(* A header is noted. *)
LEMMA HeadNotes ==
    ASSUME TypeInv, HeadInv, LengthLine \/ HeaderLine
    PROVE  HeadInv'
<1>1. /\ TakeLine /\ UNCHANGED client /\ req.pstate = "Headers" /\ Line # <<>>
      /\ pc = "lines" /\ pc' = "lines" /\ frees' = frees
    BY DEF LengthLine, HeaderLine, TakeLine
<1>2. frees = 0 /\ req \in Requests
  <2>1. ~(frees > 0) /\ frees \in 0..2
    BY <1>1 DEF TypeInv, TypeOK, Bookkeeping
  <2> QED
    BY <2>1, TypeOKIs DEF TypeInv, FieldsOK
<1>3. /\ \A i \in HeadEnds(stream) : At' < i
      /\ HeadersTo(At') = HeadersTo(At) \cup {AsHeader[Line]}
    BY <1>1, HeadGoesOn
<1>4. stream' = stream /\ HeadersTo(At)' = HeadersTo(At) \cup {AsHeader[Line]}
    BY <1>1, <1>3 DEF client, HeadersTo
<1>5. Noted(HeadersTo(At))
    BY <1>1, <1>2 DEF HeadInv
<1>6. Line \in DOMAIN AsHeader
    BY <1>1, LineIsKnown
<1>7. Noted(HeadersTo(At))'
  <2> DEFINE h == AsHeader[Line]
  <2>1. CASE LengthLine
    <3>1. /\ req'.content = h.length /\ h.length # NoContent
          /\ req'.ctype = req.ctype /\ h.ctype = "none"
        BY <1>2, <1>6, <2>1, HeaderAssumption DEF LengthLine, IsLength, Requests
    <3> HIDE DEF h
    <3> QED
        BY <1>4, <1>5, <3>1 DEF Noted, h
  <2>2. CASE HeaderLine
    <3>1. /\ req'.content = req.content /\ req'.read_content = req.read_content
          /\ req.read_content => h.length = NoContent
          /\ req'.ctype = IF h.ctype = "none" THEN req.ctype ELSE h.ctype
        BY <1>2, <2>2 DEF HeaderLine, IsLength, Requests
    <3> HIDE DEF h
    <3>2. HeadersTo(At)' = HeadersTo(At) \cup {h}
        BY <1>4 DEF h
    <3> QED
        BY <1>5, <3>1, <3>2 DEF Noted
  <2> QED
    BY <2>1, <2>2
<1>8. \A i \in HeadEnds(stream)' : At' < i
    BY <1>3, <1>4 DEF HeadEnds
<1>9. req'.pstate = "Headers"
    BY <1>2 DEF LengthLine, HeaderLine, Requests
<1> QED
    BY <1>1, <1>7, <1>8, <1>9 DEF HeadInv

(* At the end of the head all of its headers are noted. *)
LEMMA HeadIsOver ==
    ASSUME TypeInv, HeadInv, EndOfHeaders
    PROVE  HeadInv'
<1>1. /\ TakeLine /\ UNCHANGED client /\ req.pstate = "Headers" /\ Line = <<>>
      /\ pc = "lines" /\ pc' = "lines" /\ frees' = frees
    BY DEF EndOfHeaders, TakeLine
<1>2. frees = 0 /\ req \in Requests
  <2>1. ~(frees > 0) /\ frees \in 0..2
    BY <1>1 DEF TypeInv, TypeOK, Bookkeeping
  <2> QED
    BY <2>1, TypeOKIs DEF TypeInv, FieldsOK
<1>3. HeadEnds(stream) # {} /\ Min(HeadEnds(stream)) = At + 1 /\ At' = At + 1
    BY <1>1, HeadGoesOn
<1>4. At \in Nat
    BY Lengths DEF TypeInv
<1>5. HeadersOf(stream) = HeadersTo(At)
  <2>1. Min(HeadEnds(stream)) - 1 = At
    BY <1>3, <1>4
  <2> QED
    BY <2>1, HeadersAre
<1>6. stream' = stream /\ HeadersOf(stream)' = HeadersOf(stream) /\ HeadEnds(stream)' = HeadEnds(stream)
    BY <1>1 DEF client, HeadersOf, HeadEnds, LineFrom
<1>7. /\ req'.content = req.content /\ req'.ctype = req.ctype /\ req'.read_content = req.read_content
      /\ req'.pstate \in {"Content", "Done"}
    BY <1>2 DEF EndOfHeaders, Requests
<1>8. Noted(HeadersOf(stream))
    BY <1>1, <1>2, <1>5 DEF HeadInv
<1>9. Noted(HeadersOf(stream))'
    BY <1>6, <1>7, <1>8 DEF Noted
<1>10. HeadEnds(stream)' # {} /\ Min(HeadEnds(stream))' <= At'
    BY <1>3, <1>4, <1>6
<1> QED
    BY <1>1, <1>7, <1>9, <1>10 DEF HeadInv

LEMMA HeadStep == TypeInv /\ CallsInv /\ HeadInv /\ [Next]_vars => HeadInv'
<1> SUFFICES ASSUME TypeInv, CallsInv, HeadInv, [Next]_vars PROVE HeadInv'
    OBVIOUS
<1>0. /\ TypeOK /\ req \in Requests /\ frees \in 0..2
      /\ At \in Nat /\ got \in Nat /\ Len(stream) \in Nat /\ got >= At /\ Len(input) \in Nat
    BY TypeOKIs, Lengths DEF TypeInv, FieldsOK
<1>1. ASSUME NEW h \in Handlers, Accept(h) PROVE HeadInv'
  <2>1. req = Blank /\ pc = "idle" /\ pc' = pc
    BY <1>1 DEF Accept, TypeInv, Bookkeeping
  <2>2. req'.pstate = "RequestLine"
    BY <1>1 DEF Accept, handle, ContentHandler, respond, Blank
  <2> QED
    BY <2>1, <2>2 DEF HeadInv
<1>2. ASSUME NEW k \in 1..Len(stream), Arrive(k) PROVE HeadInv'
  <2>1. At' = At /\ Len(input') = Len(input) + k /\ k >= 1
    BY <1>0, <1>2, PieceArrives
  <2>2. stream' = stream /\ req' = req /\ pc = "idle" /\ frees = 0
    BY <1>2 DEF Arrive, Open
  <2>3. Len(input') > 0
    BY <1>0, <2>1
  <2>4. pc # "error" /\ At' \in Int /\ At' >= At
    BY <1>0, <2>1, <2>2
  <2> QED
    BY <2>1, <2>2, <2>3, <2>4, HeadKept
<1>3. CASE Drain \/ BadContent
  <2>1. UNCHANGED client /\ input' = <<>> /\ req' = req /\ pc' # "read"
    BY <1>3 DEF Drain, BadContent, TakeContent, Return
  <2>2. At' = got /\ stream' = stream
    BY <1>0, <2>1, AllTaken DEF client
  <2>3. req.pstate # "Headers"
    BY <1>3 DEF Drain, BadContent, TakeContent, ReadContent
  <2>4. At' \in Int /\ At' >= At
    BY <1>0, <2>2
  <2> QED
    BY <2>1, <2>2, <2>3, <2>4, HeadKept
<1>4. CASE FormContent \/ MultipartContent
  <2>1. req'.pstate = "Done" /\ pc' = "idle"
    BY <1>0, <1>4 DEF FormContent, MultipartContent, Return, Requests
  <2> QED
    BY <2>1 DEF HeadInv
<1>5. CASE AwaitContent \/ ContentTooLong \/ StartLines \/ NoLine \/ UNCHANGED vars
  <2>1. UNCHANGED <<client, input>> /\ req' = req /\ frees' = frees
    BY <1>5 DEF AwaitContent, ContentTooLong, StartLines, NoLine, vars, client
  <2>2. At' = At /\ stream' = stream /\ Len(input') = Len(input)
    BY <1>0, <2>1, InputKept
  <2>3. pc' = "read" => pc = "read"
    BY <1>5 DEF AwaitContent, ContentTooLong, StartLines, NoLine, Return, vars
  <2>4. pc' = "read" => Len(input') > 0
    BY <2>2, <2>3 DEF HeadInv
  <2>5. pc = "error" => pc' = "error"
    BY <1>5 DEF AwaitContent, ContentTooLong, ReadContent, StartLines, NoLine, vars
  <2>6. At' \in Int /\ At' >= At
    BY <1>0, <2>2
  <2> QED
    BY <2>1, <2>2, <2>4, <2>5, <2>6, HeadKept
<1>6. CASE LineError \/ LineDropped
  <2>1. TakeLine /\ UNCHANGED client /\ req' = req /\ pc' # "read" /\ frees' = frees
    BY <1>6 DEF LineError, LineDropped, TakeLine
  <2>2. At' = At + Min(Ends) /\ stream' = stream /\ Min(Ends) \in 1..Len(input)
    BY <1>0, <2>1, LineTaken, LineIs DEF TakeLine, client
  <2>3. req.pstate = "Headers" => pc' = "error"
    BY <1>6 DEF LineError, LineDropped
  <2>4. At' \in Int /\ At' >= At
    BY <1>0, <2>2
  <2> QED
    BY <2>1, <2>2, <2>3, <2>4, HeadKept
<1>7. CASE RequestLine
  <2>1. PICK r \in AfterSegments(req, AsRequest[Line].segments) :
            \E c \in {0, AfterPath(r).content} :
                req' = [AfterPath(r) EXCEPT !.pstate = "Headers", !.content = c]
    BY <1>7 DEF RequestLine
  <2>2. AfterPath(r) \in Requests
    BY <1>0, <2>1, RequestsAfter
  <2>3. req'.pstate = "Headers"
    BY <2>1, <2>2 DEF Requests
  <2> QED
    BY <1>7, <2>3, HeadBegins
<1>8. CASE LengthLine \/ HeaderLine
    BY <1>8, HeadNotes
<1>9. CASE EndOfHeaders
    BY <1>9, HeadIsOver
<1>10. CASE ParseErrDefault \/ ParseErrPage \/ Write \/ Event \/ Answer
  <2>1. (UNCHANGED <<client, input>> /\ pc' # "read") \/ UNCHANGED <<client, input, pc>>
    BY <1>10 DEF ParseErrDefault, ParseErrPage, Write, Event, Answer, Return
  <2>2. At' = At /\ stream' = stream /\ Len(input') = Len(input)
    BY <1>0, <2>1, InputKept
  <2>3. /\ req'.pstate = req.pstate /\ req'.content = req.content
        /\ req'.ctype = req.ctype /\ req'.read_content = req.read_content
    <3>1. CASE ParseErrDefault \/ ParseErrPage
        BY <1>0, <3>1 DEF ParseErrDefault, ParseErrPage, Closed, respond, Requests
    <3>2. CASE Write \/ Event
        BY <1>0, <3>2 DEF Write, Event, Closed, Requests
    <3>3. CASE Answer
        BY <1>0, <3>3 DEF Answer, respond, Requests
    <3> QED
        BY <1>10, <3>1, <3>2, <3>3
  <2>4. pc' = "read" => Len(input') > 0
    BY <2>1, <2>2 DEF HeadInv
  <2>5. pc' # "error" /\ frees' = 0 => pc # "error" /\ frees = 0
    <3>1. CASE ParseErrDefault \/ ParseErrPage
      <4>1. frees' = frees + 1
        BY <3>1 DEF ParseErrDefault, ParseErrPage
      <4> QED
        BY <1>0, <4>1
    <3>2. CASE Write \/ Event \/ Answer
        BY <3>2 DEF Write, Event, Answer, Open
    <3> QED
        BY <1>10, <3>1, <3>2
  <2>6. At' \in Int /\ At' >= At
    BY <1>0, <2>2
  <2> QED
    BY <2>2, <2>3, <2>4, <2>5, <2>6, HeadKept
<1> QED
    BY <1>1, <1>2, <1>3, <1>4, <1>5, <1>6, <1>7, <1>8, <1>9, <1>10 DEF Next, Callback

LEMMA HeadInit == Init => HeadInv
<1> SUFFICES ASSUME Init PROVE HeadInv
    OBVIOUS
<1>1. pc = "idle" /\ req.pstate = "RequestLine"
    BY DEF Init, Blank
<1> QED
    BY <1>1 DEF HeadInv

(* The body of a well-formed request: what readcb waits for is its length, *)
(* what is in the input buffer is of it, and its type is one it takes.     *)
LEMMA BodyFits ==
    ASSUME TypeInv, CallsInv, HeadInv, ReadContent, WellFormed(stream)
    PROVE  /\ req.content = Len(Body(stream)) /\ Len(input) <= Len(Body(stream))
           /\ Len(input) = Len(Body(stream)) => input = Body(stream)
           /\ req.ctype \in {"form", "multipart"}
<1> DEFINE H == HeadersOf(stream)
           e == Min(HeadEnds(stream))
<1>1. /\ pc = "read" /\ req.pstate = "Content" /\ Len(input) > 0
      /\ HeadEnds(stream) # {} /\ e <= At /\ Noted(H)
    BY DEF ReadContent, HeadInv
<1>2. /\ Len(stream) \in Nat /\ got \in 0..Len(stream)
      /\ Len(input) \in Nat /\ At \in 0..got /\ got = At + Len(input)
    BY Lengths DEF TypeInv
<1>3. /\ e \in 2..Len(stream)
      /\ Body(stream) = Piece(stream, e, Len(stream)) /\ Len(Body(stream)) = Len(stream) - e
    BY <1>1, HeadEndIs DEF TypeInv
<1>4. req.read_content
    BY <1>1 DEF CallsInv
<1> HIDE DEF e
<1>5. Len(input) <= Len(Body(stream)) /\ Len(Body(stream)) > 0
    BY <1>1, <1>2, <1>3
<1>6. Len(input) = Len(Body(stream)) => input = Body(stream)
  <2> SUFFICES ASSUME Len(input) = Len(Body(stream)) PROVE input = Body(stream)
    OBVIOUS
  <2>1. got = Len(stream) /\ At = e /\ got - Len(input) + 1 = e + 1
    BY <1>1, <1>2, <1>3
  <2>2. input = SubSeq(stream, got - Len(input) + 1, got)
    BY DEF TypeInv, TypeOK
  <2> QED
    BY <1>3, <2>1, <2>2 DEF Piece
<1> DEFINE lengths == {h.length : h \in H} \ {NoContent}
           types == {h.ctype : h \in H} \ {"none"}
<1>7. IF lengths = {} THEN Body(stream) = <<>>
      ELSE lengths = {Len(Body(stream))} /\ types \in {{"form"}, {"multipart"}}
    BY DEF WellFormed
<1>8. lengths = {Len(Body(stream))} /\ types \in {{"form"}, {"multipart"}}
  <2>1. Body(stream) # <<>>
    <3>1. Len(<<>>) = 0
        OBVIOUS
    <3> QED
        BY <1>5, <3>1
  <2> QED
    BY <1>7, <2>1
<1>9. req.content = Len(Body(stream))
  <2>1. PICK g \in H : g.length = Len(Body(stream)) /\ g.length # NoContent
    <3>1. Len(Body(stream)) \in lengths
        BY <1>8
    <3> QED
        BY <3>1
  <2>2. PICK h \in H : h.length # NoContent /\ req.content = h.length
    BY <1>1, <1>4, <2>1 DEF Noted
  <2>3. h.length \in lengths
    BY <2>2
  <2> QED
    BY <1>8, <2>2, <2>3
<1>10. req.ctype \in {"form", "multipart"}
  <2>1. PICK t \in types : TRUE
    BY <1>8
  <2>2. PICK g \in H : g.ctype # "none"
    BY <2>1
  <2>3. PICK h \in H : h.ctype # "none" /\ req.ctype = h.ctype
    BY <1>1, <2>2 DEF Noted
  <2>4. h.ctype \in types
    BY <2>3
  <2> QED
    BY <1>8, <2>3, <2>4
<1> QED
    BY <1>5, <1>6, <1>9, <1>10

RequestInv == TypeInv /\ CallsInv /\ HeadInv

(* A line of a well-formed request is in order. *)
LEMMA LineFits ==
    ASSUME RequestInv, WellFormed(stream), TakeLine
    PROVE  /\ req.pstate = "RequestLine" => ~AsRequest[Line].err
           /\ req.pstate = "Headers" /\ Line # <<>> => ~AsHeader[Line].err
<1>1. /\ TypeOK /\ Ends # {} /\ pc = "lines" /\ frees = 0
  <2>1. TypeOK /\ Ends # {} /\ pc = "lines" /\ ~(frees > 0)
    BY DEF TakeLine, RequestInv, TypeInv, Bookkeeping
  <2>2. frees \in 0..2
    BY <2>1 DEF TypeOK
  <2> QED
    BY <2>1, <2>2
<1>2. Line = LineFrom(stream, At + 1) /\ (Line = <<>> <=> Min(Ends) = 1)
    BY <1>1, LineIs
<1>3. /\ Min(Ends) \in 1..Len(input) /\ At + Min(Ends) \in 1..Len(stream) /\ stream[At + Min(Ends)] = EndLine
      /\ \A k \in 1..(Min(Ends) - 1) : stream[At + k] # EndLine
    BY <1>1, LineIs
<1>4. At \in Nat /\ Len(stream) \in Nat
    BY <1>1, Lengths
<1>5. ASSUME req.pstate = "RequestLine" PROVE ~AsRequest[Line].err
  <2>1. At = 0
    BY <1>1, <1>5 DEF RequestInv, TypeInv, LineStarts
  <2>2. Line = LineFrom(stream, 1)
    BY <1>2, <2>1
  <2> QED
    BY <2>2 DEF WellFormed
<1>6. ASSUME req.pstate = "Headers", Line # <<>> PROVE ~AsHeader[Line].err
  <2>1. /\ At >= 1 /\ stream[At] = EndLine /\ \A i \in HeadEnds(stream) : At < i
    BY <1>1, <1>6 DEF RequestInv, TypeInv, LineStarts, HeadInv
  <2> DEFINE e == Min(HeadEnds(stream))
             j == At + 1
  <2>2. e \in HeadEnds(stream) /\ e \in 2..Len(stream)
    <3>1. HeadEnds(stream) \in SUBSET Nat /\ HeadEnds(stream) # {}
        BY <1>4 DEF HeadEnds, WellFormed
    <3> QED
        BY <3>1, MinIsLeast DEF HeadEnds
  <2>3. stream[e] = EndLine /\ At < e
    BY <2>1, <2>2 DEF HeadEnds
  <2>4. e # j
    <3> SUFFICES ASSUME e = j PROVE FALSE
        OBVIOUS
    <3>1. 1 \in 1..(Min(Ends) - 1)
        BY <1>2, <1>3, <1>6
    <3> HIDE DEF e
    <3> QED
        BY <1>3, <2>3, <3>1
  <2>5. j \in 2..(e - 1) /\ stream[j - 1] = EndLine
    <3>1. j - 1 = At /\ j \in Nat /\ j >= 2
        BY <1>4, <2>1
    <3> HIDE DEF e
    <3> QED
        BY <1>4, <2>1, <2>2, <2>3, <2>4, <3>1
  <2>6. AsHeader[LineFrom(stream, j)] \in HeadersOf(stream)
    <3> HIDE DEF j
    <3> QED
        BY <2>5 DEF HeadersOf
  <2> QED
    BY <1>2, <2>6 DEF WellFormed
<1> QED
    BY <1>5, <1>6

LEMMA RequestInvStep == RequestInv /\ [Next]_vars => RequestInv'
BY TypeStep, CallsStep, HeadStep DEF RequestInv

LEMMA RequestInvInit == Init => RequestInv
BY TypeInit, CallsInit, HeadInit DEF RequestInv

(* A parse error is never of a well-formed request. *)
LEMMA AcceptedStep ==
    ASSUME RequestInv, WellFormedAccepted, [Next]_vars
    PROVE  WellFormedAccepted'
<1> SUFFICES ASSUME pc' = "error", WellFormed(stream)' PROVE FALSE
    BY DEF WellFormedAccepted
<1>1. stream' = stream
    BY DEF Next, Callback, vars, client, Accept, Arrive, Drain, AwaitContent, ContentTooLong, FormContent,
           MultipartContent, BadContent, StartLines, NoLine, LineError, RequestLine, LengthLine, HeaderLine,
           EndOfHeaders, LineDropped, ParseErrDefault, ParseErrPage, Write, Event, Answer
<1>2. WellFormed(stream)
    BY <1>1
<1>3. pc # "error"
    BY <1>2 DEF WellFormedAccepted
<1>4. ContentTooLong \/ BadContent \/ LineError
    BY <1>3 DEF Next, Callback, vars, Accept, Arrive, Drain, AwaitContent, FormContent, Return,
           MultipartContent, StartLines, NoLine, RequestLine, LengthLine, HeaderLine, TakeLine,
           EndOfHeaders, LineDropped, ParseErrDefault, ParseErrPage, Write, Event, Answer
<1>5. CASE ContentTooLong
  <2>1. Len(input) > req.content /\ req.content = Len(Body(stream)) /\ Len(input) <= Len(Body(stream))
    BY <1>2, <1>5, BodyFits DEF ContentTooLong, RequestInv
  <2>2. Len(input) \in Nat
    BY Lengths DEF RequestInv, TypeInv
  <2>3. req.content \in Nat \cup {NoContent}
    BY TypeOKIs DEF RequestInv, TypeInv, FieldsOK, Requests
  <2> QED
    BY <2>1, <2>2, <2>3 DEF NoContent
<1>6. CASE BadContent
    BY <1>2, <1>6, BodyFits DEF BadContent, TakeContent, RequestInv
<1>7. CASE LineError
    BY <1>2, <1>7, LineFits DEF LineError
<1> QED
    BY <1>4, <1>5, <1>6, <1>7

(* Wherever its bytes were cut, whatever handlers it met and whatever the  *)
(* grammars take for a header, a well-formed request never runs into a     *)
(* parse error.                                                            *)
THEOREM WellFormedAlwaysAccepted == Spec => []WellFormedAccepted
<1>1. Init => RequestInv /\ WellFormedAccepted
    BY RequestInvInit DEF Init, WellFormedAccepted
<1>2. RequestInv /\ WellFormedAccepted /\ [Next]_vars => (RequestInv /\ WellFormedAccepted)'
    BY RequestInvStep, AcceptedStep
<1> QED
    BY <1>1, <1>2, PTL DEF Spec

LEMMA BodyStep ==
    ASSUME RequestInv, [Next]_vars
    PROVE  BodyExact
<1> SUFFICES ASSUME ReadContent, Len(calls') > Len(calls), WellFormed(stream)
             PROVE  input = Body(stream)
    BY DEF BodyExact
<1>1. pc = "read" /\ req.pstate = "Content" /\ Len(calls) \in Nat
  <2>1. calls \in Seq(Told)
    BY TypeOKIs DEF RequestInv, TypeInv, FieldsOK
  <2> QED
    BY <2>1 DEF ReadContent
<1>2. calls' # calls
    BY <1>1
<1>3. FormContent \/ MultipartContent
    BY <1>1, <1>2 DEF Next, Callback, vars, Accept, Open, Arrive, Drain, AwaitContent, ContentTooLong,
           BadContent, StartLines, NoLine, LineError, RequestLine, LengthLine, HeaderLine, TakeLine,
           EndOfHeaders, LineDropped, ParseErrDefault, ParseErrPage, Write, Event, Answer
<1>4. Len(input) = req.content
    BY <1>3 DEF FormContent, MultipartContent, TakeContent
<1> QED
    BY <1>4, BodyFits DEF RequestInv

(* The content that a handler is given of a well-formed request is its     *)
(* body, all of it and nothing else, although readcb takes it from a       *)
(* buffer that its other states share.                                     *)
THEOREM BodyAlwaysExact == Spec => [][BodyExact]_vars
<1>1. RequestInv /\ [Next]_vars => [BodyExact]_vars
    BY BodyStep
<1> QED
    BY <1>1, RequestInvInit, RequestInvStep, PTL DEF Spec
===============================================================================
