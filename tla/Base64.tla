-------------------------------- MODULE Base64 --------------------------------
(***************************************************************************)
(* base64_encode and base64_decode of src/util.cpp, and bit_reinterpret    *)
(* between them, which packs the upper bits of some bytes into the upper   *)
(* bits of others.  A client writes a text byte by byte.                   *)
(*                                                                         *)
(* A character of the alphabet is the number of its place, and 64 stands   *)
(* for "=".  A text is not empty: for an empty one a byte that is not there *)
(* is read.                                                                *)
(***************************************************************************)
EXTENDS Integers, Sequences, Bitwise
LOCAL INSTANCE SequencesExt
LOCAL INSTANCE FiniteSetsExt

CONSTANTS
    Bytes,      \* the bytes a text is made of
    MaxBytes    \* bound: its length

VARIABLE text

Pad == 64

-------------------------------------------------------------------------------
(* bit_reinterpret *)

(* x & (UCHAR_MAX << (8-length)) *)
Upper(x, length) == ((x \div 2^(8 - length)) % 256) * 2^(8 - length)

(* the bits of a byte from the one at pos on, moved to where pos is in the  *)
(* byte that is made                                                       *)
Moved(byte, pos, inl, outl) ==
    Upper(Upper(byte * 2^(pos % inl), inl) \div 2^(pos % outl), outl)

Consumed(pos, inl, outl) == Min({inl - (pos % inl), outl - (pos % outl)})

RECURSIVE Packed(_, _, _, _, _)
Packed(src, pos, out, inl, outl) ==
    LET at == (pos \div inl) + 1
        next == pos + Consumed(pos, inl, outl)
        full == [out EXCEPT ![Len(out)] = @ | Moved(src[at], pos, inl, outl)]
        more == IF next % outl = 0 THEN Append(full, 0) ELSE full
    IN IF at = Len(src) /\ next % inl = 0
       THEN SubSeq(more, 1, Len(more) - (IF next % outl > 0 THEN 0 ELSE 1))
       ELSE Packed(src, next, more, inl, outl)

bit_reinterpret(src, inl, outl) == Packed(src, 0, <<0>>, inl, outl)

-------------------------------------------------------------------------------
(* The padding fills up to the last group of four. *)
Padded(symbols, len) ==
    LET full(n) == (n * 6) \div 24 = (len + 2) \div 3
        n == Min({m \in Len(symbols)..(Len(symbols) + 4) : full(m)})
    IN symbols \o [k \in 1..(n - Len(symbols)) |-> Pad]

base64_encode(src) ==
    LET s == bit_reinterpret(src, 8, 6)
    IN Padded([k \in DOMAIN s |-> s[k] \div 4], Len(src))

(* mutant of base64_decode: what the last symbols leave over is kept *)
base64_decode_All(src) ==
    LET symbols == SelectSeq(src, LAMBDA c : c # Pad)
    IN bit_reinterpret([k \in DOMAIN symbols |-> symbols[k] * 4], 6, 8)

(* as many bytes as there are "=" are taken off the end *)
base64_decode(src) ==
    LET slen == Max({0} \cup {k \in DOMAIN src : src[k] # Pad})
        s == bit_reinterpret([k \in 1..slen |-> src[k] * 4], 6, 8)
    IN SubSeq(s, 1, Len(s) - (Len(src) - slen))

-------------------------------------------------------------------------------
Base64Init == text = <<>>

WriteByte(b) == Len(text) < MaxBytes /\ text' = Append(text, b)

Anew == text # <<>> /\ text' = <<>>

Base64Next == (\E b \in Bytes : WriteByte(b)) \/ Anew

-------------------------------------------------------------------------------
(* The number that the bytes of a group make, and a symbol of it. *)
Bits(bytes) == FoldLeft(LAMBDA n, b : n * 256 + b, 0, bytes)
Symbol(group, k) == (Bits([j \in 1..3 |-> IF j <= Len(group) THEN group[j] ELSE 0]) \div 2^(24 - 6 * k)) % 64
Group(k) == SubSeq(text, 3 * k - 2, Min({3 * k, Len(text)}))

(* Three bytes are four symbols, two are three and one is two, with "=" up  *)
(* to four, wherever the steps of six and of eight bits meet; and what is   *)
(* decoded is what was encoded, but for a byte that stands alone in the     *)
(* last group: two "=" are taken for two bytes, and there is one too many.  *)
Base64Exact ==
    text # <<>> =>
        LET groups == (Len(text) + 2) \div 3
            coded == base64_encode(text)
        IN /\ coded = FlattenSeq([g \in 1..groups |->
                          [k \in 1..4 |-> IF k <= Len(Group(g)) + 1 THEN Symbol(Group(g), k) ELSE Pad]])
           /\ base64_decode(coded) = IF Len(text) % 3 = 1 THEN Front(text) ELSE text
===============================================================================
