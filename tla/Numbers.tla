--------------------------------- MODULE Numbers ---------------------------------
(***************************************************************************)
(* The value encoders and decoders of a field (valEnc of encode.go, valDec *)
(* of decode.go): varint, zigzag and fixed-size numbers, as the unsigned   *)
(* words the code works with, and what is left of a word in a field of     *)
(* fewer bits.                                                             *)
(***************************************************************************)
EXTENDS Wire

CONSTANT Word32  \* the numbers of a uint32: those below this

\* four bytes hold a uint32, and eight bytes a word
ASSUME Word32Assumption ==
  /\ Word32 \in Nat /\ Word32 >= 2 /\ Word32 % 2 = 0 /\ Word32 < Word
  /\ (Word32 - 1) \div 65536 < 65536
  /\ (((Word - 1) \div 65536) \div 65536) \div 65536 < 65536

\* n bytes, least significant first
LittleEndian(b, i, n) ==
  LET From[k \in 0..n] == IF k = n THEN 0 ELSE Byte(b, i + k) + 256 * From[k + 1]
  IN  From[0]

\* DecodeFixed32 and DecodeFixed64
DecodeFixed(b, i, n) ==
  LET end == (i + n) % Word
  IN  IF end < n \/ end > Len(b) THEN Fail(EOF, i) ELSE Read(LittleEndian(b, i, n), end)

\* (x >> 1) ^ -(x & 1), in words of this many values
Zigzag(x, word) == IF x % 2 = 0 THEN x \div 2 ELSE word - 1 - (x \div 2)

\* a uint32 taken for an int32, then for a uint64
SignExtended(x) == IF x < Word32 \div 2 THEN x ELSE (Word - Word32) + x

DecodeZigzag32(b, i) ==
  LET v == DecodeVarint(b, i)
  IN  [v EXCEPT !.x = IF v.err = None THEN SignExtended(Zigzag(v.x % Word32, Word32)) ELSE 0]

DecodeZigzag64(b, i) ==
  LET v == DecodeVarint(b, i)
  IN  [v EXCEPT !.x = IF v.err = None THEN Zigzag(v.x, Word) ELSE 0]

\* p.valDec
valDec(val, b, i) ==
  CASE val = "varint"   -> DecodeVarint(b, i)
    [] val = "zigzag32" -> DecodeZigzag32(b, i)
    [] val = "zigzag64" -> DecodeZigzag64(b, i)
    [] val = "fixed32"  -> DecodeFixed(b, i, 4)
    [] val = "fixed64"  -> DecodeFixed(b, i, 8)

\* a bool is true of every number but 0; an integer type keeps its low bits
Stored(u, word) == IF word = 2 THEN (IF u = 0 THEN 0 ELSE 1) ELSE u % word

-----------------------------------------------------------------------------
(* the other way *)

\* a sequence of sequences, end to end
Concat(ss) == LET From[k \in 1..(Len(ss) + 1)] == IF k > Len(ss) THEN <<>> ELSE ss[k] \o From[k + 1] IN From[1]

\* mutant: an exact power of 128 is taken for one byte less
SizeVarint_Short(x) ==
  CHOOSE n \in 1..VarintLen : x \div Weight[n] <= 1 /\ (n = 1 \/ x \div Weight[n - 1] > 1)

\* how often 7 bits can be shifted out before nothing is left
SizeVarint(x) ==
  CHOOSE n \in 1..VarintLen : x \div Weight[n] = 0 /\ (n = 1 \/ x \div Weight[n - 1] # 0)

\* mutant: the groups keep the bits of those after them
EncodeVarint_Unmasked(x) ==
  LET n == CHOOSE k \in 1..VarintLen : x < Weight[k] /\ \A j \in 1..(k - 1) : x >= Weight[j]
  IN  [k \in 1..n |-> (x \div Weight[k - 1]) + IF k < n THEN 128 ELSE 0]

\* groups of 7 bits, marked as long as the rest needs more than one
EncodeVarint(x) ==
  LET n == CHOOSE k \in 1..VarintLen : x < Weight[k] /\ \A j \in 1..(k - 1) : x >= Weight[j]
  IN  [k \in 1..n |-> ((x \div Weight[k - 1]) % 128) + IF k < n THEN 128 ELSE 0]

\* the low n bytes, least significant first
EncodeFixed(x, n) ==
  LET Shifted[k \in 0..n] == IF k = 0 THEN x ELSE Shifted[k - 1] \div 256
  IN  [k \in 1..n |-> Shifted[k - 1] % 256]

\* (x << 1) ^ (x >> 63), in words of this many values
Unzigzag(x, word) == IF x < word \div 2 THEN 2 * x ELSE 2 * (word - x) - 1

\* p.valEnc
valEnc(val, x) ==
  CASE val = "varint"   -> EncodeVarint(x)
    [] val = "zigzag32" -> EncodeVarint(Unzigzag(x % Word32, Word32))
    [] val = "zigzag64" -> EncodeVarint(Unzigzag(x, Word))
    [] val = "fixed32"  -> EncodeFixed(x % Word32, 4)
    [] val = "fixed64"  -> EncodeFixed(x, 8)

\* uint64(v): a type with a sign is extended
AsUint64(u, word, signed) == IF signed /\ u >= word \div 2 THEN (Word - word) + u ELSE u
=============================================================================
