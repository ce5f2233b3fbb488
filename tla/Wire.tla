---------------------------------- MODULE Wire ----------------------------------
(***************************************************************************)
(* How a Buffer of package protobuf3 reads the wire format (decode.go): the*)
(* varint decoder with its one-byte, bounds-checked and unrolled paths, the*)
(* length-delimited and fixed-size items, and the skip functions.  Each    *)
(* operator is a function of the bytes and the read position p.index, and  *)
(* gives what the method returns and the position it leaves.               *)
(*                                                                         *)
(* A machine word is as wide as the longest varint: the code's 64 bits are *)
(* 10 bytes of which the last one is below 2.  A uint is such a word, too. *)
(***************************************************************************)
EXTENDS Integers, Sequences

CONSTANTS
  VarintLen,  \* the bytes of the longest varint
  LastLimit,  \* the last of that many bytes stays below this
  Word        \* the numbers a word can hold: those below this

ASSUME WireAssumption ==
  /\ VarintLen \in Nat /\ VarintLen >= 3
  /\ LastLimit \in 2..128
  /\ Word \in Nat /\ Word > 8

\* what is shifted by n groups of 7 bits counts that much more
Weight[n \in 0..VarintLen] == IF n = 0 THEN 1 ELSE 128 * Weight[n - 1]

ASSUME WordAssumption == Word = LastLimit * Weight[VarintLen - 1]

Bytes == 0..255

WireVarint  == 0
WireFixed64 == 1
WireBytes   == 2
WireFixed32 == 5

\* the errors, told apart as far as a caller can
None     == "none"
EOF      == "io.ErrUnexpectedEOF"
Overflow == "errOverflow"
BadWire  == "unsupported wiretype"
BadLen   == "bad byte length"
NotFound == "ErrNotFound"

Read(x, i) == [x |-> x, index |-> i, err |-> None]
Fail(e, i) == [x |-> 0, index |-> i, err |-> e]

Byte(b, i) == b[i + 1]  \* Go counts from 0

-----------------------------------------------------------------------------
(* varints *)

\* the varint at i has n bytes
Terminates(b, i, n) ==
  /\ i + n <= Len(b)
  /\ Byte(b, i + n - 1) < 128
  /\ \A k \in 0..(n - 2) : Byte(b, i + k) >= 128

\* its 7-bit groups, least significant first
Groups(b, i, n) ==
  LET From[k \in 0..n] == IF k = n THEN 0 ELSE (Byte(b, i + k) % 128) + 128 * From[k + 1]
  IN  From[0]

TooLarge(b, i, n) == n = VarintLen /\ Byte(b, i + n - 1) >= LastLimit

\* mutant: the loop ends at half of the bits
decodeVarintSlow_Half(b, i) ==
  IF \E n \in 1..(VarintLen \div 2) : Terminates(b, i, n)
  THEN LET n == CHOOSE m \in 1..VarintLen : Terminates(b, i, m) IN Read(Groups(b, i, n), i + n)
  ELSE Fail(Overflow, i)

decodeVarintSlow(b, i) ==
  IF \E n \in 1..VarintLen : Terminates(b, i, n)
  THEN LET n == CHOOSE m \in 1..VarintLen : Terminates(b, i, m)
       IN  IF TooLarge(b, i, n) THEN Fail(Overflow, i + n) ELSE Read(Groups(b, i, n), i + n)
  ELSE Fail(IF i + VarintLen > Len(b) THEN EOF ELSE Overflow, i)

\* the unrolled path, with VarintLen bytes left
decodeVarintFast(b, i) ==
  IF \E n \in 1..VarintLen : Terminates(b, i, n) /\ ~TooLarge(b, i, n)
  THEN LET n == CHOOSE m \in 1..VarintLen : Terminates(b, i, m)
       IN  Read(Groups(b, i, n), i + n)
  ELSE Fail(Overflow, i)

DecodeVarint(b, i) ==
  IF i >= Len(b) THEN Fail(EOF, i)
  ELSE IF Byte(b, i) < 128 THEN Read(Byte(b, i), i + 1)
  ELSE IF i + VarintLen > Len(b) THEN decodeVarintSlow(b, i)
  ELSE decodeVarintFast(b, i)

\* any number of bytes will do
SkipVarint(b, i) ==
  IF \E n \in 1..(Len(b) - i) : Terminates(b, i, n)
  THEN Read(0, i + CHOOSE n \in 1..(Len(b) - i) : Terminates(b, i, n))
  ELSE Fail(EOF, i)

-----------------------------------------------------------------------------
(* items of a known size *)

\* mutant: the bytes left are not looked at
SkipFixed_Unchecked(b, i, n) == Read(0, (i + n) % Word)

\* positions wrap around at the end of a word
SkipFixed(b, i, n) ==
  LET end == (i + n) % Word
  IN  IF end < i \/ end > Len(b) THEN Fail(EOF, i) ELSE Read(0, end)

\* the 1 and 2-byte lengths are decoded in place
ShortLength(b, i) ==
  \/ Byte(b, i) < 128
  \/ i + 1 < Len(b) /\ Byte(b, i + 1) < 128

RawLength(b, i) ==
  IF Byte(b, i) < 128 THEN Read(Byte(b, i), i + 1)
  ELSE IF i + 1 < Len(b) /\ Byte(b, i + 1) < 128
  THEN Read((Byte(b, i) - 128) + 128 * Byte(b, i + 1), i + 2)
  ELSE DecodeVarint(b, i)

\* mutant: a sum that wrapped around is taken for a position
SliceEnds_Wrapped(b, from, end) == end <= Len(b)

\* both ends of a slice are in the buffer and in order
SliceEnds(b, from, end) == end >= from /\ end <= Len(b)

\* DecodeRawBytes and SkipRawBytes move p.index in the same way; x is where the bytes start.
\* When the bytes are cut short p.index stays, unless the length took DecodeVarint to read.
DecodeRawBytes(b, i) ==
  IF i >= Len(b) THEN Fail(EOF, i)
  ELSE LET n   == RawLength(b, i)
           end == (n.index + n.x) % Word
       IN  IF n.err # None THEN n
           ELSE IF n.x \notin 0..(Word - 1) THEN Fail(BadLen, n.index)  \* no uint holds it
           ELSE IF SliceEnds(b, n.index, end) THEN Read(n.index, end)
           ELSE Fail(EOF, IF ShortLength(b, i) THEN i ELSE n.index)

\* the value of an item whose key has been read
skip(b, i, wire) ==
  CASE wire = WireVarint  -> SkipVarint(b, i)
    [] wire = WireBytes   -> DecodeRawBytes(b, i)
    [] wire = WireFixed64 -> SkipFixed(b, i, 8)
    [] wire = WireFixed32 -> SkipFixed(b, i, 4)
    [] OTHER              -> Fail(BadWire, i)

KeyWire(x) == x % 8
KeyId(x)   == x \div 8
=============================================================================
