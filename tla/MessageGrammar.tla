----------------------------- MODULE MessageGrammar -----------------------------
(***************************************************************************)
(* What the bytes of a protobuf message are: a sequence of items, each a   *)
(* key followed by a value of the form its wire type asks for.  This is a  *)
(* grammar, with no reader, no position and no order of reading: it says   *)
(* which byte strings are items, and the scanner is held against it.       *)
(***************************************************************************)
EXTENDS Integers, Sequences

CONSTANTS VarintLen, LastLimit  \* the longest varint, and the bound on its last byte

Prefix(s, n) == SubSeq(s, 1, n)
Rest(s, n)   == SubSeq(s, n + 1, Len(s))

\* a number in base 128: all bytes but the last are marked
IsNumeral(s) ==
  /\ s # <<>>
  /\ s[Len(s)] < 128
  /\ \A k \in 1..(Len(s) - 1) : s[k] >= 128

IsVarint(s) ==
  /\ IsNumeral(s)
  /\ Len(s) < VarintLen \/ (Len(s) = VarintLen /\ s[Len(s)] < LastLimit)

\* the number, 7 bits to a byte, least significant first
ValueOf(s) ==
  LET From[k \in 1..(Len(s) + 1)] == IF k > Len(s) THEN 0 ELSE (s[k] % 128) + 128 * From[k + 1]
  IN  From[1]

\* how many bytes a varint at the start of s may have
Lengths(s) == 1..(IF Len(s) < VarintLen THEN Len(s) ELSE VarintLen)

\* a length, then that many bytes; the first of them is at n
Delimited(s, n) == IsVarint(Prefix(s, n)) /\ ValueOf(Prefix(s, n)) = Len(s) - n

IsValue(wire, s) ==
  CASE wire = 0 -> IsNumeral(s)
    [] wire = 1 -> Len(s) = 8
    [] wire = 2 -> \E n \in Lengths(s) : Delimited(s, n)
    [] wire = 5 -> Len(s) = 4
    [] OTHER    -> FALSE

\* the first n bytes of s are a key
HasKey(s, n) == IsVarint(Prefix(s, n))
KeyLen(s)    == CHOOSE n \in Lengths(s) : HasKey(s, n)
Keyed(s)     == \E n \in Lengths(s) : HasKey(s, n)
IdOf(s)      == ValueOf(Prefix(s, KeyLen(s))) \div 8
WireOf(s)    == ValueOf(Prefix(s, KeyLen(s))) % 8

IsItem(s) == Keyed(s) /\ IsValue(WireOf(s), Rest(s, KeyLen(s)))

\* where the value proper starts: after the length, if there is one
ValueStart(s) ==
  LET v == Rest(s, KeyLen(s))
  IN  KeyLen(s) + IF WireOf(s) = 2 THEN CHOOSE n \in Lengths(v) : Delimited(v, n) ELSE 0
=============================================================================
