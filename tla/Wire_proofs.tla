------------------------------- MODULE Wire_proofs -------------------------------
(***************************************************************************)
(* Whatever bytes are read, and wherever: a position that the wire         *)
(* primitives return is between the one they were given and the end of the *)
(* bytes, and what starts with a varint moves ahead.  They read what the   *)
(* grammar of messages says is there, and of numbers what was written.     *)
(***************************************************************************)
EXTENDS Numbers, SequenceTheorems, WellFoundedInduction, TLAPS

-----------------------------------------------------------------------------
(* induction over the natural numbers, with a set in place of a property *)

\* no natural number has infinitely many before it
Less == {p \in Nat \X Nat : p[1] < p[2]}

\* every set of natural numbers has a least one
LEMMA LeastNat ==
  ASSUME NEW S \in SUBSET Nat, S # {}
  PROVE  \E m \in S : \A k \in S : m <= k
<1>1. IsWellFoundedOn(Less, Nat)
  BY NatLessThanWellFounded DEF Less, OpToRel
<1>2. PICK m \in S : \A k \in S : <<k, m>> \notin Less
  BY <1>1, WFMin
<1>3. ASSUME NEW k \in S PROVE m <= k
  <2>1. k \in Nat /\ m \in Nat /\ <<k, m>> \in Nat \X Nat
    OBVIOUS
  <2>2. ~(k < m)
    BY <1>2, <2>1 DEF Less
  <2> QED
    BY <2>1, <2>2
<1> QED
  BY <1>3

LEMMA SetInduction ==
  ASSUME NEW S, 0 \in S, \A k \in Nat : k \in S => k + 1 \in S
  PROVE  Nat \subseteq S
<1> SUFFICES ASSUME Nat \ S # {} PROVE FALSE
  OBVIOUS
<1>1. PICK m \in Nat \ S : \A k \in Nat \ S : m <= k
  BY LeastNat
<1>2. m # 0 /\ m - 1 \in Nat
  BY <1>1
<1>3. m - 1 \in S
  BY <1>1, <1>2
<1> QED
  BY <1>1, <1>2, <1>3

\* downwards from n to 0
LEMMA Downwards ==
  ASSUME NEW n \in Nat, NEW S, n \in S, \A k \in 0..(n - 1) : k + 1 \in S => k \in S
  PROVE  0..n \subseteq S
<1> DEFINE T == {m \in Nat : m <= n => n - m \in S}
<1>1. 0 \in T
  OBVIOUS
<1>2. ASSUME NEW m \in Nat, m \in T PROVE m + 1 \in T
  <2> SUFFICES ASSUME m + 1 <= n PROVE n - (m + 1) \in S
    OBVIOUS
  <2>1. n - m \in S
    BY <1>2
  <2>2. n - (m + 1) \in 0..(n - 1) /\ (n - (m + 1)) + 1 = n - m
    OBVIOUS
  <2> QED
    BY <2>1, <2>2
<1>3. Nat \subseteq T
  BY <1>1, <1>2, SetInduction
<1>4. ASSUME NEW k \in 0..n PROVE k \in S
  <2>1. n - k \in Nat /\ n - k <= n /\ n - (n - k) = k
    OBVIOUS
  <2>2. n - k \in T
    BY <1>3, <2>1
  <2> QED
    BY <2>1, <2>2
<1> QED
  BY <1>4

-----------------------------------------------------------------------------
(* positions *)

\* Where a read that began at i may leave the position.
Ahead(b, i) == {j \in Nat : i <= j /\ j <= Len(b)}

USE DEF None, EOF, Overflow, BadWire, BadLen, NotFound, Read, Fail

LEMMA TerminatesFacts ==
  ASSUME NEW b \in Seq(Bytes), NEW i \in Nat, NEW n \in Nat \ {0}, Terminates(b, i, n)
  PROVE  i + n \in Ahead(b, i) /\ i + n > i
BY DEF Terminates, Ahead

\* DecodeVarint leaves the position in the buffer, and ahead if it reads a number.
LEMMA DecodeVarintFacts ==
  ASSUME NEW b \in Seq(Bytes), NEW i \in Nat, i <= Len(b)
  PROVE  /\ DecodeVarint(b, i).index \in Ahead(b, i)
         /\ DecodeVarint(b, i).err = None => DecodeVarint(b, i).index > i
<1> VarintLen \in Nat
  BY WireAssumption
<1>1. i \in Ahead(b, i)
  BY DEF Ahead
<1>2. /\ decodeVarintSlow(b, i).index \in Ahead(b, i)
      /\ decodeVarintSlow(b, i).err = None => decodeVarintSlow(b, i).index > i
  <2>1. CASE \E n \in 1..VarintLen : Terminates(b, i, n)
    <3> DEFINE n == CHOOSE m \in 1..VarintLen : Terminates(b, i, m)
    <3>1. n \in 1..VarintLen /\ Terminates(b, i, n)
      BY <2>1
    <3> HIDE DEF n
    <3>2. i + n \in Ahead(b, i) /\ i + n > i
      BY <3>1, TerminatesFacts
    <3>3. decodeVarintSlow(b, i) =
            IF TooLarge(b, i, n) THEN Fail(Overflow, i + n) ELSE Read(Groups(b, i, n), i + n)
      BY <2>1 DEF decodeVarintSlow, n
    <3> QED
      BY <3>2, <3>3
  <2>2. CASE ~\E n \in 1..VarintLen : Terminates(b, i, n)
    <3>1. decodeVarintSlow(b, i) = Fail(IF i + VarintLen > Len(b) THEN EOF ELSE Overflow, i)
      BY <2>2 DEF decodeVarintSlow
    <3> QED
      BY <1>1, <3>1
  <2> QED
    BY <2>1, <2>2
<1>3. /\ decodeVarintFast(b, i).index \in Ahead(b, i)
      /\ decodeVarintFast(b, i).err = None => decodeVarintFast(b, i).index > i
  <2>1. CASE \E n \in 1..VarintLen : Terminates(b, i, n) /\ ~TooLarge(b, i, n)
    <3> DEFINE n == CHOOSE m \in 1..VarintLen : Terminates(b, i, m)
    <3>1. n \in 1..VarintLen /\ Terminates(b, i, n)
      BY <2>1
    <3> HIDE DEF n
    <3>2. i + n \in Ahead(b, i) /\ i + n > i
      BY <3>1, TerminatesFacts
    <3>3. decodeVarintFast(b, i) = Read(Groups(b, i, n), i + n)
      BY <2>1 DEF decodeVarintFast, n
    <3> QED
      BY <3>2, <3>3
  <2>2. CASE ~\E n \in 1..VarintLen : Terminates(b, i, n) /\ ~TooLarge(b, i, n)
    <3>1. decodeVarintFast(b, i) = Fail(Overflow, i)
      BY <2>2 DEF decodeVarintFast
    <3> QED
      BY <1>1, <3>1
  <2> QED
    BY <2>1, <2>2
<1>4. i < Len(b) => i + 1 \in Ahead(b, i)
  BY DEF Ahead
<1> QED
  BY <1>1, <1>2, <1>3, <1>4 DEF DecodeVarint

LEMMA SkipVarintFacts ==
  ASSUME NEW b \in Seq(Bytes), NEW i \in Nat, i <= Len(b)
  PROVE  SkipVarint(b, i).index \in Ahead(b, i)
<1>1. CASE \E n \in 1..(Len(b) - i) : Terminates(b, i, n)
  <2> DEFINE n == CHOOSE m \in 1..(Len(b) - i) : Terminates(b, i, m)
  <2>1. n \in 1..(Len(b) - i) /\ Terminates(b, i, n)
    BY <1>1
  <2>2. SkipVarint(b, i).index = i + n
    BY <1>1 DEF SkipVarint
  <2> HIDE DEF n
  <2> QED
    BY <2>1, <2>2, TerminatesFacts
<1>2. CASE ~\E n \in 1..(Len(b) - i) : Terminates(b, i, n)
  BY <1>2 DEF SkipVarint, Ahead
<1> QED
  BY <1>1, <1>2

\* A sum of positions is a number, wrapped around or not.
LEMMA WrappedSum ==
  ASSUME NEW i \in Nat, NEW k \in Nat
  PROVE  (i + k) % Word \in Nat
BY WireAssumption

LEMMA SkipFixedFacts ==
  ASSUME NEW b \in Seq(Bytes), NEW i \in Nat, i <= Len(b), NEW k \in Nat
  PROVE  SkipFixed(b, i, k).index \in Ahead(b, i)
BY WrappedSum DEF SkipFixed, Ahead

\* The bytes of a length-delimited item lie between the two positions.
LEMMA DecodeRawBytesFacts ==
  ASSUME NEW b \in Seq(Bytes), NEW i \in Nat, i <= Len(b)
  PROVE  /\ DecodeRawBytes(b, i).index \in Ahead(b, i)
         /\ DecodeRawBytes(b, i).err = None =>
              /\ DecodeRawBytes(b, i).x \in Ahead(b, i)
              /\ DecodeRawBytes(b, i).x <= DecodeRawBytes(b, i).index
<1>1. CASE i = Len(b)
  BY <1>1 DEF DecodeRawBytes, Ahead
<1>2. CASE i < Len(b)
  <2> DEFINE n   == RawLength(b, i)
             end == (n.index + n.x) % Word
             at  == IF ShortLength(b, i) THEN i ELSE n.index
  <2>1. n.index \in Ahead(b, i) /\ at \in Ahead(b, i)
    BY <1>2, DecodeVarintFacts DEF RawLength, Ahead
  <2>2. ~(i >= Len(b))
    BY <1>2
  <2>3. CASE n.err # None
    <3>1. DecodeRawBytes(b, i) = n
      BY <2>2, <2>3 DEF DecodeRawBytes
    <3> QED
      BY <2>1, <2>3, <3>1
  <2>4. CASE n.err = None /\ n.x \notin 0..(Word - 1)
    <3>1. DecodeRawBytes(b, i) = Fail(BadLen, n.index)
      BY <2>2, <2>4, Zenon DEF DecodeRawBytes
    <3> HIDE DEF n, end, at
    <3>2. Fail(BadLen, n.index).err # None /\ Fail(BadLen, n.index).index = n.index
      OBVIOUS
    <3> QED
      BY <2>1, <3>1, <3>2
  <2>5. CASE n.err = None /\ n.x \in 0..(Word - 1)
    <3>1. end \in Nat
      BY <2>1, <2>5, WrappedSum, WireAssumption DEF Ahead
    <3>2. CASE SliceEnds(b, n.index, end)
      <4>1. DecodeRawBytes(b, i) = Read(n.index, end)
        BY <2>2, <2>5, <3>2, Zenon DEF DecodeRawBytes
      <4> HIDE DEF n, end
      <4> QED
        BY <2>1, <3>1, <3>2, <4>1 DEF SliceEnds, Ahead
    <3>3. CASE ~SliceEnds(b, n.index, end)
      <4>1. DecodeRawBytes(b, i) = Fail(EOF, at)
        BY <2>2, <2>5, <3>3, Zenon DEF DecodeRawBytes
      <4> HIDE DEF n, end, at
      <4> QED
        BY <2>1, <4>1
    <3> QED
      BY <3>2, <3>3
  <2> QED
    BY <2>3, <2>4, <2>5
<1> QED
  BY <1>1, <1>2

LEMMA SkipFacts ==
  ASSUME NEW b \in Seq(Bytes), NEW i \in Nat, i <= Len(b), NEW wire
  PROVE  /\ skip(b, i, wire).index \in Ahead(b, i)
         /\ (wire = WireBytes /\ skip(b, i, wire).err = None) =>
              /\ skip(b, i, wire).x \in Ahead(b, i)
              /\ skip(b, i, wire).x <= skip(b, i, wire).index
<1>1. i \in Ahead(b, i)
  BY DEF Ahead
<1> USE DEF WireVarint, WireBytes, WireFixed64, WireFixed32
<1>2. CASE wire = WireVarint
  BY <1>2, SkipVarintFacts DEF skip
<1>3. CASE wire = WireBytes
  BY <1>3, DecodeRawBytesFacts DEF skip
<1>4. CASE wire = WireFixed64
  BY <1>4, SkipFixedFacts DEF skip
<1>5. CASE wire = WireFixed32
  BY <1>5, SkipFixedFacts DEF skip
<1>6. CASE wire \notin {WireVarint, WireBytes, WireFixed64, WireFixed32}
  BY <1>1, <1>6 DEF skip
<1> QED
  BY <1>2, <1>3, <1>4, <1>5, <1>6
-----------------------------------------------------------------------------
(* the numbers that varints are *)

\* g is the sums of the groups from each one on
AreSums(b, i, n, g) ==
  /\ Groups(b, i, n) = g[0]
  /\ \A k \in 0..n : g[k] = IF k = n THEN 0 ELSE (Byte(b, i + k) % 128) + 128 * g[k + 1]

\* There are such sums: a function that is defined by recursion exists.
LEMMA GroupsFrom ==
  ASSUME NEW b \in Seq(Bytes), NEW i \in Nat, NEW n \in Nat, i + n <= Len(b)
  PROVE  \E g \in [0..n -> Nat] : AreSums(b, i, n, g)
<1> DEFINE Step(g, k) == IF k = n THEN 0 ELSE (Byte(b, i + k) % 128) + 128 * g[k + 1]
           Good(j) == \E g \in [j..n -> Nat] : \A k \in j..n : g[k] = Step(g, k)
           Def(g) == g = [k \in 0..n |-> Step(g, k)]
           From == CHOOSE f : Def(f)
           S == {j \in 0..n : Good(j)}
           T == {j \in 0..n : From[j] \in Nat}
<1>1. ASSUME NEW k \in 0..(n - 1) PROVE Byte(b, i + k) % 128 \in Nat
  <2>1. i + k + 1 \in 1..Len(b)
    OBVIOUS
  <2>2. b[i + k + 1] \in Bytes
    BY <2>1
  <2>3. \A x \in Bytes : x % 128 \in Nat
    BY DEF Bytes
  <2> QED
    BY <2>2, <2>3 DEF Byte
<1>2. ASSUME NEW k \in 0..(n - 1), NEW g, g[k + 1] \in Nat PROVE Step(g, k) \in Nat
  <2>1. k # n
    OBVIOUS
  <2>2. Byte(b, i + k) % 128 \in Nat
    BY <1>1
  <2>3. \A x, y \in Nat : x + 128 * y \in Nat
    OBVIOUS
  <2> QED
    BY <1>2, <2>1, <2>2, <2>3
<1>3. Good(n)
  <2> DEFINE g == [k \in n..n |-> 0]
  <2>1. g \in [n..n -> Nat] /\ \A k \in n..n : g[k] = Step(g, k)
    OBVIOUS
  <2> QED
    BY <2>1
<1>4. ASSUME NEW j \in 0..(n - 1), Good(j + 1) PROVE Good(j)
  <2>1. PICK g \in [(j + 1)..n -> Nat] : \A k \in (j + 1)..n : g[k] = Step(g, k)
    BY <1>4
  <2>2. j + 1 \in (j + 1)..n /\ j # n /\ n \in Nat
    OBVIOUS
  <2>3. Step(g, j) \in Nat
    BY <1>2, <2>1, <2>2
  <2> DEFINE v == Step(g, j)
             h == [k \in j..n |-> IF k = j THEN v ELSE g[k]]
  <2>4. v \in Nat /\ v = Step(g, j)
    BY <2>3
  <2> HIDE DEF v
  <2>5. h \in [j..n -> Nat]
    BY <2>4
  <2>6. ASSUME NEW k \in j..n PROVE h[k] = Step(h, k)
    <3>1. CASE k = j
      BY <2>2, <2>4, <3>1
    <3>2. CASE k # j
      <4>1. k \in (j + 1)..n /\ h[k] = g[k]
        BY <3>2
      <4>2. g[k] = Step(g, k)
        BY <2>1, <4>1
      <4>3. CASE k = n
        BY <4>1, <4>2, <4>3
      <4>4. CASE k # n
        <5>1. k + 1 \in j..n /\ k + 1 # j
          BY <4>1, <4>4
        <5> QED
          BY <4>1, <4>2, <4>4, <5>1
      <4> QED
        BY <4>3, <4>4
    <3> QED
      BY <3>1, <3>2
  <2> HIDE DEF h
  <2> QED
    BY <2>5, <2>6
<1>5. Good(0)
  <2> HIDE DEF Good
  <2>1. n \in S /\ \A j \in 0..(n - 1) : j + 1 \in S => j \in S
    BY <1>3, <1>4
  <2> HIDE DEF S
  <2>2. 0..n \subseteq S /\ 0 \in 0..n
    BY <2>1, Downwards
  <2> QED
    BY <2>2 DEF S
<1>6. \E g : Def(g)
  <2>1. PICK g \in [0..n -> Nat] : \A k \in 0..n : g[k] = Step(g, k)
    BY <1>5
  <2>2. g = [k \in 0..n |-> g[k]]
    BY <2>1
  <2>3. g = [k \in 0..n |-> Step(g, k)]
    BY <2>1, <2>2
  <2> QED
    BY <2>3
<1>7. Def(From)
  BY <1>6
<1>8. Groups(b, i, n) = From[0]
  BY DEF Groups
<1> HIDE DEF From
<1>9. \A k \in 0..n : From[k] = Step(From, k)
  BY <1>7
<1>10. From[n] \in Nat
  BY <1>9
<1>11. ASSUME NEW j \in 0..(n - 1), From[j + 1] \in Nat PROVE From[j] \in Nat
  BY <1>2, <1>9, <1>11
<1>12. 0..n \subseteq T
  <2>1. n \in T /\ \A j \in 0..(n - 1) : j + 1 \in T => j \in T
    BY <1>10, <1>11
  <2> HIDE DEF T
  <2> QED
    BY <2>1, Downwards
<1>13. From \in [0..n -> Nat]
  BY <1>7, <1>12
<1>14. AreSums(b, i, n, From)
  BY <1>8, <1>9 DEF AreSums
<1> QED
  BY <1>13, <1>14

\* the sum of the groups of a varint is a number
LEMMA GroupsNat ==
  ASSUME NEW b \in Seq(Bytes), NEW i \in Nat, NEW n \in Nat, i + n <= Len(b)
  PROVE  Groups(b, i, n) \in Nat
<1>1. PICK g \in [0..n -> Nat] : AreSums(b, i, n, g)
  BY GroupsFrom
<1> QED
  BY <1>1 DEF AreSums

LEMMA ByteFacts ==
  ASSUME NEW b \in Seq(Bytes), NEW i \in Nat, i < Len(b)
  PROVE  Byte(b, i) \in Nat
<1>1. i + 1 \in 1..Len(b)
  OBVIOUS
<1>2. b[i + 1] \in Bytes
  BY <1>1
<1>3. \A x \in Bytes : x \in Nat
  BY DEF Bytes
<1> QED
  BY <1>2, <1>3 DEF Byte

LEMMA DecodeVarintNat ==
  ASSUME NEW b \in Seq(Bytes), NEW i \in Nat, i <= Len(b)
  PROVE  DecodeVarint(b, i).x \in Nat
<1> VarintLen \in Nat
  BY WireAssumption
<1>1. ASSUME NEW n \in 1..VarintLen, Terminates(b, i, n) PROVE Groups(b, i, n) \in Nat
  BY <1>1, GroupsNat DEF Terminates
<1>2. decodeVarintSlow(b, i).x \in Nat /\ decodeVarintFast(b, i).x \in Nat
  <2>1. CASE \E n \in 1..VarintLen : Terminates(b, i, n)
    <3> DEFINE n == CHOOSE m \in 1..VarintLen : Terminates(b, i, m)
    <3>1. n \in 1..VarintLen /\ Terminates(b, i, n)
      BY <2>1
    <3>2. Groups(b, i, n) \in Nat
      BY <1>1, <3>1
    <3>3. /\ decodeVarintSlow(b, i).x \in {0, Groups(b, i, n)}
          /\ decodeVarintFast(b, i).x \in {0, Groups(b, i, n)}
      BY <2>1 DEF decodeVarintSlow, decodeVarintFast
    <3> QED
      BY <3>2, <3>3
  <2>2. CASE ~ \E n \in 1..VarintLen : Terminates(b, i, n)
    BY <2>2 DEF decodeVarintSlow, decodeVarintFast
  <2> QED
    BY <2>1, <2>2
<1>3. ASSUME i < Len(b) PROVE Byte(b, i) \in Nat
  BY <1>3, ByteFacts
<1> QED
  BY <1>2, <1>3 DEF DecodeVarint

\* A key, or the length of an item, at a position in the bytes.
LEMMA RawLengthFacts ==
  ASSUME NEW b \in Seq(Bytes), NEW i \in Nat, i < Len(b)
  PROVE  /\ RawLength(b, i).index \in Ahead(b, i)
         /\ RawLength(b, i).err = None => RawLength(b, i).index > i
         /\ RawLength(b, i).x \in Nat
<1>1. Byte(b, i) \in Nat
  BY ByteFacts
<1>2. ASSUME i + 1 < Len(b) PROVE Byte(b, i + 1) \in Nat
  <2>1. i + 1 \in Nat
    OBVIOUS
  <2> QED
    BY <1>2, <2>1, ByteFacts
<1>3. /\ DecodeVarint(b, i).index \in Ahead(b, i)
      /\ DecodeVarint(b, i).err = None => DecodeVarint(b, i).index > i
      /\ DecodeVarint(b, i).x \in Nat
  BY DecodeVarintFacts, DecodeVarintNat
<1>4. CASE Byte(b, i) < 128
  <2>1. RawLength(b, i) = Read(Byte(b, i), i + 1)
    BY <1>4, Zenon DEF RawLength
  <2>2. Byte(b, i) \in Nat /\ i + 1 \in Nat /\ i + 1 > i /\ i + 1 <= Len(b)
    BY <1>1
  <2> QED
    BY <2>1, <2>2 DEF Ahead
<1>5. CASE ~(Byte(b, i) < 128) /\ i + 1 < Len(b) /\ Byte(b, i + 1) < 128
  <2> DEFINE x == (Byte(b, i) - 128) + 128 * Byte(b, i + 1)
  <2>1. RawLength(b, i) = Read(x, i + 2)
    BY <1>5, Zenon DEF RawLength
  <2>2. x \in Nat
    <3>1. \A y, z \in Nat : ~(y < 128) => (y - 128) + 128 * z \in Nat
      OBVIOUS
    <3> QED
      BY <1>1, <1>2, <1>5, <3>1
  <2>3. i + 2 \in Nat /\ i + 2 > i /\ i + 2 <= Len(b)
    BY <1>5
  <2> HIDE DEF x
  <2> QED
    BY <2>1, <2>2, <2>3 DEF Ahead
<1>6. CASE ~(Byte(b, i) < 128) /\ ~(i + 1 < Len(b) /\ Byte(b, i + 1) < 128)
  BY <1>3, <1>6, Zenon DEF RawLength
<1> QED
  BY <1>4, <1>5, <1>6

-----------------------------------------------------------------------------
(* bytes on their own: what is read of them does not depend on those around *)

\* n bytes from i on in b, and from j on in c, are the same
Same(b, i, c, j, n) == i + n <= Len(b) /\ j + n <= Len(c) /\ \A k \in 0..(n - 1) : Byte(b, i + k) = Byte(c, j + k)

LEMMA GroupsSame ==
  ASSUME NEW b \in Seq(Bytes), NEW c \in Seq(Bytes), NEW i \in Nat, NEW j \in Nat, NEW n \in Nat, Same(b, i, c, j, n)
  PROVE  Groups(b, i, n) = Groups(c, j, n)
<1>1. i + n <= Len(b) /\ j + n <= Len(c)
  BY DEF Same
<1>2. PICK g \in [0..n -> Nat] : AreSums(b, i, n, g)
  BY <1>1, GroupsFrom
<1>3. PICK h \in [0..n -> Nat] : AreSums(c, j, n, h)
  BY <1>1, GroupsFrom
<1> DEFINE S == {k \in 0..n : g[k] = h[k]}
<1>4. n \in S
  BY <1>2, <1>3 DEF AreSums
<1>5. ASSUME NEW k \in 0..(n - 1), k + 1 \in S PROVE k \in S
  <2>1. k \in 0..n /\ k # n /\ g[k + 1] = h[k + 1] /\ Byte(b, i + k) = Byte(c, j + k)
    BY <1>5 DEF Same
  <2> QED
    BY <1>2, <1>3, <2>1 DEF AreSums
<1>6. \A k \in 0..(n - 1) : k + 1 \in S => k \in S
  BY <1>5
<1> HIDE DEF S
<1>7. 0..n \subseteq S
  BY <1>4, <1>6, Downwards
<1>8. 0 \in S
  BY <1>7
<1> QED
  BY <1>2, <1>3, <1>8 DEF S, AreSums

LEMMA TerminatesSame ==
  ASSUME NEW b \in Seq(Bytes), NEW c \in Seq(Bytes), NEW i \in Nat, NEW j \in Nat, NEW n \in Nat \ {0}, Same(b, i, c, j, n),
         Terminates(b, i, n)
  PROVE  Terminates(c, j, n) /\ (TooLarge(c, j, n) <=> TooLarge(b, i, n))
<1>1. \A k \in 0..(n - 1) : Byte(b, i + k) = Byte(c, j + k)
  BY DEF Same
<1>2. n - 1 \in 0..(n - 1) /\ i + (n - 1) = i + n - 1 /\ j + (n - 1) = j + n - 1 /\ 0..(n - 2) \subseteq 0..(n - 1)
  OBVIOUS
<1>3. Byte(b, i + n - 1) = Byte(c, j + n - 1)
  BY <1>1, <1>2
<1>4. \A k \in 0..(n - 2) : Byte(c, j + k) >= 128
  BY <1>1, <1>2 DEF Terminates
<1> QED
  BY <1>3, <1>4 DEF Terminates, TooLarge, Same

\* a varint has one end
LEMMA OneEnd ==
  ASSUME NEW b \in Seq(Bytes), NEW i \in Nat, NEW n \in Nat \ {0}, NEW m \in Nat \ {0}, Terminates(b, i, n), Terminates(b, i, m)
  PROVE  n = m
<1>1. ASSUME NEW k \in Nat \ {0}, NEW l \in Nat \ {0}, Terminates(b, i, k), Terminates(b, i, l), k < l PROVE FALSE
  <2>1. k - 1 \in 0..(l - 2) /\ i + (k - 1) = i + k - 1
    BY <1>1
  <2>2. Byte(b, i + (k - 1)) >= 128 /\ Byte(b, i + k - 1) < 128
    BY <1>1, <2>1 DEF Terminates
  <2>3. i + k - 1 \in Nat /\ i + k - 1 < Len(b)
    BY <1>1 DEF Terminates
  <2>4. Byte(b, i + k - 1) \in Nat
    BY <2>3, ByteFacts
  <2> QED
    BY <2>1, <2>2, <2>4
<1> QED
  BY <1>1

\* a varint of n bytes, which a word holds
Varint(b, i, n) == n \in 1..VarintLen /\ Terminates(b, i, n) /\ ~TooLarge(b, i, n)

\* All paths of DecodeVarint read it, and nothing else.
LEMMA VarintRead ==
  ASSUME NEW b \in Seq(Bytes), NEW i \in Nat, NEW n, Varint(b, i, n)
  PROVE  DecodeVarint(b, i) = Read(Groups(b, i, n), i + n)
<1>1. n \in Nat \ {0} /\ VarintLen \in Nat /\ n <= VarintLen /\ VarintLen >= 3
  BY WireAssumption DEF Varint
<1>2. Terminates(b, i, n) /\ ~TooLarge(b, i, n) /\ i + n <= Len(b) /\ i < Len(b)
  BY <1>1 DEF Varint, Terminates
<1>3. (CHOOSE m \in 1..VarintLen : Terminates(b, i, m)) = n
  <2> DEFINE l == CHOOSE m \in 1..VarintLen : Terminates(b, i, m)
  <2>1. l \in 1..VarintLen /\ Terminates(b, i, l)
    BY <1>2 DEF Varint
  <2> HIDE DEF l
  <2>2. l \in Nat \ {0}
    BY <1>1, <2>1
  <2>3. l = n
    BY <1>1, <1>2, <2>1, <2>2, OneEnd
  <2> QED
    BY <2>3 DEF l
<1>4. decodeVarintSlow(b, i) = Read(Groups(b, i, n), i + n)
  <2>1. \E m \in 1..VarintLen : Terminates(b, i, m)
    BY DEF Varint
  <2> QED
    BY <1>2, <1>3, <2>1 DEF decodeVarintSlow
<1>5. decodeVarintFast(b, i) = Read(Groups(b, i, n), i + n)
  <2>1. \E m \in 1..VarintLen : Terminates(b, i, m) /\ ~TooLarge(b, i, m)
    BY DEF Varint
  <2> QED
    BY <1>3, <2>1 DEF decodeVarintFast
<1>6. ASSUME Byte(b, i) < 128 PROVE n = 1 /\ Groups(b, i, n) = Byte(b, i)
  <2>1. Terminates(b, i, 1)
    BY <1>2, <1>6 DEF Terminates
  <2>2. n = 1
    BY <1>1, <1>2, <2>1, OneEnd
  <2>3. PICK g \in [0..1 -> Nat] : AreSums(b, i, 1, g)
    BY <1>2, <2>2, GroupsFrom
  <2>4. g[1] = 0 /\ g[0] = (Byte(b, i + 0) % 128) + 128 * g[0 + 1]
    BY <2>3 DEF AreSums
  <2>5. Byte(b, i) \in Nat /\ Byte(b, i + 0) = Byte(b, i)
    BY <1>2, ByteFacts
  <2>6. \A x \in Nat : x < 128 => x % 128 = x
    OBVIOUS
  <2>7. Byte(b, i) % 128 = Byte(b, i)
    BY <1>6, <2>5, <2>6
  <2> QED
    BY <2>2, <2>3, <2>4, <2>5, <2>7 DEF AreSums
<1>7. ~(i >= Len(b))
  BY <1>2
<1> QED
  BY <1>4, <1>5, <1>6, <1>7, Zenon DEF DecodeVarint

LEMMA VarintFound ==
  ASSUME NEW b \in Seq(Bytes), NEW i \in Nat, i <= Len(b), DecodeVarint(b, i).err = None
  PROVE  \E n : Varint(b, i, n)
<1>1. VarintLen \in Nat /\ VarintLen >= 3
  BY WireAssumption
<1>2. i < Len(b)
  BY DEF DecodeVarint
<1>3. CASE Byte(b, i) < 128
  <2>1. Varint(b, i, 1)
    BY <1>1, <1>2, <1>3 DEF Varint, Terminates, TooLarge
  <2> QED
    BY <2>1
<1>4. CASE ~(Byte(b, i) < 128)
  <2>1. DecodeVarint(b, i) \in {decodeVarintSlow(b, i), decodeVarintFast(b, i)}
    BY <1>2, <1>4 DEF DecodeVarint
  <2>2. ASSUME decodeVarintSlow(b, i).err = None PROVE \E n : Varint(b, i, n)
    <3>1. \E m \in 1..VarintLen : Terminates(b, i, m)
      BY <2>2 DEF decodeVarintSlow
    <3> DEFINE n == CHOOSE m \in 1..VarintLen : Terminates(b, i, m)
    <3>2. n \in 1..VarintLen /\ Terminates(b, i, n)
      BY <3>1
    <3>3. ~TooLarge(b, i, n)
      BY <2>2, <3>1 DEF decodeVarintSlow
    <3> QED
      BY <3>2, <3>3 DEF Varint
  <2>3. ASSUME decodeVarintFast(b, i).err = None PROVE \E n : Varint(b, i, n)
    BY <2>3 DEF decodeVarintFast, Varint
  <2> QED
    BY <2>1, <2>2, <2>3
<1> QED
  BY <1>3, <1>4

\* c is the bytes of b from at to end
Piece(b, at, end, c) == at \in Nat /\ end \in Nat /\ at <= end /\ end <= Len(b) /\ c = SubSeq(b, at + 1, end)

LEMMA PieceFacts ==
  ASSUME NEW b \in Seq(Bytes), NEW at, NEW end, NEW c, Piece(b, at, end, c)
  PROVE  /\ c \in Seq(Bytes) /\ Len(c) = end - at
         /\ \A k \in 0..(end - at - 1) : Byte(c, k) = Byte(b, at + k)
<1>1. at \in Nat /\ end \in Nat /\ at <= end /\ end <= Len(b) /\ c = SubSeq(b, at + 1, end)
  BY DEF Piece
<1>2. c \in Seq(Bytes) /\ Len(c) = end - at
  BY <1>1
<1>3. ASSUME NEW k \in 0..(end - at - 1) PROVE c[k + 1] = b[at + k + 1]
  <2>1. k + 1 \in 1..Len(c) /\ (at + 1) + (k + 1) - 1 = at + k + 1
    BY <1>1, <1>2
  <2> QED
    BY <1>1, <2>1
<1> QED
  BY <1>2, <1>3 DEF Byte

LEMMA PieceSame ==
  ASSUME NEW b \in Seq(Bytes), NEW at, NEW end, NEW c, Piece(b, at, end, c),
         NEW i \in Nat, NEW n \in Nat, at <= i, i + n <= end
  PROVE  i - at \in Nat /\ Same(b, i, c, i - at, n)
<1>1. at \in Nat /\ end \in Nat /\ end <= Len(b) /\ Len(b) \in Nat
  BY DEF Piece
<1>2. Len(c) = end - at /\ \A k \in 0..(end - at - 1) : Byte(c, k) = Byte(b, at + k)
  BY PieceFacts
<1>3. ASSUME NEW k \in 0..(n - 1) PROVE Byte(b, i + k) = Byte(c, i - at + k)
  <2>1. i - at + k \in 0..(end - at - 1) /\ at + (i - at + k) = i + k
    BY <1>1
  <2> QED
    BY <1>2, <2>1
<1> QED
  BY <1>1, <1>2, <1>3 DEF Same

\* A varint that lies in a piece is read from it as from all of the bytes, although DecodeVarint may
\* take another path.
LEMMA DecodeVarintAlone ==
  ASSUME NEW b \in Seq(Bytes), NEW at, NEW end, NEW c, Piece(b, at, end, c), NEW i \in Nat, at <= i, i <= end,
         DecodeVarint(b, i).err = None, DecodeVarint(b, i).index <= end
  PROVE  DecodeVarint(c, i - at) = Read(DecodeVarint(b, i).x, DecodeVarint(b, i).index - at)
<1>1. at \in Nat /\ end \in Nat /\ i <= Len(b) /\ c \in Seq(Bytes) /\ i - at \in Nat
  BY PieceFacts DEF Piece
<1>2. PICK n : Varint(b, i, n)
  BY <1>1, VarintFound
<1>3. DecodeVarint(b, i) = Read(Groups(b, i, n), i + n)
  BY <1>2, VarintRead
<1>4. n \in Nat \ {0} /\ i + n <= end
  BY <1>2, <1>3, WireAssumption DEF Varint
<1>5. Same(b, i, c, i - at, n)
  BY <1>1, <1>4, PieceSame
<1>6. Groups(c, i - at, n) = Groups(b, i, n)
  BY <1>1, <1>4, <1>5, GroupsSame
<1>7. Varint(c, i - at, n)
  BY <1>1, <1>2, <1>4, <1>5, TerminatesSame DEF Varint
<1>8. DecodeVarint(c, i - at) = Read(Groups(c, i - at, n), i - at + n)
  BY <1>1, <1>7, VarintRead
<1>9. i - at + n = i + n - at
  BY <1>1, <1>4
<1>10. DecodeVarint(b, i).x = Groups(b, i, n) /\ DecodeVarint(b, i).index = i + n
  BY <1>3
<1>11. Groups(c, i - at, n) = DecodeVarint(b, i).x
  BY <1>6, <1>10
<1>12. i - at + n = DecodeVarint(b, i).index - at
  BY <1>1, <1>4, <1>10
<1> QED
  BY <1>8, <1>11, <1>12

LEMMA SkipVarintAlone ==
  ASSUME NEW b \in Seq(Bytes), NEW at, NEW end, NEW c, Piece(b, at, end, c), NEW i \in Nat, at <= i, i <= end,
         SkipVarint(b, i).err = None, SkipVarint(b, i).index = end
  PROVE  SkipVarint(c, i - at) = Read(0, end - at)
<1>1. at \in Nat /\ end \in Nat /\ i <= Len(b) /\ c \in Seq(Bytes) /\ Len(c) = end - at /\ i - at \in Nat /\ end <= Len(b)
  BY PieceFacts DEF Piece
<1>2. PICK n \in 1..(Len(b) - i) : Terminates(b, i, n) /\ SkipVarint(b, i) = Read(0, i + n)
  <2>1. \E n \in 1..(Len(b) - i) : Terminates(b, i, n)
    BY DEF SkipVarint
  <2> QED
    BY <2>1 DEF SkipVarint
<1>3. n \in Nat \ {0} /\ i + n = end /\ n \in 1..(Len(c) - (i - at))
  BY <1>1, <1>2
<1>4. Same(b, i, c, i - at, n)
  <2>1. n \in Nat /\ i + n <= end
    BY <1>1, <1>3
  <2> QED
    BY <2>1, PieceSame
<1>5. Terminates(c, i - at, n)
  BY <1>1, <1>2, <1>3, <1>4, TerminatesSame
<1> DEFINE l == CHOOSE m \in 1..(Len(c) - (i - at)) : Terminates(c, i - at, m)
<1>6. l \in 1..(Len(c) - (i - at)) /\ Terminates(c, i - at, l)
  BY <1>3, <1>5
<1>7. SkipVarint(c, i - at) = Read(0, i - at + l)
  BY <1>3, <1>5 DEF SkipVarint
<1> HIDE DEF l
<1>8. l \in Nat \ {0}
  BY <1>1, <1>6
<1>9. l = n
  BY <1>1, <1>3, <1>5, <1>6, <1>8, OneEnd
<1>10. i - at + l = end - at
  BY <1>1, <1>3, <1>9
<1> QED
  BY <1>7, <1>10

-----------------------------------------------------------------------------
(* sums that do not wrap around *)

\* A sum of a position and a length that is no smaller than the position has not wrapped around.
LEMMA Unwrapped ==
  ASSUME NEW i \in Nat, NEW k \in Nat, k < Word, (i + k) % Word >= i
  PROVE  (i + k) % Word = i + k /\ i + k < Word
<1>1. Word \in Nat /\ Word > 8
  BY WireAssumption
<1>2. (i + k) % Word \in 0..(Word - 1)
  BY <1>1
<1>3. CASE i + k < Word
  <2>1. \A x \in Nat, w \in Nat : x < w => x % w = x
    OBVIOUS
  <2> QED
    BY <1>1, <1>3, <2>1
<1>4. CASE i + k >= Word
  <2>1. i < Word
    BY <1>1, <1>2
  <2>2. i + k - Word \in 0..(Word - 1)
    BY <1>1, <1>4, <2>1
  <2>3. (i + k) % Word = i + k - Word
    <3>1. \A x \in Nat, w \in Nat \ {0} : x - w \in 0..(w - 1) => x % w = x - w
      OBVIOUS
    <3> QED
      BY <1>1, <2>2, <3>1
  <2> QED
    BY <1>1, <2>3
<1> QED
  BY <1>1, <1>3, <1>4

LEMMA Small ==
  ASSUME NEW x \in Nat, x < Word
  PROVE  x % Word = x
BY WireAssumption

-----------------------------------------------------------------------------
(* items on their own *)

LEMMA RawLengthAlone ==
  ASSUME NEW b \in Seq(Bytes), NEW at, NEW end, NEW c, Piece(b, at, end, c), NEW i \in Nat, at <= i, i < end,
         RawLength(b, i).err = None, RawLength(b, i).index <= end
  PROVE  RawLength(c, i - at) = Read(RawLength(b, i).x, RawLength(b, i).index - at)
<1>1. at \in Nat /\ end \in Nat /\ i < Len(b) /\ i - at \in Nat /\ Len(c) = end - at /\ end <= Len(b) /\ Len(b) \in Nat
  BY PieceFacts DEF Piece
<1>2. Byte(c, i - at) = Byte(b, i)
  <2>1. i - at \in 0..(end - at - 1) /\ at + (i - at) = i
    BY <1>1
  <2> QED
    BY <2>1, PieceFacts
<1>3. ASSUME i + 1 < end PROVE Byte(c, i - at + 1) = Byte(b, i + 1)
  <2>1. i - at + 1 \in 0..(end - at - 1) /\ at + (i - at + 1) = i + 1
    BY <1>1, <1>3
  <2> QED
    BY <2>1, PieceFacts
<1>4. i - at + 1 < Len(c) <=> i + 1 < end
  BY <1>1
<1>5. CASE Byte(b, i) < 128
  <2>1. RawLength(b, i) = Read(Byte(b, i), i + 1) /\ RawLength(c, i - at) = Read(Byte(c, i - at), i - at + 1)
    BY <1>2, <1>5 DEF RawLength
  <2>2. RawLength(b, i).x = Byte(b, i) /\ RawLength(b, i).index = i + 1
    BY <2>1
  <2>3. i - at + 1 = RawLength(b, i).index - at
    BY <1>1, <2>2
  <2> QED
    BY <1>2, <2>1, <2>2, <2>3
<1>6. CASE ~(Byte(b, i) < 128) /\ i + 1 < Len(b) /\ Byte(b, i + 1) < 128
  <2> DEFINE x == (Byte(b, i) - 128) + 128 * Byte(b, i + 1)
  <2>1. RawLength(b, i) = Read(x, i + 2)
    BY <1>6, Zenon DEF RawLength
  <2>2. RawLength(b, i).x = x /\ RawLength(b, i).index = i + 2
    BY <2>1
  <2>3. i + 1 < end
    BY <1>1, <2>2
  <2>4. RawLength(c, i - at) = Read((Byte(c, i - at) - 128) + 128 * Byte(c, i - at + 1), i - at + 2)
    BY <1>2, <1>3, <1>4, <1>6, <2>3, Zenon DEF RawLength
  <2>5. RawLength(c, i - at) = Read(x, i - at + 2)
    BY <1>2, <1>3, <2>3, <2>4, Zenon
  <2>6. i - at + 2 = RawLength(b, i).index - at
    BY <1>1, <2>2
  <2> HIDE DEF x
  <2> QED
    BY <2>2, <2>5, <2>6
<1>7. CASE ~(Byte(b, i) < 128) /\ ~(i + 1 < Len(b) /\ Byte(b, i + 1) < 128)
  <2>1. RawLength(b, i) = DecodeVarint(b, i)
    BY <1>7, Zenon DEF RawLength
  <2>2. ~(i - at + 1 < Len(c) /\ Byte(c, i - at + 1) < 128)
    <3>1. i + 1 < end => i + 1 < Len(b)
      BY <1>1
    <3> QED
      BY <1>3, <1>4, <1>7, <3>1
  <2>3. RawLength(c, i - at) = DecodeVarint(c, i - at)
    BY <1>2, <1>7, <2>2, Zenon DEF RawLength
  <2>4. DecodeVarint(b, i).err = None /\ DecodeVarint(b, i).index <= end /\ i <= end
    BY <1>1, <2>1
  <2>5. DecodeVarint(c, i - at) = Read(DecodeVarint(b, i).x, DecodeVarint(b, i).index - at)
    BY <2>4, DecodeVarintAlone
  <2> QED
    BY <2>1, <2>3, <2>5, Zenon
<1> QED
  BY <1>5, <1>6, <1>7

LEMMA DecodeRawBytesAlone ==
  ASSUME NEW b \in Seq(Bytes), NEW at, NEW end, NEW c, Piece(b, at, end, c), NEW i \in Nat, at <= i, i <= end,
         DecodeRawBytes(b, i).err = None, DecodeRawBytes(b, i).index = end
  PROVE  DecodeRawBytes(c, i - at) = Read(DecodeRawBytes(b, i).x - at, end - at)
<1> DEFINE n == RawLength(b, i)
           m == RawLength(c, i - at)
<1>1. at \in Nat /\ end \in Nat /\ i - at \in Nat /\ Len(c) = end - at /\ end <= Len(b) /\ Len(b) \in Nat
  BY PieceFacts DEF Piece
<1>2. ~(i >= Len(b))
  BY DEF DecodeRawBytes
<1>3. n.index \in Nat /\ n.x \in Nat /\ i <= n.index /\ (n.err = None => n.index > i)
  BY <1>2, RawLengthFacts DEF Ahead
<1>4. n.err = None /\ n.x \in 0..(Word - 1) /\ SliceEnds(b, n.index, (n.index + n.x) % Word)
  BY <1>2 DEF DecodeRawBytes
<1>5. DecodeRawBytes(b, i) = Read(n.index, (n.index + n.x) % Word)
  BY <1>2, <1>4 DEF DecodeRawBytes
<1> HIDE DEF n, m
<1>6. (n.index + n.x) % Word = end /\ DecodeRawBytes(b, i).x = n.index
  BY <1>5
<1>7. end = n.index + n.x /\ end < Word
  <2>1. n.x < Word /\ (n.index + n.x) % Word >= n.index
    BY <1>3, <1>4, WireAssumption DEF SliceEnds
  <2> QED
    BY <1>3, <1>6, <2>1, Unwrapped
<1>8. i < end /\ n.index <= end
  BY <1>3, <1>4, <1>7
<1>9. m = Read(n.x, n.index - at)
  BY <1>4, <1>8, RawLengthAlone DEF n, m
<1>10. m.x = n.x /\ m.index = n.index - at /\ m.err = None
  BY <1>9
<1>11. (m.index + m.x) % Word = end - at
  <2>1. m.index + m.x = end - at /\ end - at \in Nat /\ end - at < Word
    BY <1>1, <1>3, <1>7, <1>10, WireAssumption
  <2> QED
    BY <2>1, Small
<1>12. SliceEnds(c, m.index, (m.index + m.x) % Word)
  BY <1>1, <1>3, <1>8, <1>10, <1>11 DEF SliceEnds
<1>13. ~(i - at >= Len(c))
  BY <1>1, <1>8
<1>14. DecodeRawBytes(c, i - at) = Read(m.index, (m.index + m.x) % Word)
  BY <1>4, <1>10, <1>12, <1>13 DEF DecodeRawBytes, m
<1> QED
  BY <1>6, <1>10, <1>11, <1>14

LEMMA SkipFixedAlone ==
  ASSUME NEW b \in Seq(Bytes), NEW at, NEW end, NEW c, Piece(b, at, end, c), NEW i \in Nat, at <= i, i <= end,
         NEW k \in Nat, k < Word, SkipFixed(b, i, k).err = None, SkipFixed(b, i, k).index = end
  PROVE  SkipFixed(c, i - at, k) = Read(0, end - at)
<1>1. at \in Nat /\ end \in Nat /\ i - at \in Nat /\ Len(c) = end - at /\ Word \in Nat
  BY PieceFacts, WireAssumption DEF Piece
<1>2. (i + k) % Word = end /\ ~(end < i)
  BY DEF SkipFixed
<1>3. end = i + k /\ end < Word
  BY <1>1, <1>2, Unwrapped
<1>4. (i - at + k) % Word = end - at
  <2>1. i - at + k = end - at /\ end - at \in Nat /\ end - at < Word
    BY <1>1, <1>3
  <2> QED
    BY <2>1, Small
<1>5. ~(end - at < i - at) /\ ~(end - at > Len(c))
  BY <1>1, <1>3
<1> QED
  BY <1>4, <1>5 DEF SkipFixed

\* The value of an item that ends where a piece ends is skipped in the piece in the same way.
LEMMA SkipAlone ==
  ASSUME NEW b \in Seq(Bytes), NEW at, NEW end, NEW c, Piece(b, at, end, c), NEW i \in Nat, at <= i, i <= end,
         NEW wire, skip(b, i, wire).err = None, skip(b, i, wire).index = end
  PROVE  /\ skip(c, i - at, wire).err = None
         /\ skip(c, i - at, wire).index = end - at
         /\ wire = WireBytes => skip(c, i - at, wire).x = skip(b, i, wire).x - at
<1> USE DEF WireVarint, WireBytes, WireFixed64, WireFixed32
<1>1. CASE wire = WireVarint
  <2>1. skip(b, i, wire) = SkipVarint(b, i) /\ skip(c, i - at, wire) = SkipVarint(c, i - at)
    BY <1>1 DEF skip
  <2>2. SkipVarint(c, i - at) = Read(0, end - at)
    BY <2>1, SkipVarintAlone
  <2> QED
    BY <1>1, <2>1, <2>2
<1>2. CASE wire = WireBytes
  <2>1. skip(b, i, wire) = DecodeRawBytes(b, i) /\ skip(c, i - at, wire) = DecodeRawBytes(c, i - at)
    BY <1>2 DEF skip
  <2>2. DecodeRawBytes(c, i - at) = Read(DecodeRawBytes(b, i).x - at, end - at)
    BY <2>1, DecodeRawBytesAlone
  <2> QED
    BY <2>1, <2>2
<1>3. ASSUME NEW k \in {4, 8}, skip(b, i, wire) = SkipFixed(b, i, k), skip(c, i - at, wire) = SkipFixed(c, i - at, k),
             wire # WireBytes
      PROVE  skip(c, i - at, wire).err = None /\ skip(c, i - at, wire).index = end - at
  <2>1. k \in Nat /\ k < Word
    BY WireAssumption
  <2>2. SkipFixed(c, i - at, k) = Read(0, end - at)
    BY <1>3, <2>1, SkipFixedAlone
  <2> QED
    BY <1>3, <2>2
<1>4. CASE wire = WireFixed64
  BY <1>3, <1>4 DEF skip
<1>5. CASE wire = WireFixed32
  BY <1>3, <1>5 DEF skip
<1>6. CASE wire \notin {WireVarint, WireBytes, WireFixed64, WireFixed32}
  BY <1>6 DEF skip
<1> QED
  BY <1>1, <1>2, <1>4, <1>5, <1>6
-----------------------------------------------------------------------------
(* the grammar of messages, and what the primitives read *)

Grammar == INSTANCE MessageGrammar

\* the bytes between two positions
Between(b, i, j) == SubSeq(b, i + 1, j)

LEMMA BetweenFacts ==
  ASSUME NEW b \in Seq(Bytes), NEW i \in Nat, NEW j \in Nat, i <= j, j <= Len(b)
  PROVE  /\ Between(b, i, j) \in Seq(Bytes) /\ Len(Between(b, i, j)) = j - i
         /\ \A k \in 1..(j - i) : Between(b, i, j)[k] = b[i + k]
<1>1. i + 1 \in Int /\ j \in Int /\ Len(b) \in Nat /\ \A k \in (i + 1)..j : b[k] \in Bytes
  OBVIOUS
<1>2. /\ SubSeq(b, i + 1, j) \in Seq(Bytes)
      /\ Len(SubSeq(b, i + 1, j)) = IF i + 1 <= j THEN j - (i + 1) + 1 ELSE 0
      /\ \A k \in 1..(j - (i + 1) + 1) : SubSeq(b, i + 1, j)[k] = b[(i + 1) + k - 1]
  BY <1>1, SubSeqProperties
<1>3. j - (i + 1) + 1 = j - i /\ (IF i + 1 <= j THEN j - (i + 1) + 1 ELSE 0) = j - i
  OBVIOUS
<1>4. \A k \in 1..(j - i) : (i + 1) + k - 1 = i + k
  OBVIOUS
<1> QED
  BY <1>2, <1>3, <1>4 DEF Between

LEMMA AheadFacts ==
  ASSUME NEW b \in Seq(Bytes), NEW i \in Nat, NEW n \in Nat, i + n <= Len(b)
  PROVE  /\ Between(b, i, i + n) \in Seq(Bytes) /\ Len(Between(b, i, i + n)) = n
         /\ \A k \in 1..n : Between(b, i, i + n)[k] = b[i + k]
<1> DEFINE j == i + n
<1>1. j \in Nat /\ i <= j /\ j <= Len(b) /\ j - i = n
  OBVIOUS
<1> HIDE DEF j
<1>2. /\ Between(b, i, j) \in Seq(Bytes) /\ Len(Between(b, i, j)) = j - i
      /\ \A k \in 1..(j - i) : Between(b, i, j)[k] = b[i + k]
  BY <1>1, BetweenFacts
<1> QED
  BY <1>1, <1>2 DEF j

\* the start and the rest of bytes that lie between two positions
LEMMA PartsBetween ==
  ASSUME NEW b \in Seq(Bytes), NEW i \in Nat, NEW j \in Nat, i <= j, j <= Len(b), NEW n \in 0..(j - i)
  PROVE  /\ Grammar!Prefix(Between(b, i, j), n) = Between(b, i, i + n)
         /\ Grammar!Rest(Between(b, i, j), n) = Between(b, i + n, j)
<1> DEFINE s == Between(b, i, j)
<1>1. s \in Seq(Bytes) /\ Len(s) = j - i /\ \A k \in 1..(j - i) : s[k] = b[i + k]
  BY BetweenFacts
<1>2. i + n \in Nat /\ i + n <= j /\ i <= i + n /\ n \in Nat /\ n <= Len(s) /\ Len(s) \in Nat /\ 0 <= n /\ Len(s) <= Len(s)
      /\ i + n <= Len(b) /\ 0 \in Nat
  BY <1>1
<1> HIDE DEF s
<1>3. /\ Between(s, 0, n) \in Seq(Bytes) /\ Len(Between(s, 0, n)) = n - 0
      /\ \A k \in 1..(n - 0) : Between(s, 0, n)[k] = s[0 + k]
  BY <1>1, <1>2, BetweenFacts
<1>4. /\ Between(s, n, Len(s)) \in Seq(Bytes) /\ Len(Between(s, n, Len(s))) = Len(s) - n
      /\ \A k \in 1..(Len(s) - n) : Between(s, n, Len(s))[k] = s[n + k]
  BY <1>1, <1>2, BetweenFacts
<1>5. /\ Between(b, i, i + n) \in Seq(Bytes) /\ Len(Between(b, i, i + n)) = n
      /\ \A k \in 1..n : Between(b, i, i + n)[k] = b[i + k]
  BY <1>2, AheadFacts
<1>6. /\ Between(b, i + n, j) \in Seq(Bytes) /\ Len(Between(b, i + n, j)) = j - (i + n)
      /\ \A k \in 1..(j - (i + n)) : Between(b, i + n, j)[k] = b[i + n + k]
  BY <1>2, BetweenFacts
<1>7. Between(s, 0, n) = Between(b, i, i + n)
  <2>1. n - 0 = n
    BY <1>2
  <2>2. \A k \in 1..n : Between(s, 0, n)[k] = Between(b, i, i + n)[k]
    <3> TAKE k \in 1..n
    <3>1. k \in 1..(j - i) /\ 0 + k = k
      BY <1>1, <1>2
    <3> QED
      BY <1>1, <1>3, <1>5, <2>1, <3>1
  <2> QED
    BY <1>3, <1>5, <2>1, <2>2, SeqEqual
<1>8. Between(s, n, Len(s)) = Between(b, i + n, j)
  <2>1. Len(s) - n = j - (i + n)
    BY <1>1, <1>2
  <2>2. \A k \in 1..(j - (i + n)) : Between(s, n, Len(s))[k] = Between(b, i + n, j)[k]
    <3> TAKE k \in 1..(j - (i + n))
    <3>1. n + k \in 1..(j - i) /\ i + (n + k) = i + n + k
      BY <1>1, <1>2
    <3> QED
      BY <1>1, <1>4, <1>6, <2>1, <3>1
  <2> QED
    BY <1>4, <1>6, <2>1, <2>2, SeqEqual
<1> QED
  BY <1>7, <1>8 DEF s, Between, Grammar!Prefix, Grammar!Rest

LEMMA NumeralBetween ==
  ASSUME NEW b \in Seq(Bytes), NEW i \in Nat, NEW n \in Nat \ {0}, i + n <= Len(b)
  PROVE  Grammar!IsNumeral(Between(b, i, i + n)) <=> Terminates(b, i, n)
<1> DEFINE s == Between(b, i, i + n)
<1>1. /\ s \in Seq(Bytes) /\ Len(s) = n
      /\ \A k \in 1..n : s[k] = b[i + k]
  BY AheadFacts
<1> HIDE DEF s
<1>2. s # <<>> /\ s[Len(s)] = Byte(b, i + n - 1)
  <2>1. n \in 1..n /\ i + n - 1 + 1 = i + n
    OBVIOUS
  <2> QED
    BY <1>1, <2>1 DEF Byte
<1>3. (\A k \in 1..(n - 1) : s[k] >= 128) <=> \A k \in 0..(n - 2) : Byte(b, i + k) >= 128
  <2>1. ASSUME \A k \in 1..(n - 1) : s[k] >= 128, NEW k \in 0..(n - 2) PROVE Byte(b, i + k) >= 128
    <3>1. k + 1 \in 1..(n - 1) /\ k + 1 \in 1..n /\ i + (k + 1) = i + k + 1
      OBVIOUS
    <3> QED
      BY <1>1, <2>1, <3>1 DEF Byte
  <2>2. ASSUME \A k \in 0..(n - 2) : Byte(b, i + k) >= 128, NEW k \in 1..(n - 1) PROVE s[k] >= 128
    <3>1. k - 1 \in 0..(n - 2) /\ k \in 1..n /\ i + (k - 1) + 1 = i + k
      OBVIOUS
    <3> QED
      BY <1>1, <2>2, <3>1 DEF Byte
  <2> QED
    BY <2>1, <2>2
<1> QED
  BY <1>1, <1>2, <1>3 DEF Grammar!IsNumeral, Terminates, s

LEMMA VarintBetween ==
  ASSUME NEW b \in Seq(Bytes), NEW i \in Nat, NEW n \in Nat \ {0}, i + n <= Len(b)
  PROVE  Grammar!IsVarint(Between(b, i, i + n)) <=> Varint(b, i, n)
<1> DEFINE s == Between(b, i, i + n)
<1>1. /\ s \in Seq(Bytes) /\ Len(s) = n
      /\ \A k \in 1..n : s[k] = b[i + k]
  BY AheadFacts
<1>2. Grammar!IsNumeral(s) <=> Terminates(b, i, n)
  BY NumeralBetween
<1> HIDE DEF s
<1>3. s[Len(s)] = Byte(b, i + n - 1) /\ Byte(b, i + n - 1) \in Nat
  <2>1. n \in 1..n /\ i + n - 1 + 1 = i + n /\ i + n - 1 \in Nat /\ i + n - 1 < Len(b)
    OBVIOUS
  <2> QED
    BY <1>1, <2>1, ByteFacts DEF Byte
<1>4. VarintLen \in Nat /\ LastLimit \in Nat
  BY WireAssumption
<1>5. (Len(s) < VarintLen \/ (Len(s) = VarintLen /\ s[Len(s)] < LastLimit)) <=> (n \in 1..VarintLen /\ ~TooLarge(b, i, n))
  BY <1>1, <1>3, <1>4 DEF TooLarge
<1> QED
  BY <1>2, <1>5 DEF Grammar!IsVarint, Varint, s

LEMMA ValueBetween ==
  ASSUME NEW b \in Seq(Bytes), NEW i \in Nat, NEW n \in Nat, i + n <= Len(b)
  PROVE  Grammar!ValueOf(Between(b, i, i + n)) = Groups(b, i, n)
<1> DEFINE s == Between(b, i, i + n)
           Step(f, k) == IF k > Len(s) THEN 0 ELSE (s[k] % 128) + 128 * f[k + 1]
           Def(f) == f = [k \in 1..(Len(s) + 1) |-> Step(f, k)]
           From == CHOOSE f : Def(f)
<1>1. /\ s \in Seq(Bytes) /\ Len(s) = n
      /\ \A k \in 1..n : s[k] = b[i + k]
  BY AheadFacts
<1>2. Grammar!ValueOf(s) = From[1]
  BY DEF Grammar!ValueOf
<1> HIDE DEF s
<1>3. PICK g \in [0..n -> Nat] : AreSums(b, i, n, g)
  BY GroupsFrom
<1> DEFINE h == [k \in 1..(n + 1) |-> g[k - 1]]
<1>4. ASSUME NEW k \in 1..(n + 1) PROVE h[k] = Step(h, k)
  <2>1. k - 1 \in 0..n /\ h[k] = g[k - 1]
    OBVIOUS
  <2>2. CASE k = n + 1
    BY <1>1, <1>3, <2>1, <2>2 DEF AreSums
  <2>3. CASE k # n + 1
    <3>1. k \in 1..n /\ k + 1 \in 1..(n + 1) /\ (k + 1) - 1 = (k - 1) + 1 /\ k - 1 # n /\ i + (k - 1) + 1 = i + k
      BY <2>3
    <3>2. g[k - 1] = (Byte(b, i + (k - 1)) % 128) + 128 * g[(k - 1) + 1]
      BY <1>3, <2>1, <3>1 DEF AreSums
    <3>3. Byte(b, i + (k - 1)) = s[k] /\ h[k + 1] = g[(k - 1) + 1]
      BY <1>1, <3>1 DEF Byte
    <3>4. ~(k > Len(s))
      BY <1>1, <3>1
    <3> QED
      BY <2>1, <3>2, <3>3, <3>4
  <2> QED
    BY <2>2, <2>3
<1>5. Def(h)
  BY <1>1, <1>4
<1>6. Def(From)
  BY <1>5
<1> HIDE DEF From, h
<1>7. \A k \in 1..(n + 1) : From[k] = Step(From, k) /\ h[k] = Step(h, k)
  BY <1>1, <1>4, <1>6
<1> DEFINE T == {m \in 0..n : From[m + 1] = h[m + 1]}
<1>8. n \in T
  BY <1>1, <1>7
<1>9. ASSUME NEW m \in 0..(n - 1), m + 1 \in T PROVE m \in T
  <2>1. From[m + 2] = h[m + 2] /\ m + 1 \in 1..(n + 1) /\ (m + 1) + 1 = m + 2
    BY <1>9
  <2> QED
    BY <1>7, <2>1
<1> HIDE DEF T
<1>10. 0 \in T
  BY <1>8, <1>9, Downwards
<1>11. From[1] = h[1] /\ h[1] = g[0]
  BY <1>10 DEF T, h
<1> QED
  BY <1>2, <1>3, <1>11 DEF AreSums, s

\* a number of two bytes, which DecodeRawBytes reads in place
LEMMA TwoGroups ==
  ASSUME NEW b \in Seq(Bytes), NEW i \in Nat, i + 1 < Len(b), ~(Byte(b, i) < 128), Byte(b, i + 1) < 128
  PROVE  Varint(b, i, 2) /\ Groups(b, i, 2) = (Byte(b, i) - 128) + 128 * Byte(b, i + 1)
<1>1. VarintLen \in Nat /\ VarintLen >= 3
  BY WireAssumption
<1> DEFINE x == Byte(b, i)
           y == Byte(b, i + 1)
<1>2. x \in 128..255 /\ y \in 0..127
  <2>1. i + 1 \in 1..Len(b) /\ (i + 1) + 1 \in 1..Len(b)
    OBVIOUS
  <2>2. Byte(b, i) \in Bytes /\ Byte(b, i + 1) \in Bytes
    BY <2>1 DEF Byte
  <2>3. x \in 0..255 /\ ~(x < 128) /\ y \in 0..255 /\ y < 128
    BY <2>2 DEF Bytes
  <2> HIDE DEF x, y
  <2> QED
    BY <2>3
<1>3. Varint(b, i, 2)
  <2>1. i + 2 <= Len(b) /\ i + 2 - 1 = i + 1 /\ 2 \in 1..VarintLen /\ 2 # VarintLen
    BY <1>1
  <2>2. \A k \in 0..(2 - 2) : Byte(b, i + k) >= 128
    <3> TAKE k \in 0..(2 - 2)
    <3>1. i + k = i
      OBVIOUS
    <3> HIDE DEF x
    <3>2. x >= 128
      BY <1>2
    <3> QED
      BY <3>1, <3>2, Zenon DEF x
  <2> QED
    BY <2>1, <2>2 DEF Varint, Terminates, TooLarge
<1>4. PICK g \in [0..2 -> Nat] : AreSums(b, i, 2, g)
  <2>1. i + 2 <= Len(b)
    OBVIOUS
  <2> QED
    BY <2>1, GroupsFrom
<1>5. /\ g[0] = (Byte(b, i + 0) % 128) + 128 * g[0 + 1]
      /\ g[1] = (Byte(b, i + 1) % 128) + 128 * g[1 + 1]
      /\ g[2] = 0 /\ Groups(b, i, 2) = g[0]
  BY <1>4 DEF AreSums
<1>6. i + 0 = i /\ 0 + 1 = 1 /\ 1 + 1 = 2
  OBVIOUS
<1>7. g[0] = (x % 128) + 128 * g[1] /\ g[1] = (y % 128) + 128 * 0
  BY <1>5, <1>6, Zenon
<1> HIDE DEF x, y
<1>8. x % 128 = x - 128 /\ y % 128 = y /\ y + 128 * 0 = y
  BY <1>2
<1>9. g[0] = (x - 128) + 128 * y
  BY <1>7, <1>8
<1> QED
  BY <1>3, <1>5, <1>9 DEF x, y

\* A length is read as a varint is, whichever way.
LEMMA RawLengthReads ==
  ASSUME NEW b \in Seq(Bytes), NEW i \in Nat, i < Len(b)
  PROVE  /\ RawLength(b, i).err = None <=> \E n : Varint(b, i, n)
         /\ \A n : Varint(b, i, n) => RawLength(b, i) = Read(Groups(b, i, n), i + n)
<1>1. VarintLen \in Nat /\ VarintLen >= 3
  BY WireAssumption
<1>2. ASSUME NEW n, NEW m, Varint(b, i, n), Varint(b, i, m) PROVE n = m
  BY <1>1, <1>2, OneEnd DEF Varint
<1>3. CASE Byte(b, i) < 128
  <2>1. Varint(b, i, 1)
    BY <1>1, <1>3 DEF Varint, Terminates, TooLarge
  <2>2. DecodeVarint(b, i) = Read(Byte(b, i), i + 1) /\ RawLength(b, i) = Read(Byte(b, i), i + 1)
    <3>1. ~(i >= Len(b))
      OBVIOUS
    <3> QED
      BY <1>3, <3>1, Zenon DEF DecodeVarint, RawLength
  <2>3. DecodeVarint(b, i) = Read(Groups(b, i, 1), i + 1)
    BY <2>1, VarintRead
  <2> QED
    BY <1>2, <2>1, <2>2, <2>3
<1>4. CASE ~(Byte(b, i) < 128) /\ i + 1 < Len(b) /\ Byte(b, i + 1) < 128
  <2>1. Varint(b, i, 2) /\ Groups(b, i, 2) = (Byte(b, i) - 128) + 128 * Byte(b, i + 1)
    BY <1>4, TwoGroups
  <2>2. RawLength(b, i) = Read(Groups(b, i, 2), i + 2)
    BY <1>4, <2>1, Zenon DEF RawLength
  <2> QED
    BY <1>2, <2>1, <2>2
<1>5. CASE ~(Byte(b, i) < 128) /\ ~(i + 1 < Len(b) /\ Byte(b, i + 1) < 128)
  <2>1. RawLength(b, i) = DecodeVarint(b, i)
    BY <1>5, Zenon DEF RawLength
  <2>2. ASSUME RawLength(b, i).err = None PROVE \E n : Varint(b, i, n)
    BY <2>1, <2>2, VarintFound
  <2>3. ASSUME NEW n, Varint(b, i, n) PROVE RawLength(b, i) = Read(Groups(b, i, n), i + n)
    BY <2>1, <2>3, VarintRead
  <2> QED
    BY <2>2, <2>3
<1> QED
  BY <1>3, <1>4, <1>5

\* A sum that goes beyond the bytes is refused, wrapped around or not.
LEMMA SumInside ==
  ASSUME NEW l \in Nat, l < Word, NEW i \in Nat, i <= l, NEW k \in Nat, k < Word
  PROVE  /\ i + k <= l => (i + k) % Word = i + k
         /\ ((i + k) % Word >= i /\ (i + k) % Word <= l) => i + k <= l
<1>1. Word \in Nat
  BY WireAssumption
<1>2. i + k <= l => (i + k) % Word = i + k
  BY <1>1, Small
<1>3. ASSUME (i + k) % Word >= i, (i + k) % Word <= l PROVE i + k <= l
  BY <1>3, Unwrapped
<1> QED
  BY <1>2, <1>3

\* where a length-delimited item ends
LEMMA RawBytesRead ==
  ASSUME NEW b \in Seq(Bytes), Len(b) < Word, NEW i \in Nat, i <= Len(b), NEW j \in Nat
  PROVE  /\ (DecodeRawBytes(b, i).err = None /\ DecodeRawBytes(b, i).index = j) <=>
              \E n : Varint(b, i, n) /\ i + n + Groups(b, i, n) = j /\ j <= Len(b)
         /\ \A n : (Varint(b, i, n) /\ i + n + Groups(b, i, n) <= Len(b)) => DecodeRawBytes(b, i).x = i + n
<1>1. VarintLen \in Nat /\ Word \in Nat /\ Len(b) \in Nat
  BY WireAssumption
<1>2. ASSUME NEW n, Varint(b, i, n) PROVE n \in Nat \ {0} /\ i < Len(b) /\ i + n <= Len(b) /\ Groups(b, i, n) \in Nat
  <2>1. n \in Nat \ {0} /\ i + n <= Len(b)
    BY <1>1, <1>2 DEF Varint, Terminates
  <2> QED
    BY <1>1, <2>1, GroupsNat
<1>3. ASSUME NEW n, Varint(b, i, n), i + n + Groups(b, i, n) <= Len(b)
      PROVE  DecodeRawBytes(b, i) = Read(i + n, i + n + Groups(b, i, n))
  <2> DEFINE x == Groups(b, i, n)
             at == i + n
  <2>1. RawLength(b, i) = Read(x, at) /\ ~(i >= Len(b)) /\ x \in Nat /\ at \in Nat /\ at + x <= Len(b)
    BY <1>1, <1>2, <1>3, RawLengthReads
  <2> HIDE DEF x, at
  <2>2. x \in 0..(Word - 1) /\ at <= Len(b) /\ x < Word /\ at + x >= at
    BY <1>1, <2>1
  <2>3. (at + x) % Word = at + x
    BY <1>1, <2>1, <2>2, SumInside
  <2>4. RawLength(b, i).x = x /\ RawLength(b, i).index = at /\ RawLength(b, i).err = None
    BY <2>1
  <2>5. SliceEnds(b, at, (at + x) % Word)
    BY <2>1, <2>2, <2>3 DEF SliceEnds
  <2>6. DecodeRawBytes(b, i) = Read(at, (at + x) % Word)
    BY <2>1, <2>2, <2>4, <2>5, Zenon DEF DecodeRawBytes
  <2> QED
    BY <2>3, <2>6 DEF x, at
<1>4. ASSUME DecodeRawBytes(b, i).err = None
      PROVE  \E n : Varint(b, i, n) /\ i + n + Groups(b, i, n) <= Len(b)
  <2> DEFINE r == RawLength(b, i)
  <2>1. /\ ~(i >= Len(b)) /\ r.err = None /\ r.x \in 0..(Word - 1)
        /\ SliceEnds(b, r.index, (r.index + r.x) % Word)
    BY <1>4 DEF DecodeRawBytes
  <2>2. PICK n : Varint(b, i, n)
    BY <1>1, <2>1, RawLengthReads
  <2>3. r = Read(Groups(b, i, n), i + n) /\ n \in Nat \ {0} /\ i + n <= Len(b) /\ Groups(b, i, n) \in Nat
    BY <1>2, <2>1, <2>2, RawLengthReads
  <2>4. r.x = Groups(b, i, n) /\ r.index = i + n
    BY <2>3
  <2> HIDE DEF r
  <2>5. i + n + Groups(b, i, n) <= Len(b)
    <3>1. i + n \in Nat /\ Groups(b, i, n) < Word
      BY <1>1, <2>1, <2>3, <2>4
    <3>2. (i + n + Groups(b, i, n)) % Word >= i + n /\ (i + n + Groups(b, i, n)) % Word <= Len(b)
      BY <2>1, <2>4 DEF SliceEnds
    <3> QED
      BY <1>1, <2>3, <3>1, <3>2, SumInside
  <2> QED
    BY <2>2, <2>5
<1>5. ASSUME NEW n, NEW m, Varint(b, i, n), Varint(b, i, m) PROVE n = m
  BY <1>1, <1>5, OneEnd DEF Varint
<1>6. ASSUME NEW n, Varint(b, i, n), i + n + Groups(b, i, n) <= Len(b)
      PROVE  /\ DecodeRawBytes(b, i).err = None /\ DecodeRawBytes(b, i).x = i + n
             /\ DecodeRawBytes(b, i).index = i + n + Groups(b, i, n)
  BY <1>3, <1>6
<1>7. ASSUME DecodeRawBytes(b, i).err = None, DecodeRawBytes(b, i).index = j
      PROVE  \E n : Varint(b, i, n) /\ i + n + Groups(b, i, n) = j /\ j <= Len(b)
  BY <1>4, <1>6, <1>7
<1> QED
  BY <1>6, <1>7

LEMMA FixedRead ==
  ASSUME NEW b \in Seq(Bytes), Len(b) < Word, NEW i \in Nat, i <= Len(b), NEW j \in Nat, NEW k \in {4, 8}
  PROVE  (SkipFixed(b, i, k).err = None /\ SkipFixed(b, i, k).index = j) <=> (i + k = j /\ j <= Len(b))
<1>1. k \in Nat /\ k < Word /\ Len(b) \in Nat /\ Word \in Nat
  BY WireAssumption
<1> DEFINE end == (i + k) % Word
<1>2. end \in Nat
  BY <1>1
<1>3. SkipFixed(b, i, k) = IF end < i \/ end > Len(b) THEN Fail(EOF, i) ELSE Read(0, end)
  BY DEF SkipFixed
<1>4. (end >= i /\ end <= Len(b)) => i + k <= Len(b)
  BY <1>1, SumInside
<1>5. i + k <= Len(b) => end = i + k
  BY <1>1, SumInside
<1> HIDE DEF end
<1>6. SkipFixed(b, i, k).err = None <=> (end >= i /\ end <= Len(b))
  BY <1>1, <1>2, <1>3
<1>7. (end >= i /\ end <= Len(b)) => SkipFixed(b, i, k).index = end
  BY <1>1, <1>2, <1>3
<1> QED
  BY <1>1, <1>2, <1>4, <1>5, <1>6, <1>7

LEMMA VarintSkipped ==
  ASSUME NEW b \in Seq(Bytes), NEW i \in Nat, i <= Len(b), NEW j \in Nat, i <= j, j <= Len(b)
  PROVE  (SkipVarint(b, i).err = None /\ SkipVarint(b, i).index = j) <=> (i < j /\ Terminates(b, i, j - i))
<1>1. ASSUME SkipVarint(b, i).err = None, SkipVarint(b, i).index = j PROVE i < j /\ Terminates(b, i, j - i)
  <2>1. \E n \in 1..(Len(b) - i) : Terminates(b, i, n)
    BY <1>1 DEF SkipVarint
  <2> DEFINE n == CHOOSE m \in 1..(Len(b) - i) : Terminates(b, i, m)
  <2>2. n \in 1..(Len(b) - i) /\ Terminates(b, i, n)
    BY <2>1
  <2>3. SkipVarint(b, i).index = i + n
    BY <2>1 DEF SkipVarint
  <2> HIDE DEF n
  <2>4. j - i = n /\ i < j
    BY <1>1, <2>2, <2>3
  <2> QED
    BY <2>2, <2>4
<1>2. ASSUME i < j, Terminates(b, i, j - i) PROVE SkipVarint(b, i).err = None /\ SkipVarint(b, i).index = j
  <2>1. j - i \in 1..(Len(b) - i)
    BY <1>2
  <2> DEFINE n == CHOOSE m \in 1..(Len(b) - i) : Terminates(b, i, m)
  <2>2. n \in 1..(Len(b) - i) /\ Terminates(b, i, n)
    BY <1>2, <2>1
  <2>3. SkipVarint(b, i) = Read(0, i + n)
    BY <1>2, <2>1 DEF SkipVarint
  <2> HIDE DEF n
  <2>4. n \in Nat \ {0} /\ j - i \in Nat \ {0}
    BY <2>1, <2>2
  <2>5. n = j - i
    BY <1>2, <2>2, <2>4, OneEnd
  <2>6. i + n = j
    BY <2>5
  <2> QED
    BY <2>3, <2>6
<1> QED
  BY <1>1, <1>2

\* a length and so many bytes
LEMMA DelimitedBetween ==
  ASSUME NEW b \in Seq(Bytes), NEW i \in Nat, NEW j \in Nat, i <= j, j <= Len(b), NEW n
  PROVE  (n \in Grammar!Lengths(Between(b, i, j)) /\ Grammar!Delimited(Between(b, i, j), n)) <=>
           (Varint(b, i, n) /\ i + n + Groups(b, i, n) = j)
<1> DEFINE s == Between(b, i, j)
<1>1. Len(s) = j - i /\ VarintLen \in Nat /\ VarintLen >= 3
  BY BetweenFacts, WireAssumption
<1>2. ASSUME NEW m \in Nat \ {0}, m <= j - i, m <= VarintLen
      PROVE  (m \in Grammar!Lengths(s) /\ Grammar!Delimited(s, m)) <=> (Varint(b, i, m) /\ i + m + Groups(b, i, m) = j)
  <2>1. m \in 0..(j - i) /\ m \in Nat /\ i + m <= Len(b)
    BY <1>2
  <2>2. Grammar!Prefix(s, m) = Between(b, i, i + m)
    BY <2>1, PartsBetween
  <2>3. (Grammar!IsVarint(Between(b, i, i + m)) <=> Varint(b, i, m)) /\ Grammar!ValueOf(Between(b, i, i + m)) = Groups(b, i, m)
    BY <2>1, VarintBetween, ValueBetween
  <2>4. Groups(b, i, m) \in Nat
    BY <2>1, GroupsNat
  <2>5. m \in Grammar!Lengths(s)
    BY <1>1, <1>2 DEF Grammar!Lengths
  <2>6. Groups(b, i, m) = Len(s) - m <=> i + m + Groups(b, i, m) = j
    BY <1>1, <2>1, <2>4
  <2> QED
    BY <2>2, <2>3, <2>5, <2>6 DEF Grammar!Delimited
<1>3. ASSUME n \in Grammar!Lengths(s) PROVE n \in Nat \ {0} /\ n <= j - i /\ n <= VarintLen
  BY <1>1, <1>3 DEF Grammar!Lengths
<1>4. ASSUME Varint(b, i, n), i + n + Groups(b, i, n) = j PROVE n \in Nat \ {0} /\ n <= j - i /\ n <= VarintLen
  <2>1. n \in Nat \ {0} /\ n <= VarintLen /\ i + n <= Len(b)
    BY <1>1, <1>4 DEF Varint, Terminates
  <2>2. Groups(b, i, n) \in Nat
    BY <2>1, GroupsNat
  <2> QED
    BY <1>4, <2>1, <2>2
<1> QED
  BY <1>2, <1>3, <1>4

LEMMA SkipOfBytes ==
  ASSUME NEW b \in Seq(Bytes), NEW i \in Nat
  PROVE  skip(b, i, WireBytes) = DecodeRawBytes(b, i)
BY DEF skip, WireBytes, WireVarint, WireFixed64, WireFixed32

\* The value that skip passes over is one of the grammar.
LEMMA SkipReads ==
  ASSUME NEW b \in Seq(Bytes), Len(b) < Word, NEW i \in Nat, NEW j \in Nat, i <= j, j <= Len(b), NEW wire \in Nat
  PROVE  Grammar!IsValue(wire, Between(b, i, j)) <=> (skip(b, i, wire).err = None /\ skip(b, i, wire).index = j)
<1> USE DEF WireVarint, WireBytes, WireFixed64, WireFixed32
<1> DEFINE s == Between(b, i, j)
<1>1. s \in Seq(Bytes) /\ Len(s) = j - i /\ i <= Len(b)
  <2>1. i <= Len(b)
    OBVIOUS
  <2> QED
    BY <2>1, BetweenFacts, Zenon
<1> HIDE DEF s
<1>2. CASE wire = 0
  <2>1. Grammar!IsValue(wire, s) <=> Grammar!IsNumeral(s)
    BY <1>2 DEF Grammar!IsValue
  <2>2. skip(b, i, wire) = SkipVarint(b, i)
    BY <1>2 DEF skip
  <2>3. CASE i < j
    <3>1. j - i \in Nat \ {0} /\ i + (j - i) = j
      BY <2>3
    <3>2. Grammar!IsNumeral(s) <=> Terminates(b, i, j - i)
      BY <3>1, NumeralBetween DEF s
    <3> QED
      BY <1>1, <2>1, <2>2, <2>3, <3>2, VarintSkipped DEF s
  <2>4. CASE i = j
    <3>1. s = <<>>
      BY <1>1, <2>4
    <3>2. ~Grammar!IsNumeral(s)
      BY <3>1 DEF Grammar!IsNumeral
    <3> QED
      BY <1>1, <2>1, <2>2, <2>4, <3>2, VarintSkipped DEF s
  <2> QED
    BY <2>3, <2>4
<1>3. CASE wire = 2
  <2>1. Grammar!IsValue(wire, s) <=> \E n \in Grammar!Lengths(s) : Grammar!Delimited(s, n)
    BY <1>3 DEF Grammar!IsValue
  <2>2. skip(b, i, wire) = DecodeRawBytes(b, i)
    BY <1>3 DEF skip
  <2>3. (\E n \in Grammar!Lengths(s) : Grammar!Delimited(s, n)) <=> \E n : Varint(b, i, n) /\ i + n + Groups(b, i, n) = j /\ j <= Len(b)
    BY DelimitedBetween DEF s
  <2> QED
    BY <1>1, <2>1, <2>2, <2>3, RawBytesRead DEF s
<1>4. CASE wire = 1
  <2>1. Grammar!IsValue(wire, s) <=> i + 8 = j
    BY <1>1, <1>4 DEF Grammar!IsValue
  <2>2. skip(b, i, wire) = SkipFixed(b, i, 8)
    BY <1>4 DEF skip
  <2> QED
    BY <1>1, <2>1, <2>2, FixedRead DEF s
<1>5. CASE wire = 5
  <2>1. Grammar!IsValue(wire, s) <=> i + 4 = j
    BY <1>1, <1>5 DEF Grammar!IsValue
  <2>2. skip(b, i, wire) = SkipFixed(b, i, 4)
    BY <1>5 DEF skip
  <2> QED
    BY <1>1, <2>1, <2>2, FixedRead DEF s
<1>6. CASE wire \notin {0, 1, 2, 5}
  BY <1>6 DEF Grammar!IsValue, skip, s
<1> QED
  BY <1>2, <1>3, <1>4, <1>5, <1>6 DEF s

\* The varint at the start of some bytes is the key of the item that they are, if they are one.
LEMMA KeyReads ==
  ASSUME NEW b \in Seq(Bytes), NEW i \in Nat, NEW j \in Nat, i <= j, j <= Len(b)
  PROVE  LET s == Between(b, i, j)
             k == DecodeVarint(b, i)
         IN  /\ Grammar!Keyed(s) <=> (k.err = None /\ k.index <= j)
             /\ Grammar!Keyed(s) => /\ Grammar!KeyLen(s) = k.index - i
                                    /\ Grammar!IdOf(s) = KeyId(k.x) /\ Grammar!WireOf(s) = KeyWire(k.x)
<1> DEFINE s == Between(b, i, j)
           k == DecodeVarint(b, i)
           Has(n) == n \in Grammar!Lengths(s) /\ Grammar!HasKey(s, n)
<1>1. Len(s) = j - i /\ VarintLen \in Nat /\ VarintLen >= 3
  BY BetweenFacts, WireAssumption
<1>2. ASSUME NEW n PROVE Has(n) <=> (Varint(b, i, n) /\ i + n <= j)
  <2>1. ASSUME NEW m \in Nat \ {0}, m <= j - i, m <= VarintLen PROVE Has(m) <=> Varint(b, i, m)
    <3>1. m \in 0..(j - i) /\ i + m <= Len(b)
      BY <2>1
    <3>2. Grammar!Prefix(s, m) = Between(b, i, i + m) /\ (Grammar!IsVarint(Between(b, i, i + m)) <=> Varint(b, i, m))
      BY <3>1, PartsBetween, VarintBetween
    <3>3. m \in Grammar!Lengths(s)
      BY <1>1, <2>1 DEF Grammar!Lengths
    <3> QED
      BY <3>2, <3>3 DEF Grammar!HasKey
  <2>2. n \in Grammar!Lengths(s) => n \in Nat \ {0} /\ n <= j - i /\ n <= VarintLen
    BY <1>1 DEF Grammar!Lengths
  <2>3. Varint(b, i, n) /\ i + n <= j => n \in Nat \ {0} /\ n <= j - i /\ n <= VarintLen
    BY <1>1 DEF Varint
  <2>4. n \in Nat \ {0} /\ n <= j - i => i + n <= j
    OBVIOUS
  <2> HIDE DEF s
  <2> QED
    BY <2>1, <2>2, <2>3, <2>4
<1>3. Grammar!Keyed(s) <=> \E n : Has(n)
  BY DEF Grammar!Keyed
<1> HIDE DEF Has
<1>4. ASSUME NEW n, NEW m, Has(n), Has(m) PROVE n = m
  <2>1. Varint(b, i, n) /\ Varint(b, i, m)
    BY <1>2, <1>4
  <2> QED
    BY <1>1, <2>1, OneEnd DEF Varint
<1>5. ASSUME NEW n, Has(n)
      PROVE  /\ k = Read(Groups(b, i, n), i + n) /\ k.index <= j
             /\ Grammar!KeyLen(s) = n /\ Grammar!Prefix(s, n) = Between(b, i, i + n)
             /\ Grammar!ValueOf(Between(b, i, i + n)) = Groups(b, i, n)
  <2>1. Varint(b, i, n) /\ i + n <= j
    BY <1>2, <1>5
  <2>2. n \in Nat \ {0} /\ n \in 0..(j - i) /\ i + n <= Len(b)
    BY <1>1, <2>1 DEF Varint
  <2>3. Grammar!Prefix(s, n) = Between(b, i, i + n) /\ Grammar!ValueOf(Between(b, i, i + n)) = Groups(b, i, n)
    BY <2>2, PartsBetween, ValueBetween
  <2>4. k = Read(Groups(b, i, n), i + n)
    BY <2>1, VarintRead
  <2>5. Grammar!KeyLen(s) = n
    <3> DEFINE l == CHOOSE m \in Grammar!Lengths(s) : Grammar!HasKey(s, m)
    <3>1. Has(l)
      BY <1>5 DEF Has
    <3> HIDE DEF l
    <3>2. l = n
      BY <1>4, <1>5, <3>1
    <3> QED
      BY <3>2 DEF l, Grammar!KeyLen
  <2>6. k.index <= j
    BY <2>1, <2>4
  <2> HIDE DEF s, k
  <2> QED
    BY <2>3, <2>4, <2>5, <2>6
<1>6. ASSUME k.err = None, k.index <= j PROVE \E n : Has(n)
  <2>1. PICK n : Varint(b, i, n)
    BY <1>6, VarintFound
  <2>2. k.index = i + n
    BY <2>1, VarintRead
  <2> QED
    BY <1>2, <1>6, <2>1, <2>2
<1>7. ASSUME NEW n, Has(n)
      PROVE  /\ k.err = None /\ k.index <= j
             /\ Grammar!KeyLen(s) = k.index - i /\ Grammar!IdOf(s) = KeyId(k.x) /\ Grammar!WireOf(s) = KeyWire(k.x)
  <2>1. k.x = Groups(b, i, n) /\ k.index = i + n /\ k.err = None
    BY <1>5, <1>7
  <2>2. n \in Nat
    BY <1>1, <1>2, <1>7 DEF Varint
  <2>3. k.index - i = n
    BY <2>1, <2>2
  <2> HIDE DEF s, k
  <2> QED
    BY <1>5, <1>7, <2>1, <2>3 DEF Grammar!IdOf, Grammar!WireOf, KeyId, KeyWire
<1> QED
  BY <1>3, <1>6, <1>7

\* An item is what DecodeVarint and skip read.
LEMMA ItemReads ==
  ASSUME NEW b \in Seq(Bytes), Len(b) < Word, NEW i \in Nat, NEW j \in Nat, i <= j, j <= Len(b)
  PROVE  LET s == Between(b, i, j)
             k == DecodeVarint(b, i)
             v == skip(b, k.index, KeyWire(k.x))
         IN  /\ Grammar!IsItem(s) <=> (k.err = None /\ v.err = None /\ v.index = j)
             /\ Grammar!IsItem(s) =>
                  /\ i + Grammar!ValueStart(s) = IF KeyWire(k.x) = WireBytes THEN v.x ELSE k.index
                  /\ Grammar!IdOf(s) = KeyId(k.x) /\ Grammar!WireOf(s) = KeyWire(k.x)
<1> DEFINE s == Between(b, i, j)
           k == DecodeVarint(b, i)
           wire == KeyWire(k.x)
           v == skip(b, k.index, wire)
<1>1. Len(s) = j - i /\ s \in Seq(Bytes)
  BY BetweenFacts
<1>2. i <= Len(b)
  OBVIOUS
<1>3. k.index \in Ahead(b, i) /\ k.x \in Nat
  BY <1>2, DecodeVarintFacts, DecodeVarintNat
<1>4. /\ Grammar!Keyed(s) <=> (k.err = None /\ k.index <= j)
      /\ Grammar!Keyed(s) => Grammar!KeyLen(s) = k.index - i /\ Grammar!IdOf(s) = KeyId(k.x) /\ Grammar!WireOf(s) = wire
  BY KeyReads
<1>5. k.index \in Nat /\ i <= k.index /\ k.index <= Len(b) /\ wire \in Nat
  BY <1>3 DEF Ahead, KeyWire
<1>6. v.index \in Ahead(b, k.index)
  BY <1>5, SkipFacts
<1> HIDE DEF s, k, wire, v
<1>7. ASSUME Grammar!Keyed(s)
      PROVE  /\ Grammar!Rest(s, Grammar!KeyLen(s)) = Between(b, k.index, j)
             /\ Grammar!IsValue(wire, Between(b, k.index, j)) <=> (v.err = None /\ v.index = j)
  <2>1. k.index - i \in 0..(j - i) /\ i + (k.index - i) = k.index /\ k.index <= j
    BY <1>4, <1>5, <1>7
  <2>2. Grammar!Rest(s, Grammar!KeyLen(s)) = Between(b, k.index, j)
    <3>1. Grammar!Rest(Between(b, i, j), k.index - i) = Between(b, i + (k.index - i), j)
      BY <2>1, PartsBetween
    <3> QED
      BY <1>4, <1>7, <2>1, <3>1 DEF s
  <2>3. Grammar!IsValue(wire, Between(b, k.index, j)) <=> (v.err = None /\ v.index = j)
    BY <1>5, <2>1, SkipReads DEF v
  <2> QED
    BY <2>2, <2>3
<1>8. Grammar!IsItem(s) <=> (k.err = None /\ v.err = None /\ v.index = j)
  <2>1. v.index = j => k.index <= j
    BY <1>5, <1>6 DEF Ahead
  <2> QED
    BY <1>4, <1>7, <2>1 DEF Grammar!IsItem
<1>9. ASSUME Grammar!IsItem(s)
      PROVE  i + Grammar!ValueStart(s) = IF wire = WireBytes THEN v.x ELSE k.index
  <2> DEFINE r == Between(b, k.index, j)
             at == CHOOSE n \in Grammar!Lengths(r) : Grammar!Delimited(r, n)
  <2>1. Grammar!Keyed(s)
    BY <1>9 DEF Grammar!IsItem
  <2>2. Grammar!KeyLen(s) = k.index - i /\ Grammar!WireOf(s) = wire /\ Grammar!Rest(s, Grammar!KeyLen(s)) = r
    BY <1>4, <1>7, <2>1
  <2>3. CASE wire # WireBytes
    <3>1. Grammar!ValueStart(s) = (k.index - i) + 0
      BY <2>2, <2>3 DEF Grammar!ValueStart, WireBytes
    <3> QED
      BY <1>5, <2>3, <3>1
  <2>4. CASE wire = WireBytes
    <3>1. Grammar!ValueStart(s) = (k.index - i) + at
      BY <2>2, <2>4 DEF Grammar!ValueStart, WireBytes
    <3>2. Grammar!IsValue(2, r)
      BY <1>9, <2>2, <2>4 DEF Grammar!IsItem, WireBytes
    <3>3. \E n \in Grammar!Lengths(r) : Grammar!Delimited(r, n)
      BY <3>2 DEF Grammar!IsValue
    <3>4. at \in Grammar!Lengths(r) /\ Grammar!Delimited(r, at)
      BY <3>3
    <3> HIDE DEF at, r
    <3>5. k.index <= j
      BY <1>4, <2>1
    <3>6. Varint(b, k.index, at) /\ k.index + at + Groups(b, k.index, at) = j
      BY <1>5, <3>4, <3>5, DelimitedBetween DEF r
    <3>7. v = DecodeRawBytes(b, k.index)
      BY <1>5, <2>4, SkipOfBytes DEF v
    <3>8. v.x = k.index + at
      BY <1>5, <3>6, <3>7, RawBytesRead
    <3>9. at \in Nat
      BY <3>6, WireAssumption DEF Varint
    <3> QED
      BY <1>5, <2>4, <3>1, <3>8, <3>9
  <2> QED
    BY <2>3, <2>4
<1>10. Grammar!IsItem(s) => Grammar!IdOf(s) = KeyId(k.x) /\ Grammar!WireOf(s) = KeyWire(k.x)
  BY <1>4 DEF Grammar!IsItem, wire
<1> QED
  BY <1>8, <1>9, <1>10 DEF s, k, wire, v

-----------------------------------------------------------------------------
(* varints as they are written *)

LEMMA WeightFacts ==
  /\ Weight \in [0..VarintLen -> Nat \ {0}]
  /\ Weight[0] = 1
  /\ \A n \in 1..VarintLen : Weight[n] = 128 * Weight[n - 1]
<1> DEFINE Step(g, n) == IF n = 0 THEN 1 ELSE 128 * g[n - 1]
           Good(m) == \E g \in [0..m -> Nat \ {0}] : \A n \in 0..m : g[n] = Step(g, n)
           Def(g) == g = [n \in 0..VarintLen |-> Step(g, n)]
           S == {m \in Nat : Good(m)}
<1>1. VarintLen \in Nat
  BY WireAssumption
<1>2. Good(0)
  <2> DEFINE g == [n \in 0..0 |-> 1]
  <2>1. g \in [0..0 -> Nat \ {0}] /\ \A n \in 0..0 : g[n] = Step(g, n)
    OBVIOUS
  <2> QED
    BY <2>1
<1>3. ASSUME NEW m \in Nat, Good(m) PROVE Good(m + 1)
  <2>1. PICK g \in [0..m -> Nat \ {0}] : \A n \in 0..m : g[n] = Step(g, n)
    BY <1>3
  <2> DEFINE v == 128 * g[m]
             h == [n \in 0..(m + 1) |-> IF n = m + 1 THEN v ELSE g[n]]
  <2>2. v \in Nat \ {0} /\ v = 128 * g[m]
    BY <2>1
  <2> HIDE DEF v
  <2>3. h \in [0..(m + 1) -> Nat \ {0}]
    BY <2>2
  <2>4. ASSUME NEW n \in 0..(m + 1) PROVE h[n] = Step(h, n)
    <3>1. CASE n = m + 1
      BY <2>2, <3>1
    <3>2. CASE n # m + 1
      <4>1. n \in 0..m /\ h[n] = g[n] /\ g[n] = Step(g, n)
        BY <2>1, <3>2
      <4>2. n # 0 => n - 1 \in 0..m /\ h[n - 1] = g[n - 1]
        BY <4>1
      <4> QED
        BY <4>1, <4>2
    <3> QED
      BY <3>1, <3>2
  <2> HIDE DEF h
  <2> QED
    BY <2>3, <2>4
<1>4. Good(VarintLen)
  <2> HIDE DEF Good
  <2>1. 0 \in S /\ \A m \in Nat : m \in S => m + 1 \in S
    BY <1>2, <1>3
  <2> HIDE DEF S
  <2>2. VarintLen \in S
    BY <1>1, <2>1, SetInduction
  <2> QED
    BY <2>2 DEF S
<1>5. PICK g \in [0..VarintLen -> Nat \ {0}] : \A n \in 0..VarintLen : g[n] = Step(g, n)
  BY <1>4
<1>6. Def(g)
  BY <1>5
<1>7. Def(Weight)
  <2>1. Weight = CHOOSE f : Def(f)
    BY DEF Weight
  <2> QED
    BY <1>6, <2>1
<1>8. \A n \in 0..VarintLen : Weight[n] = Step(Weight, n)
  BY <1>7
<1>9. \A n \in 0..VarintLen : Weight[n] = g[n]
  <2> DEFINE R == {m \in Nat : m <= VarintLen => Weight[m] = g[m]}
  <2>1. 0 \in R
    BY <1>1, <1>5, <1>8
  <2>2. ASSUME NEW m \in Nat, m \in R PROVE m + 1 \in R
    <3> SUFFICES ASSUME m + 1 <= VarintLen PROVE Weight[m + 1] = g[m + 1]
      OBVIOUS
    <3>1. m \in 0..VarintLen /\ m + 1 \in 0..VarintLen /\ m + 1 # 0 /\ (m + 1) - 1 = m
      BY <1>1
    <3>2. Weight[m + 1] = 128 * Weight[m] /\ g[m + 1] = 128 * g[m]
      BY <1>5, <1>8, <3>1
    <3> QED
      BY <2>2, <3>1, <3>2
  <2> HIDE DEF R
  <2>3. Nat \subseteq R
    BY <2>1, <2>2, SetInduction
  <2> QED
    BY <1>1, <2>3 DEF R
<1>10. Weight = [n \in 0..VarintLen |-> Weight[n]]
  BY <1>7
<1>11. \A n \in 1..VarintLen : n \in 0..VarintLen /\ n # 0
  OBVIOUS
<1> HIDE DEF Step
<1>12. Weight \in [0..VarintLen -> Nat \ {0}]
  BY <1>5, <1>9, <1>10
<1> QED
  BY <1>1, <1>8, <1>11, <1>12 DEF Step

\* The weights grow.
LEMMA WeightGrows ==
  ASSUME NEW j \in 0..VarintLen, NEW k \in 0..VarintLen, j <= k
  PROVE  Weight[j] <= Weight[k]
<1> DEFINE S == {d \in Nat : j + d <= VarintLen => Weight[j] <= Weight[j + d]}
<1>1. VarintLen \in Nat /\ j \in Nat /\ k \in Nat
  BY WireAssumption
<1>2. \A n \in 0..VarintLen : Weight[n] \in Nat
  BY WeightFacts
<1>3. 0 \in S
  BY <1>1, <1>2
<1>4. ASSUME NEW d \in Nat, d \in S PROVE d + 1 \in S
  <2> SUFFICES ASSUME j + (d + 1) <= VarintLen PROVE Weight[j] <= Weight[j + (d + 1)]
    OBVIOUS
  <2>1. j + d \in 0..VarintLen /\ j + (d + 1) \in 1..VarintLen /\ (j + (d + 1)) - 1 = j + d
    BY <1>1
  <2>2. Weight[j + (d + 1)] = 128 * Weight[j + d]
    BY <2>1, WeightFacts
  <2>3. Weight[j] <= Weight[j + d]
    BY <1>1, <1>4, <2>1
  <2> QED
    BY <1>2, <2>1, <2>2, <2>3
<1> HIDE DEF S
<1>5. k - j \in S
  BY <1>1, <1>3, <1>4, SetInduction
<1>6. j + (k - j) = k /\ k <= VarintLen
  BY <1>1
<1> QED
  BY <1>5, <1>6 DEF S

LEMMA QuotientZero ==
  ASSUME NEW x \in Nat, NEW w \in Nat \ {0}
  PROVE  x \div w = 0 <=> x < w
OBVIOUS

LEMMA SevenBits ==
  ASSUME NEW x \in Nat, NEW w \in Nat \ {0}
  PROVE  (x \div w) % 128 \in 0..127
<1>1. x \div w \in Nat
  OBVIOUS
<1> QED
  BY <1>1

\* The number of bytes of a varint, as it is found in two ways.
LEMMA VarintShape ==
  ASSUME NEW x \in Nat, x < Word
  PROVE  \E m \in 1..VarintLen :
           /\ x < Weight[m] /\ \A j \in 1..(m - 1) : x >= Weight[j]
           /\ SizeVarint(x) = m
           /\ EncodeVarint(x) = [k \in 1..m |-> ((x \div Weight[k - 1]) % 128) + IF k < m THEN 128 ELSE 0]
<1> DEFINE Fits(n) == n \in 1..VarintLen /\ x < Weight[n]
           T == {n \in Nat : Fits(n)}
<1>1. /\ VarintLen \in Nat /\ VarintLen >= 3
      /\ \A n \in 0..VarintLen : Weight[n] \in Nat \ {0}
  BY WireAssumption, WeightFacts
<1>2. Fits(VarintLen)
  <2>1. Weight[VarintLen] = 128 * Weight[VarintLen - 1] /\ Weight[VarintLen - 1] \in Nat
    BY <1>1, WeightFacts
  <2>2. Word = LastLimit * Weight[VarintLen - 1] /\ LastLimit \in 2..128
    BY WireAssumption, WordAssumption
  <2>3. \A l \in 2..128 : \A w \in Nat : l * w <= 128 * w
    OBVIOUS
  <2>4. Word <= Weight[VarintLen]
    BY <2>1, <2>2, <2>3
  <2> QED
    BY <1>1, <2>4, WireAssumption
<1>3. PICK m \in T : \A n \in T : m <= n
  <2>1. T \in SUBSET Nat /\ T # {}
    BY <1>1, <1>2
  <2> HIDE DEF T
  <2> QED
    BY <2>1, LeastNat
<1>4. m \in 1..VarintLen /\ m \in Nat /\ x < Weight[m]
  BY <1>3
<1>5. ASSUME NEW n \in 1..VarintLen
      PROVE  (x \div Weight[n] = 0 /\ (n = 1 \/ x \div Weight[n - 1] # 0)) <=> n = m
  <2>1. n - 1 \in 0..VarintLen /\ n \in 0..VarintLen /\ n \in Nat /\ m \in 0..VarintLen
    BY <1>1, <1>4
  <2>2. x \div Weight[n] = 0 <=> x < Weight[n]
    BY <1>1, <2>1, QuotientZero
  <2>3. x \div Weight[n - 1] = 0 <=> x < Weight[n - 1]
    BY <1>1, <2>1, QuotientZero
  <2>4. ASSUME x < Weight[n], n = 1 \/ ~(x < Weight[n - 1]) PROVE n = m
    <3>1. m <= n
      BY <1>3, <2>1, <2>4
    <3>2. ASSUME m < n PROVE FALSE
      <4>1. m <= n - 1 /\ n # 1
        BY <1>4, <2>1, <3>2
      <4>2. Weight[m] <= Weight[n - 1]
        BY <2>1, <4>1, WeightGrows
      <4> QED
        BY <1>1, <1>4, <2>1, <2>4, <4>1, <4>2
    <3> QED
      BY <1>4, <2>1, <3>1, <3>2
  <2>5. ASSUME n = m, n # 1 PROVE ~(x < Weight[n - 1])
    <3>1. n - 1 \in 1..VarintLen /\ n - 1 \in Nat /\ ~(m <= n - 1)
      BY <1>4, <2>1, <2>5
    <3>2. n - 1 \notin T
      BY <1>3, <3>1
    <3> QED
      BY <3>1, <3>2
  <2> QED
    BY <1>4, <2>2, <2>3, <2>4, <2>5
<1>6. SizeVarint(x) = m
  BY <1>4, <1>5 DEF SizeVarint
<1>7. ASSUME NEW k \in 1..VarintLen
      PROVE  (x < Weight[k] /\ \A j \in 1..(k - 1) : x >= Weight[j]) <=> k = m
  <2>1. k \in Nat /\ \A j \in 1..(k - 1) : j \in Nat /\ j \in 1..VarintLen /\ j < k /\ Weight[j] \in Nat
    BY <1>1
  <2>2. ASSUME x < Weight[k], \A j \in 1..(k - 1) : x >= Weight[j] PROVE k = m
    <3>1. m <= k
      BY <1>3, <2>1, <2>2
    <3>2. ASSUME m < k PROVE FALSE
      <4>1. m \in 1..(k - 1)
        BY <1>4, <2>1, <3>2
      <4>2. x >= Weight[m] /\ Weight[m] \in Nat
        BY <2>1, <2>2, <4>1
      <4> QED
        BY <1>4, <4>2
    <3> QED
      BY <1>4, <2>1, <3>1, <3>2
  <2>3. ASSUME k = m, NEW j \in 1..(k - 1) PROVE x >= Weight[j]
    <3>1. ~(m <= j)
      BY <1>4, <2>1, <2>3
    <3>2. j \notin T
      BY <1>3, <3>1
    <3> QED
      BY <2>1, <3>2
  <2> QED
    BY <1>4, <2>2, <2>3
<1>8. EncodeVarint(x) = [k \in 1..m |-> ((x \div Weight[k - 1]) % 128) + IF k < m THEN 128 ELSE 0]
  <2> DEFINE n == CHOOSE k \in 1..VarintLen : x < Weight[k] /\ \A j \in 1..(k - 1) : x >= Weight[j]
  <2>1. n = m
    BY <1>4, <1>7
  <2>2. EncodeVarint(x) = [k \in 1..n |-> ((x \div Weight[k - 1]) % 128) + IF k < n THEN 128 ELSE 0]
    BY DEF EncodeVarint
  <2> HIDE DEF n
  <2> QED
    BY <2>1, <2>2
<1> QED
  BY <1>4, <1>6, <1>7, <1>8

\* SizeVarint, which enc_len_thing moves a message by, is the number of bytes that EncodeVarint then
\* writes as its length, for every number of a word.
THEOREM VarintSizes ==
  ASSUME NEW x \in Nat, x < Word
  PROVE  /\ SizeVarint(x) \in 1..VarintLen
         /\ EncodeVarint(x) \in Seq(Bytes)
         /\ Len(EncodeVarint(x)) = SizeVarint(x)
<1>1. PICK m \in 1..VarintLen :
        /\ SizeVarint(x) = m
        /\ EncodeVarint(x) = [k \in 1..m |-> ((x \div Weight[k - 1]) % 128) + IF k < m THEN 128 ELSE 0]
  BY VarintShape
<1>2. \A n \in 0..VarintLen : Weight[n] \in Nat \ {0}
  BY WeightFacts
<1>3. VarintLen \in Nat /\ m \in Nat
  BY WireAssumption
<1>4. \A k \in 1..m : ((x \div Weight[k - 1]) % 128) + (IF k < m THEN 128 ELSE 0) \in Bytes
  <2> TAKE k \in 1..m
  <2>1. k - 1 \in 0..VarintLen
    BY <1>3
  <2> DEFINE y == (x \div Weight[k - 1]) % 128
  <2>2. y \in 0..127
    BY <1>2, <2>1, SevenBits
  <2> HIDE DEF y
  <2>3. y + (IF k < m THEN 128 ELSE 0) \in Bytes
    BY <2>2 DEF Bytes
  <2> QED
    BY <2>3 DEF y
<1> DEFINE g(k) == ((x \div Weight[k - 1]) % 128) + IF k < m THEN 128 ELSE 0
<1>5. EncodeVarint(x) = [k \in 1..m |-> g(k)] /\ \A k \in 1..m : g(k) \in Bytes
  BY <1>1, <1>4
<1> HIDE DEF g
<1>6. EncodeVarint(x) \in Seq(Bytes) /\ Len(EncodeVarint(x)) = m
  BY <1>3, <1>5
<1> QED
  BY <1>1, <1>6

-----------------------------------------------------------------------------
(* and read back *)

\* s is at position i of b
StandsAt(b, i, s) == i + Len(s) <= Len(b) /\ \A k \in 1..Len(s) : b[i + k] = s[k]

\* f has the sums of the groups from each one on
SumsUp(b, i, n, f) == \A k \in 0..n : f[k] = IF k = n THEN 0 ELSE (Byte(b, i + k) % 128) + 128 * f[k + 1]

\* There is one such function.
LEMMA SumsAre ==
  ASSUME NEW b \in Seq(Bytes), NEW i \in Nat, NEW n \in Nat, i + n <= Len(b),
         NEW f \in [0..n -> Nat], SumsUp(b, i, n, f)
  PROVE  Groups(b, i, n) = f[0]
<1>1. PICK g \in [0..n -> Nat] : AreSums(b, i, n, g)
  BY GroupsFrom
<1> DEFINE S == {k \in 0..n : f[k] = g[k]}
<1>2. n \in S
  BY <1>1 DEF AreSums
<1>3. ASSUME NEW k \in 0..(n - 1), k + 1 \in S PROVE k \in S
  <2>1. k \in 0..n /\ k # n
    OBVIOUS
  <2>2. f[k] = (Byte(b, i + k) % 128) + 128 * f[k + 1]
    BY <2>1 DEF SumsUp
  <2>3. g[k] = (Byte(b, i + k) % 128) + 128 * g[k + 1]
    BY <1>1, <2>1 DEF AreSums
  <2> QED
    BY <1>3, <2>1, <2>2, <2>3
<1> HIDE DEF S
<1>4. 0..n \subseteq S
  BY <1>2, <1>3, Downwards
<1>5. 0 \in 0..n
  OBVIOUS
<1> QED
  BY <1>1, <1>4, <1>5 DEF AreSums, S

LEMMA SevenMore ==
  ASSUME NEW x \in Nat, NEW w \in Nat \ {0}
  PROVE  x \div w = ((x \div w) % 128) + 128 * (x \div (128 * w))
<1> DEFINE q == x \div w
           r == q % 128
           u == q \div 128
<1>1. q \in Nat /\ w * q <= x /\ x < w * q + w
  OBVIOUS
<1>2. r \in 0..127 /\ u \in Nat /\ q = r + 128 * u
  BY <1>1
<1> HIDE DEF q, r, u
<1>3. w * q = w * r + (128 * w) * u
  BY <1>2
<1>4. 0 <= w * r /\ w * r <= 127 * w
  BY <1>2
<1>5. (128 * w) * u <= x /\ x < (128 * w) * u + 128 * w
  BY <1>1, <1>2, <1>3, <1>4
<1>6. \A d \in Nat \ {0} : \A v \in Nat : d * v <= x /\ x < d * v + d => x \div d = v
  OBVIOUS
<1>7. 128 * w \in Nat \ {0}
  OBVIOUS
<1>8. x \div (128 * w) = u
  BY <1>2, <1>5, <1>6, <1>7
<1> QED
  BY <1>2, <1>8 DEF q, r

\* What EncodeVarint writes of a number of a word is read back by DecodeVarint, wherever it stands
\* and whatever follows it: its unrolled path, the one that looks for the end of the buffer, and the
\* one for a single byte.
THEOREM VarintReadBack ==
  ASSUME NEW x \in Nat, x < Word, NEW b \in Seq(Bytes), NEW i \in Nat, StandsAt(b, i, EncodeVarint(x))
  PROVE  DecodeVarint(b, i) = Read(x, i + Len(EncodeVarint(x)))
<1>1. PICK m \in 1..VarintLen :
        /\ x < Weight[m]
        /\ m = 1 \/ x >= Weight[m - 1]
        /\ EncodeVarint(x) = [k \in 1..m |-> ((x \div Weight[k - 1]) % 128) + IF k < m THEN 128 ELSE 0]
  <2>1. PICK m \in 1..VarintLen :
          /\ x < Weight[m] /\ \A j \in 1..(m - 1) : x >= Weight[j]
          /\ SizeVarint(x) = m
          /\ EncodeVarint(x) = [k \in 1..m |-> ((x \div Weight[k - 1]) % 128) + IF k < m THEN 128 ELSE 0]
    BY VarintShape
  <2>2. m = 1 \/ m - 1 \in 1..(m - 1)
    BY WireAssumption
  <2> QED
    BY <2>1, <2>2
<1>2. VarintLen \in Nat /\ m \in Nat \ {0} /\ \A n \in 0..VarintLen : Weight[n] \in Nat \ {0}
  <2>1. VarintLen \in Nat /\ m \in Nat \ {0}
    BY WireAssumption
  <2>2. \A n \in 0..VarintLen : Weight[n] \in Nat \ {0}
    BY WeightFacts
  <2> QED
    BY <2>1, <2>2
<1>3. \A n \in 1..VarintLen : Weight[n] = 128 * Weight[n - 1]
  BY WeightFacts
<1> DEFINE q(k) == x \div Weight[k]
<1>4. \A k \in 0..VarintLen : q(k) \in Nat
  <2>1. \A w \in Nat \ {0} : x \div w \in Nat
    OBVIOUS
  <2> QED
    BY <1>2, <2>1
<1>5. Len(EncodeVarint(x)) = m /\ i + m <= Len(b)
  BY <1>1, <1>2 DEF StandsAt
<1>6. \A k \in 0..(m - 1) : Byte(b, i + k) = (q(k) % 128) + IF k + 1 < m THEN 128 ELSE 0
  <2> TAKE k \in 0..(m - 1)
  <2>1. k + 1 \in 1..m /\ (k + 1) - 1 = k /\ i + (k + 1) = (i + k) + 1
    OBVIOUS
  <2>2. b[i + (k + 1)] = EncodeVarint(x)[k + 1]
    BY <1>5, <2>1 DEF StandsAt
  <2>3. EncodeVarint(x)[k + 1] = (q((k + 1) - 1) % 128) + IF k + 1 < m THEN 128 ELSE 0
    BY <1>1, <2>1
  <2> QED
    BY <2>1, <2>2, <2>3 DEF Byte
<1>7. q(m) = 0 /\ q(0) = x
  <2>1. Weight[0] = 1 /\ x \div 1 = x
    BY WeightFacts
  <2>2. m \in 0..VarintLen
    BY <1>2
  <2> QED
    BY <1>1, <1>2, <2>1, <2>2, QuotientZero
<1>8. \A k \in 0..(m - 1) : q(k) = (q(k) % 128) + 128 * q(k + 1)
  <2> TAKE k \in 0..(m - 1)
  <2>1. k \in 0..VarintLen /\ k + 1 \in 1..VarintLen /\ (k + 1) - 1 = k
    BY <1>2
  <2>2. Weight[k + 1] = 128 * Weight[k] /\ Weight[k] \in Nat \ {0}
    BY <1>2, <1>3, <2>1
  <2>3. \A w \in Nat \ {0} : x \div w = ((x \div w) % 128) + 128 * (x \div (128 * w))
    BY SevenMore
  <2>4. x \div Weight[k] = ((x \div Weight[k]) % 128) + 128 * (x \div (128 * Weight[k]))
    BY <2>2, <2>3
  <2> QED
    BY <2>2, <2>4
<1>9. \A k \in 0..(m - 1) : q(k) % 128 \in 0..127 /\ (k = m - 1 => q(k) % 128 = q(k))
  <2> TAKE k \in 0..(m - 1)
  <2>1. k \in 0..VarintLen
    BY <1>2
  <2>2. \A y \in Nat : y % 128 \in 0..127
    OBVIOUS
  <2>3. q(k) % 128 \in 0..127
    BY <1>4, <2>1, <2>2
  <2>4. ASSUME k = m - 1 PROVE q(k) % 128 = q(k)
    <3>1. q(k + 1) = 0
      BY <1>7, <2>4
    <3> QED
      BY <1>8, <2>3, <3>1, <1>4, <2>1
  <2> QED
    BY <2>3, <2>4
<1> HIDE DEF q
<1>10. ASSUME NEW k \in 0..(m - 1)
       PROVE  /\ Byte(b, i + k) % 128 = q(k) % 128
              /\ k + 1 < m => Byte(b, i + k) >= 128
              /\ k = m - 1 => Byte(b, i + k) = q(k) /\ Byte(b, i + k) < 128
  <2> DEFINE r == q(k) % 128
  <2>1. r \in 0..127 /\ Byte(b, i + k) = r + IF k + 1 < m THEN 128 ELSE 0
    BY <1>6, <1>9
  <2>2. k = m - 1 => r = q(k)
    BY <1>9
  <2> HIDE DEF r
  <2>3. Byte(b, i + k) % 128 = r
    BY <2>1
  <2>4. Byte(b, i + k) % 128 = q(k) % 128
    BY <2>3 DEF r
  <2> QED
    BY <2>1, <2>2, <2>4
<1>11. Terminates(b, i, m)
  <2>1. m - 1 \in 0..(m - 1) /\ i + (m - 1) = i + m - 1 /\ \A k \in 0..(m - 2) : k \in 0..(m - 1) /\ k + 1 < m
    BY <1>2
  <2> QED
    BY <1>5, <1>10, <2>1 DEF Terminates
<1>12. ~TooLarge(b, i, m)
  <2> SUFFICES ASSUME m = VarintLen PROVE ~(Byte(b, i + m - 1) >= LastLimit)
    BY DEF TooLarge
  <2>1. m - 1 \in 0..(m - 1) /\ i + (m - 1) = i + m - 1 /\ m - 1 \in 0..VarintLen
    BY <1>2
  <2>2. Byte(b, i + m - 1) = q(m - 1)
    BY <1>10, <2>1
  <2>3. x < LastLimit * Weight[m - 1] /\ LastLimit \in Nat
    BY WordAssumption, WireAssumption
  <2>4. \A w \in Nat \ {0} : \A l \in Nat : x < l * w => x \div w < l
    OBVIOUS
  <2>5. Weight[m - 1] \in Nat \ {0}
    BY <1>2, <2>1
  <2>6. q(m - 1) < LastLimit
    BY <2>3, <2>4, <2>5 DEF q
  <2>7. q(m - 1) \in Nat /\ LastLimit \in Nat
    BY <1>4, <2>1, <2>3
  <2> QED
    BY <2>2, <2>6, <2>7
<1>13. DecodeVarint(b, i) = Read(Groups(b, i, m), i + m)
  BY <1>11, <1>12, VarintRead DEF Varint
<1>14. Groups(b, i, m) = x
  <2> DEFINE f == [k \in 0..m |-> q(k)]
  <2>1. f \in [0..m -> Nat]
    BY <1>2, <1>4
  <2>2. ASSUME NEW k \in 0..m PROVE f[k] = IF k = m THEN 0 ELSE (Byte(b, i + k) % 128) + 128 * f[k + 1]
    <3>1. CASE k = m
      BY <1>7, <3>1
    <3>2. CASE k # m
      <4>1. k \in 0..(m - 1) /\ k + 1 \in 0..m
        BY <1>2, <3>2
      <4>2. q(k) = (Byte(b, i + k) % 128) + 128 * q(k + 1)
        BY <1>8, <1>10, <4>1
      <4>3. f[k] = q(k) /\ f[k + 1] = q(k + 1)
        BY <4>1
      <4> HIDE DEF f
      <4> QED
        BY <3>2, <4>2, <4>3
    <3> QED
      BY <3>1, <3>2
  <2>3. f[0] = x
    BY <1>2, <1>7
  <2> HIDE DEF f
  <2>4. SumsUp(b, i, m, f)
    BY <2>2 DEF SumsUp
  <2>5. m \in Nat /\ i + m <= Len(b)
    BY <1>2, <1>5
  <2>6. Groups(b, i, m) = f[0]
    BY <2>1, <2>4, <2>5, SumsAre
  <2> QED
    BY <2>3, <2>6
<1> QED
  BY <1>5, <1>13, <1>14

-----------------------------------------------------------------------------
(* numbers of a fixed size, and signs *)

\* f has what is left of x after each byte of EncodeFixed has been shifted out
ShiftedOut(x, n, f) ==
  /\ f \in [0..n -> Nat]
  /\ f[0] = x /\ \A k \in 1..n : f[k] = f[k - 1] \div 256
  /\ EncodeFixed(x, n) = [k \in 1..n |-> f[k - 1] % 256]

\* There is such a function.
LEMMA FixedShape ==
  ASSUME NEW x \in Nat, NEW n \in Nat
  PROVE  \E f : ShiftedOut(x, n, f)
<1> DEFINE Step(g, k) == IF k = 0 THEN x ELSE g[k - 1] \div 256
           Good(m) == \E g \in [0..m -> Nat] : \A k \in 0..m : g[k] = Step(g, k)
           Def(g) == g = [k \in 0..n |-> Step(g, k)]
           Shifted == CHOOSE g : Def(g)
           S == {m \in Nat : Good(m)}
<1>1. Good(0)
  <2> DEFINE g == [k \in 0..0 |-> x]
  <2>1. g \in [0..0 -> Nat] /\ \A k \in 0..0 : g[k] = Step(g, k)
    OBVIOUS
  <2> QED
    BY <2>1
<1>2. ASSUME NEW m \in Nat, Good(m) PROVE Good(m + 1)
  <2>1. PICK g \in [0..m -> Nat] : \A k \in 0..m : g[k] = Step(g, k)
    BY <1>2
  <2> DEFINE v == g[m] \div 256
             h == [k \in 0..(m + 1) |-> IF k = m + 1 THEN v ELSE g[k]]
  <2>2. v \in Nat /\ v = g[m] \div 256
    BY <2>1
  <2> HIDE DEF v
  <2>3. h \in [0..(m + 1) -> Nat]
    BY <2>2
  <2>4. ASSUME NEW k \in 0..(m + 1) PROVE h[k] = Step(h, k)
    <3>1. CASE k = m + 1
      BY <2>2, <3>1
    <3>2. CASE k # m + 1
      <4>1. k \in 0..m /\ h[k] = g[k] /\ g[k] = Step(g, k)
        BY <2>1, <3>2
      <4>2. k # 0 => k - 1 \in 0..m /\ h[k - 1] = g[k - 1]
        BY <4>1
      <4> QED
        BY <4>1, <4>2
    <3> QED
      BY <3>1, <3>2
  <2> HIDE DEF h
  <2> QED
    BY <2>3, <2>4
<1>3. Good(n)
  <2> HIDE DEF Good
  <2>1. 0 \in S /\ \A m \in Nat : m \in S => m + 1 \in S
    BY <1>1, <1>2
  <2> HIDE DEF S
  <2>2. n \in S
    BY <2>1, SetInduction
  <2> QED
    BY <2>2 DEF S
<1>4. PICK g \in [0..n -> Nat] : \A k \in 0..n : g[k] = Step(g, k)
  BY <1>3
<1>5. Def(g)
  BY <1>4
<1>6. Def(Shifted)
  BY <1>5
<1>7. EncodeFixed(x, n) = [k \in 1..n |-> Shifted[k - 1] % 256]
  BY DEF EncodeFixed
<1> HIDE DEF Shifted
<1>8. \A k \in 0..n : Shifted[k] = Step(Shifted, k)
  BY <1>6
<1> DEFINE R == {m \in Nat : m <= n => Shifted[m] \in Nat}
<1>9. 0 \in R
  BY <1>8
<1>10. ASSUME NEW m \in Nat, m \in R PROVE m + 1 \in R
  <2> SUFFICES ASSUME m + 1 <= n PROVE Shifted[m + 1] \in Nat
    OBVIOUS
  <2>1. m + 1 \in 0..n /\ m + 1 # 0 /\ (m + 1) - 1 = m /\ Shifted[m] \in Nat
    BY <1>10
  <2>2. Shifted[m + 1] = Shifted[m] \div 256
    BY <1>8, <2>1
  <2> QED
    BY <2>1, <2>2
<1> HIDE DEF R
<1>11. Nat \subseteq R
  BY <1>9, <1>10, SetInduction
<1>12. Shifted \in [0..n -> Nat]
  <2>1. \A k \in 0..n : Shifted[k] \in Nat
    BY <1>11 DEF R
  <2>2. Shifted = [k \in 0..n |-> Shifted[k]]
    BY <1>6
  <2> QED
    BY <2>1, <2>2
<1>13. Shifted[0] = x /\ \A k \in 1..n : Shifted[k] = Shifted[k - 1] \div 256
  <2>1. 0 \in 0..n /\ \A k \in 1..n : k \in 0..n /\ k # 0
    OBVIOUS
  <2> QED
    BY <1>8, <2>1
<1> QED
  BY <1>7, <1>12, <1>13 DEF ShiftedOut

LEMMA FixedBytes ==
  ASSUME NEW x \in Nat, NEW n \in Nat
  PROVE  EncodeFixed(x, n) \in Seq(Bytes) /\ Len(EncodeFixed(x, n)) = n
<1>1. PICK f : ShiftedOut(x, n, f)
  BY FixedShape
<1>2. \A k \in 1..n : f[k - 1] % 256 \in Bytes
  <2> TAKE k \in 1..n
  <2>1. k - 1 \in 0..n
    OBVIOUS
  <2>2. f[k - 1] \in Nat
    BY <1>1, <2>1 DEF ShiftedOut
  <2>3. \A y \in Nat : y % 256 \in Bytes
    BY DEF Bytes
  <2> QED
    BY <2>2, <2>3
<1> QED
  BY <1>1, <1>2 DEF ShiftedOut

\* a word has an even number of values
LEMMA WordIsEven == \E h \in Nat : Word = 2 * h
<1>1. VarintLen - 1 \in 1..VarintLen /\ VarintLen - 2 \in 0..VarintLen /\ LastLimit \in Nat
  BY WireAssumption
<1>2. Weight[VarintLen - 1] = 128 * Weight[VarintLen - 2] /\ Weight[VarintLen - 2] \in Nat
  <2>1. Weight[VarintLen - 1] = 128 * Weight[(VarintLen - 1) - 1]
    BY <1>1, WeightFacts
  <2>2. (VarintLen - 1) - 1 = VarintLen - 2
    BY WireAssumption
  <2> QED
    BY <1>1, <2>1, <2>2, WeightFacts
<1>3. \A l, w \in Nat : l * (128 * w) = 2 * (64 * (l * w)) /\ 64 * (l * w) \in Nat
  OBVIOUS
<1> DEFINE w == Weight[VarintLen - 2]
<1>4. Word = LastLimit * (128 * w) /\ w \in Nat
  BY <1>2, WordAssumption
<1> HIDE DEF w
<1>5. Word = 2 * (64 * (LastLimit * w)) /\ 64 * (LastLimit * w) \in Nat
  BY <1>1, <1>3, <1>4
<1> QED
  BY <1>5

LEMMA UnzigzagFits ==
  ASSUME NEW w \in Nat, w > 0, NEW x \in 0..(w - 1)
  PROVE  Unzigzag(x, w) \in Nat /\ Unzigzag(x, w) <= w /\ (\A h \in Nat : w = 2 * h => Unzigzag(x, w) < w)
<1>1. CASE x < w \div 2
  BY <1>1 DEF Unzigzag
<1>2. CASE ~(x < w \div 2)
  BY <1>2 DEF Unzigzag
<1> QED
  BY <1>1, <1>2

LEMMA ValueBytes ==
  ASSUME NEW val \in {"varint", "zigzag32", "zigzag64", "fixed32", "fixed64"}, NEW x \in Nat, x < Word
  PROVE  valEnc(val, x) \in Seq(Bytes)
<1>0. Word \in Nat /\ Word > 0 /\ Word32 \in Nat /\ Word32 > 0 /\ Word32 < Word
  BY WireAssumption, Word32Assumption
<1>1. CASE val = "varint"
  BY <1>1, VarintSizes DEF valEnc
<1>2. CASE val = "zigzag32"
  <2>1. x % Word32 \in 0..(Word32 - 1)
    BY <1>0
  <2>2. Unzigzag(x % Word32, Word32) \in Nat /\ Unzigzag(x % Word32, Word32) < Word
    BY <1>0, <2>1, UnzigzagFits
  <2> QED
    BY <1>2, <2>2, VarintSizes DEF valEnc
<1>3. CASE val = "zigzag64"
  <2>1. x \in 0..(Word - 1)
    BY <1>0
  <2>2. Unzigzag(x, Word) \in Nat /\ Unzigzag(x, Word) < Word
    BY <1>0, <2>1, UnzigzagFits, WordIsEven
  <2> QED
    BY <1>3, <2>2, VarintSizes DEF valEnc
<1>4. CASE val = "fixed32"
  <2>1. x % Word32 \in Nat
    BY <1>0
  <2> QED
    BY <1>4, <2>1, FixedBytes DEF valEnc
<1>5. CASE val = "fixed64"
  BY <1>5, FixedBytes DEF valEnc
<1> QED
  BY <1>1, <1>2, <1>3, <1>4, <1>5

\* the other way
LEMMA ZigzagBack ==
  ASSUME NEW h \in Nat, NEW x \in 0..(2 * h - 1)
  PROVE  Zigzag(Unzigzag(x, 2 * h), 2 * h) = x
<1>1. (2 * h) \div 2 = h
  OBVIOUS
<1>2. CASE x < h
  <2>1. Unzigzag(x, 2 * h) = 2 * x
    BY <1>1, <1>2 DEF Unzigzag
  <2>2. (2 * x) % 2 = 0 /\ (2 * x) \div 2 = x
    OBVIOUS
  <2> QED
    BY <2>1, <2>2 DEF Zigzag
<1>3. CASE ~(x < h)
  <2> DEFINE y == 2 * h - x - 1
  <2>1. Unzigzag(x, 2 * h) = 2 * y + 1 /\ y \in Nat
    BY <1>1, <1>3 DEF Unzigzag
  <2>2. \A z \in Nat : (2 * z + 1) % 2 = 1 /\ (2 * z + 1) \div 2 = z
    OBVIOUS
  <2>3. Zigzag(Unzigzag(x, 2 * h), 2 * h) = 2 * h - 1 - y
    BY <2>1, <2>2 DEF Zigzag
  <2> QED
    BY <2>3
<1> QED
  BY <1>2, <1>3

LEMMA FixedReadBack ==
  ASSUME NEW x \in Nat, NEW n \in Nat, NEW f, ShiftedOut(x, n, f), f[n] = 0,
         NEW b \in Seq(Bytes), NEW i \in Nat, StandsAt(b, i, EncodeFixed(x, n))
  PROVE  LittleEndian(b, i, n) = x
<1> DEFINE Step(g, k) == IF k = n THEN 0 ELSE Byte(b, i + k) + 256 * g[k + 1]
           Def(g) == g = [k \in 0..n |-> Step(g, k)]
           From == CHOOSE g : Def(g)
<1>0. /\ f \in [0..n -> Nat]
      /\ f[0] = x /\ \A k \in 1..n : f[k] = f[k - 1] \div 256
      /\ EncodeFixed(x, n) = [k \in 1..n |-> f[k - 1] % 256]
  BY DEF ShiftedOut
<1>1. \A k \in 0..(n - 1) : Byte(b, i + k) = f[k] % 256
  <2> TAKE k \in 0..(n - 1)
  <2>1. k + 1 \in 1..n /\ (k + 1) - 1 = k /\ i + (k + 1) = (i + k) + 1 /\ Len(EncodeFixed(x, n)) = n
    BY <1>0
  <2>2. b[i + (k + 1)] = EncodeFixed(x, n)[k + 1]
    BY <2>1 DEF StandsAt
  <2>3. EncodeFixed(x, n)[k + 1] = f[(k + 1) - 1] % 256
    BY <1>0, <2>1
  <2> QED
    BY <2>1, <2>2, <2>3 DEF Byte
<1>2. \A k \in 0..(n - 1) : f[k] = (f[k] % 256) + 256 * f[k + 1]
  <2> TAKE k \in 0..(n - 1)
  <2>1. k + 1 \in 1..n /\ (k + 1) - 1 = k /\ k \in 0..n
    OBVIOUS
  <2>2. f[k + 1] = f[k] \div 256 /\ f[k] \in Nat
    BY <1>0, <2>1
  <2>3. \A y \in Nat : y = (y % 256) + 256 * (y \div 256)
    OBVIOUS
  <2> QED
    BY <2>2, <2>3
<1>3. Def(f)
  <2>1. ASSUME NEW k \in 0..n PROVE f[k] = Step(f, k)
    <3>1. CASE k = n
      BY <3>1
    <3>2. CASE k # n
      <4>1. k \in 0..(n - 1)
        BY <3>2
      <4> QED
        BY <1>1, <1>2, <3>2, <4>1
    <3> QED
      BY <3>1, <3>2
  <2>2. f = [k \in 0..n |-> f[k]]
    BY <1>0
  <2> HIDE DEF Step
  <2> QED
    BY <2>1, <2>2
<1>4. LittleEndian(b, i, n) = From[0]
  BY DEF LittleEndian
<1> HIDE DEF Step
<1>5. Def(From)
  BY <1>3
<1> HIDE DEF From
<1>6. \A k \in 0..n : From[k] = Step(From, k)
  BY <1>5
<1> USE DEF Step
<1> DEFINE S == {k \in 0..n : From[k] = f[k]}
<1>7. n \in S
  <2>1. n \in 0..n /\ From[n] = 0
    BY <1>6
  <2>2. f[n] = 0
    OBVIOUS
  <2> QED
    BY <2>1, <2>2
<1>8. ASSUME NEW k \in 0..(n - 1), k + 1 \in S PROVE k \in S
  <2>1. k \in 0..n /\ k # n
    OBVIOUS
  <2>2. From[k] = Byte(b, i + k) + 256 * From[k + 1]
    BY <1>6, <2>1
  <2>3. f[k] = Byte(b, i + k) + 256 * f[k + 1]
    BY <1>1, <1>2
  <2> QED
    BY <1>8, <2>1, <2>2, <2>3
<1> HIDE DEF S
<1>9. 0..n \subseteq S
  BY <1>7, <1>8, Downwards
<1>10. 0 \in 0..n
  OBVIOUS
<1> QED
  BY <1>0, <1>4, <1>9, <1>10 DEF S

-----------------------------------------------------------------------------
(* numbers as they are written and read back *)

\* what is left of a number in the bits of its encoding
Encodable(val, x) ==
  CASE val \in {"varint", "zigzag64", "fixed64"} -> x
    [] val = "zigzag32" -> SignExtended(x % Word32)
    [] val = "fixed32"  -> x % Word32

LEMMA TwoBytes == \A y \in Nat : (y \div 256) \div 256 = y \div 65536
<1> SUFFICES ASSUME NEW y \in Nat PROVE (y \div 256) \div 256 = y \div 65536
  OBVIOUS
<1> DEFINE q == y \div 256
           r == q \div 256
<1>1. q \in Nat /\ 256 * q <= y /\ y < 256 * q + 256
  OBVIOUS
<1>2. r \in Nat /\ 256 * r <= q /\ q < 256 * r + 256
  BY <1>1
<1> HIDE DEF q, r
<1>3. 65536 * r <= y /\ y < 65536 * r + 65536
  BY <1>1, <1>2
<1>4. y \div 65536 = r
  BY <1>2, <1>3
<1> QED
  BY <1>4 DEF q, r

\* nothing is left of a number after all its bytes
LEMMA FixedFits ==
  ASSUME NEW x \in Nat, NEW f
  PROVE  /\ (x < Word32 /\ ShiftedOut(x, 4, f)) => f[4] = 0
         /\ (x < Word /\ ShiftedOut(x, 8, f)) => f[8] = 0
<1>0. \A y, z \in Nat : y <= z => y \div 65536 <= z \div 65536 /\ y \div 65536 \in Nat
  OBVIOUS
<1>1. ASSUME x < Word32, ShiftedOut(x, 4, f) PROVE f[4] = 0
  <2>1. f \in [0..4 -> Nat] /\ f[0] = x /\ \A k \in 1..4 : f[k] = f[k - 1] \div 256
    BY <1>1 DEF ShiftedOut
  <2>2. f[1] = f[0] \div 256 /\ f[2] = f[1] \div 256 /\ f[3] = f[2] \div 256 /\ f[4] = f[3] \div 256
    BY <2>1
  <2>3. f[0] \in Nat /\ f[2] \in Nat /\ f[4] \in Nat
    BY <2>1
  <2>4. f[2] = x \div 65536 /\ f[4] = f[2] \div 65536
    BY <2>1, <2>2, <2>3, TwoBytes
  <2>5. x <= Word32 - 1 /\ Word32 - 1 \in Nat /\ (Word32 - 1) \div 65536 < 65536
    BY <1>1, Word32Assumption
  <2>6. f[2] <= (Word32 - 1) \div 65536
    BY <1>0, <2>4, <2>5
  <2>7. f[2] < 65536
    BY <1>0, <2>3, <2>5, <2>6
  <2> QED
    BY <2>3, <2>4, <2>7
<1>2. ASSUME x < Word, ShiftedOut(x, 8, f) PROVE f[8] = 0
  <2>1. f \in [0..8 -> Nat] /\ f[0] = x /\ \A k \in 1..8 : f[k] = f[k - 1] \div 256
    BY <1>2 DEF ShiftedOut
  <2>2. /\ f[1] = f[0] \div 256 /\ f[2] = f[1] \div 256 /\ f[3] = f[2] \div 256 /\ f[4] = f[3] \div 256
        /\ f[5] = f[4] \div 256 /\ f[6] = f[5] \div 256 /\ f[7] = f[6] \div 256 /\ f[8] = f[7] \div 256
    BY <2>1
  <2>3. f[0] \in Nat /\ f[2] \in Nat /\ f[4] \in Nat /\ f[6] \in Nat /\ f[8] \in Nat
    BY <2>1
  <2>4. f[2] = x \div 65536 /\ f[4] = f[2] \div 65536 /\ f[6] = f[4] \div 65536 /\ f[8] = f[6] \div 65536
    <3>1. f[2] = (f[0] \div 256) \div 256 /\ f[4] = (f[2] \div 256) \div 256
      BY <2>2
    <3>2. f[6] = (f[4] \div 256) \div 256 /\ f[8] = (f[6] \div 256) \div 256
      BY <2>2
    <3>3. f[2] = f[0] \div 65536 /\ f[4] = f[2] \div 65536
      BY <2>3, <3>1, TwoBytes
    <3>4. f[6] = f[4] \div 65536 /\ f[8] = f[6] \div 65536
      BY <2>3, <3>2, TwoBytes
    <3> QED
      BY <2>1, <3>3, <3>4
  <2> DEFINE y == Word - 1
             u == y \div 65536
             v == u \div 65536
             w == v \div 65536
  <2>5. x <= y /\ y \in Nat /\ w < 65536
    BY <1>2, Word32Assumption, WireAssumption
  <2>6. u \in Nat /\ v \in Nat /\ w \in Nat
    BY <2>5
  <2>7. f[2] <= u
    BY <1>0, <2>4, <2>5
  <2>8. f[4] <= v
    BY <1>0, <2>3, <2>4, <2>6, <2>7
  <2>9. f[6] <= w
    BY <1>0, <2>3, <2>4, <2>6, <2>8
  <2> HIDE DEF w
  <2>10. f[6] < 65536
    BY <2>3, <2>5, <2>6, <2>9
  <2> QED
    BY <2>3, <2>4, <2>10
<1> QED
  BY <1>1, <1>2

LEMMA FixedDecodes ==
  ASSUME NEW x \in Nat, NEW n \in {4, 8}, (n = 4 => x < Word32), x < Word, NEW b \in Seq(Bytes), Len(b) < Word,
         NEW i \in Nat, StandsAt(b, i, EncodeFixed(x, n))
  PROVE  DecodeFixed(b, i, n) = Read(x, i + n)
<1>1. PICK f : ShiftedOut(x, n, f)
  BY FixedShape
<1>2. f[n] = 0
  BY <1>1, FixedFits
<1>3. LittleEndian(b, i, n) = x
  BY <1>1, <1>2, FixedReadBack
<1>4. Len(EncodeFixed(x, n)) = n /\ n \in Nat
  BY FixedBytes
<1>5. i + n <= Len(b)
  BY <1>4 DEF StandsAt
<1>6. (i + n) % Word = i + n
  <2>1. Len(b) \in Nat /\ Word \in Nat
    BY WireAssumption
  <2>2. i + n \in Nat /\ i + n < Word
    BY <1>4, <1>5, <2>1
  <2> QED
    BY <2>2, Small
<1> QED
  BY <1>3, <1>4, <1>5, <1>6 DEF DecodeFixed

\* What an encoder of numbers writes is read back by the decoder of the same name: all of a word in
\* a varint, a zigzag64 or a fixed64, and what 32 bits hold of it in a zigzag32 or a fixed32, wherever
\* it stands and whatever follows it.
THEOREM NumberReadBack ==
  ASSUME NEW val \in {"varint", "zigzag32", "zigzag64", "fixed32", "fixed64"}, NEW x \in Nat, x < Word,
         NEW b \in Seq(Bytes), Len(b) < Word, NEW i \in Nat, StandsAt(b, i, valEnc(val, x))
  PROVE  valDec(val, b, i) = Read(Encodable(val, x), i + Len(valEnc(val, x)))
<1>0. Word \in Nat /\ Word > 0 /\ Word32 \in Nat /\ Word32 > 0 /\ Word32 < Word /\ Word32 % 2 = 0
  BY WireAssumption, Word32Assumption
<1>1. CASE val = "varint"
  <2>1. valEnc(val, x) = EncodeVarint(x) /\ valDec(val, b, i) = DecodeVarint(b, i) /\ Encodable(val, x) = x
    BY <1>1 DEF valEnc, valDec, Encodable
  <2> QED
    BY <2>1, VarintReadBack
<1>2. CASE val = "zigzag32"
  <2> DEFINE z == Unzigzag(x % Word32, Word32)
  <2>1. PICK h \in Nat : Word32 = 2 * h
    <3>1. \A w \in Nat : w % 2 = 0 => w = 2 * (w \div 2) /\ w \div 2 \in Nat
      OBVIOUS
    <3> QED
      BY <1>0, <3>1
  <2>2. x % Word32 \in 0..(Word32 - 1)
    BY <1>0
  <2>3. z \in Nat /\ z < Word32
    BY <1>0, <2>1, <2>2, UnzigzagFits
  <2>4. Zigzag(z, Word32) = x % Word32
    BY <2>1, <2>2, ZigzagBack
  <2> HIDE DEF z
  <2>5. valEnc(val, x) = EncodeVarint(z) /\ valDec(val, b, i) = DecodeZigzag32(b, i) /\ Encodable(val, x) = SignExtended(x % Word32)
    BY <1>2 DEF valEnc, valDec, Encodable, z
  <2>6. DecodeVarint(b, i) = Read(z, i + Len(EncodeVarint(z)))
    BY <1>0, <2>3, <2>5, VarintReadBack
  <2>7. z % Word32 = z
    BY <1>0, <2>3
  <2>8. DecodeZigzag32(b, i) = Read(SignExtended(x % Word32), i + Len(EncodeVarint(z)))
    BY <2>4, <2>6, <2>7 DEF DecodeZigzag32
  <2> QED
    BY <2>5, <2>8
<1>3. CASE val = "zigzag64"
  <2> DEFINE z == Unzigzag(x, Word)
  <2>1. PICK h \in Nat : Word = 2 * h
    BY WordIsEven
  <2>2. x \in 0..(Word - 1)
    BY <1>0
  <2>3. z \in Nat /\ z < Word
    BY <1>0, <2>1, <2>2, UnzigzagFits
  <2>4. Zigzag(z, Word) = x
    BY <2>1, <2>2, ZigzagBack
  <2> HIDE DEF z
  <2>5. valEnc(val, x) = EncodeVarint(z) /\ valDec(val, b, i) = DecodeZigzag64(b, i) /\ Encodable(val, x) = x
    BY <1>3 DEF valEnc, valDec, Encodable, z
  <2>6. DecodeVarint(b, i) = Read(z, i + Len(EncodeVarint(z)))
    BY <2>3, <2>5, VarintReadBack
  <2>7. DecodeZigzag64(b, i) = Read(x, i + Len(EncodeVarint(z)))
    BY <2>4, <2>6 DEF DecodeZigzag64
  <2> QED
    BY <2>5, <2>7
<1>4. CASE val = "fixed32"
  <2>1. x % Word32 \in Nat /\ x % Word32 < Word32 /\ x % Word32 < Word
    BY <1>0
  <2>2. valEnc(val, x) = EncodeFixed(x % Word32, 4) /\ valDec(val, b, i) = DecodeFixed(b, i, 4) /\ Encodable(val, x) = x % Word32
    BY <1>4 DEF valEnc, valDec, Encodable
  <2>3. Len(EncodeFixed(x % Word32, 4)) = 4
    BY <2>1, FixedBytes
  <2>4. StandsAt(b, i, EncodeFixed(x % Word32, 4)) /\ 4 \in {4, 8}
    BY <2>2
  <2>5. DecodeFixed(b, i, 4) = Read(x % Word32, i + 4)
    BY <2>1, <2>4, FixedDecodes
  <2> QED
    BY <2>2, <2>3, <2>5
<1>5. CASE val = "fixed64"
  <2>1. valEnc(val, x) = EncodeFixed(x, 8) /\ valDec(val, b, i) = DecodeFixed(b, i, 8) /\ Encodable(val, x) = x
    BY <1>5 DEF valEnc, valDec, Encodable
  <2>2. Len(EncodeFixed(x, 8)) = 8
    BY FixedBytes
  <2>3. StandsAt(b, i, EncodeFixed(x, 8)) /\ 8 \in {4, 8} /\ 8 # 4
    BY <2>1
  <2>4. DecodeFixed(b, i, 8) = Read(x, i + 8)
    BY <2>3, FixedDecodes
  <2> QED
    BY <2>1, <2>2, <2>4
<1> QED
  BY <1>1, <1>2, <1>3, <1>4, <1>5

-----------------------------------------------------------------------------
(* end to end *)

\* r has what comes from each sequence on
Suffixes(S, ss, r) ==
  /\ r \in [1..(Len(ss) + 1) -> Seq(S)] /\ r[1] = Concat(ss) /\ r[Len(ss) + 1] = <<>>
  /\ \A k \in 1..Len(ss) : r[k] = ss[k] \o r[k + 1]

LEMMA ConcatSuffixes ==
  ASSUME NEW S, NEW ss \in Seq(Seq(S))
  PROVE  \E r : Suffixes(S, ss, r)
<1> DEFINE n == Len(ss)
           Step(g, k) == IF k > n THEN <<>> ELSE ss[k] \o g[k + 1]
           Good(m) == \E g \in [(m + 1)..(n + 1) -> Seq(S)] : \A k \in (m + 1)..(n + 1) : g[k] = Step(g, k)
           Def(g) == g = [k \in 1..(n + 1) |-> Step(g, k)]
           From == CHOOSE g : Def(g)
           T == {m \in 0..n : Good(m)}
           R == {m \in 0..n : From[m + 1] \in Seq(S)}
<1>1. n \in Nat /\ \A k \in 1..n : ss[k] \in Seq(S)
  OBVIOUS
<1>2. Concat(ss) = From[1]
  BY DEF Concat
<1> HIDE DEF n, From
<1>3. Good(n)
  <2> DEFINE g == [k \in (n + 1)..(n + 1) |-> <<>>]
  <2>1. g \in [(n + 1)..(n + 1) -> Seq(S)]
    OBVIOUS
  <2>2. ASSUME NEW k \in (n + 1)..(n + 1) PROVE g[k] = Step(g, k)
    <3>1. k > n /\ g[k] = <<>>
      BY <1>1
    <3> HIDE DEF g
    <3> QED
      BY <3>1
  <2> QED
    BY <2>1, <2>2
<1>4. ASSUME NEW m \in 0..(n - 1), Good(m + 1) PROVE Good(m)
  <2>1. PICK g \in [((m + 1) + 1)..(n + 1) -> Seq(S)] : \A k \in ((m + 1) + 1)..(n + 1) : g[k] = Step(g, k)
    BY <1>4
  <2> DEFINE v == ss[m + 1] \o g[(m + 1) + 1]
             h == [k \in (m + 1)..(n + 1) |-> IF k = m + 1 THEN v ELSE g[k]]
  <2>2. v \in Seq(S) /\ v = ss[m + 1] \o g[(m + 1) + 1]
    <3>1. m + 1 \in 1..n /\ (m + 1) + 1 \in ((m + 1) + 1)..(n + 1)
      BY <1>1
    <3>2. ss[m + 1] \in Seq(S) /\ g[(m + 1) + 1] \in Seq(S)
      BY <1>1, <2>1, <3>1
    <3> QED
      BY <3>2
  <2> HIDE DEF v
  <2>3. h \in [(m + 1)..(n + 1) -> Seq(S)]
    BY <1>1, <2>2
  <2>4. ASSUME NEW k \in (m + 1)..(n + 1) PROVE h[k] = Step(h, k)
    <3>1. CASE k = m + 1
      <4>1. ~(k > n) /\ h[k] = v /\ h[k + 1] = g[k + 1]
        BY <1>1, <3>1
      <4> QED
        BY <2>2, <3>1, <4>1
    <3>2. CASE k # m + 1
      <4>0. k \in ((m + 1) + 1)..(n + 1) /\ h[k] = g[k]
        BY <1>1, <3>2
      <4>1. k \in ((m + 1) + 1)..(n + 1) /\ h[k] = g[k] /\ g[k] = Step(g, k)
        <5> HIDE DEF h, Step
        <5> QED
          BY <2>1, <4>0
      <4>2. CASE k > n
        <5> HIDE DEF h
        <5>1. Step(g, k) = <<>> /\ Step(h, k) = <<>>
          BY <4>2
        <5> QED
          BY <4>1, <5>1
      <4>3. CASE ~(k > n)
        <5>1. h[k + 1] = g[k + 1]
          BY <1>1, <4>1, <4>3
        <5> HIDE DEF h
        <5>2. Step(g, k) = ss[k] \o g[k + 1] /\ Step(h, k) = ss[k] \o h[k + 1]
          BY <4>3
        <5> QED
          BY <4>1, <5>1, <5>2
      <4> QED
        BY <4>2, <4>3
    <3> QED
      BY <3>1, <3>2
  <2> HIDE DEF h
  <2> QED
    BY <2>3, <2>4
<1>5. Good(0)
  <2> HIDE DEF Good
  <2>1. n \in T /\ \A m \in 0..(n - 1) : m + 1 \in T => m \in T
    BY <1>1, <1>3, <1>4
  <2> HIDE DEF T
  <2>2. 0 \in T
    BY <1>1, <2>1, Downwards
  <2> QED
    BY <2>2 DEF T
<1>6. PICK g \in [(0 + 1)..(n + 1) -> Seq(S)] : \A k \in (0 + 1)..(n + 1) : g[k] = Step(g, k)
  BY <1>5
<1>7. Def(g)
  <2>1. 0 + 1 = 1
    OBVIOUS
  <2>2. g \in [1..(n + 1) -> Seq(S)] /\ \A k \in 1..(n + 1) : g[k] = Step(g, k)
    BY <1>6, <2>1
  <2>3. g = [k \in 1..(n + 1) |-> g[k]]
    BY <2>2
  <2> HIDE DEF Step
  <2> QED
    BY <2>2, <2>3
<1>8. Def(From)
  BY <1>7 DEF From
<1>9. \A k \in 1..(n + 1) : From[k] = Step(From, k)
  BY <1>8
<1>10. n \in R
  <2>1. n + 1 \in 1..(n + 1) /\ n + 1 > n
    BY <1>1
  <2>2. From[n + 1] = <<>>
    BY <1>9, <2>1
  <2>3. <<>> \in Seq(S) /\ n \in 0..n
    BY <1>1
  <2>4. From[n + 1] \in Seq(S)
    BY <2>2, <2>3
  <2> QED
    BY <2>3, <2>4
<1>11. ASSUME NEW m \in 0..(n - 1), m + 1 \in R PROVE m \in R
  <2>1. m + 1 \in 1..(n + 1) /\ ~(m + 1 > n) /\ m + 1 \in 1..n /\ m \in 0..n
    BY <1>1
  <2>2. From[m + 1] = ss[m + 1] \o From[(m + 1) + 1]
    BY <1>9, <2>1
  <2>3. ss[m + 1] \in Seq(S) /\ From[(m + 1) + 1] \in Seq(S)
    BY <1>1, <1>11, <2>1
  <2>4. From[m + 1] \in Seq(S)
    BY <2>2, <2>3
  <2> QED
    BY <2>1, <2>4
<1>12. 0..n \subseteq R
  <2> HIDE DEF R
  <2> QED
    BY <1>1, <1>10, <1>11, Downwards
<1>13. ASSUME NEW k \in 1..(n + 1) PROVE From[k] \in Seq(S)
  <2>1. k - 1 \in 0..n /\ (k - 1) + 1 = k
    BY <1>1
  <2>2. k - 1 \in R
    BY <1>12, <2>1
  <2> QED
    BY <2>1, <2>2
<1>14. From \in [1..(n + 1) -> Seq(S)]
  <2>1. From = [k \in 1..(n + 1) |-> From[k]]
    BY <1>8, <1>9
  <2> QED
    BY <1>13, <2>1
<1>15. From[n + 1] = <<>>
  BY <1>1, <1>9
<1>16. ASSUME NEW k \in 1..n PROVE From[k] = ss[k] \o From[k + 1]
  <2>1. k \in 1..(n + 1) /\ ~(k > n)
    BY <1>1
  <2> QED
    BY <1>9, <2>1
<1>17. Suffixes(S, ss, From)
  BY <1>2, <1>14, <1>15, <1>16 DEF Suffixes, n
<1> QED
  BY <1>17

\* sequences end to end, and their elements
LEMMA ConcatSeq ==
  ASSUME NEW S, NEW ss \in Seq(Seq(S))
  PROVE  Concat(ss) \in Seq(S)
<1>1. PICK r : Suffixes(S, ss, r)
  BY ConcatSuffixes
<1>2. 1 \in 1..(Len(ss) + 1)
  OBVIOUS
<1> QED
  BY <1>1, <1>2 DEF Suffixes

\* as long as they are together
LEMMA ConcatLength ==
  ASSUME NEW S, NEW ss \in Seq(Seq(S)), NEW l \in Nat, \A k \in 1..Len(ss) : Len(ss[k]) <= l
  PROVE  Len(Concat(ss)) <= l * Len(ss)
<1> DEFINE n == Len(ss)
<1>1. n \in Nat /\ \A k \in 1..n : ss[k] \in Seq(S)
  OBVIOUS
<1>2. PICK r : Suffixes(S, ss, r)
  BY ConcatSuffixes
<1>3. r \in [1..(n + 1) -> Seq(S)] /\ r[1] = Concat(ss) /\ r[n + 1] = <<>> /\ \A k \in 1..n : r[k] = ss[k] \o r[k + 1]
  BY <1>2 DEF Suffixes
<1>4. \A k \in 1..n : Len(ss[k]) <= l
  OBVIOUS
<1> DEFINE R == {m \in 0..n : Len(r[m + 1]) <= l * (n - m)}
<1> HIDE DEF n
<1>5. n \in R
  <2>1. n + 1 \in 1..(n + 1) /\ l * (n - n) = 0 /\ n \in 0..n
    BY <1>1
  <2>2. Len(r[n + 1]) = 0
    BY <1>3
  <2> QED
    BY <2>1, <2>2
<1>6. ASSUME NEW m \in 0..(n - 1), m + 1 \in R PROVE m \in R
  <2>1. m + 1 \in 1..n /\ m \in 0..n /\ m + 1 \in 1..(n + 1) /\ (m + 1) + 1 \in 1..(n + 1) /\ m \in Nat
    BY <1>1
  <2> DEFINE a == ss[m + 1]
             c == r[(m + 1) + 1]
  <2>2. r[m + 1] = a \o c /\ a \in Seq(S) /\ c \in Seq(S)
    BY <1>1, <1>3, <2>1
  <2>3. Len(a) <= l /\ Len(c) <= l * (n - (m + 1))
    BY <1>4, <1>6, <2>1
  <2> HIDE DEF a, c
  <2>4. Len(r[m + 1]) = Len(a) + Len(c) /\ Len(a) \in Nat /\ Len(c) \in Nat
    BY <2>2
  <2>5. l * (n - m) = l + l * (n - (m + 1)) /\ l * (n - (m + 1)) \in Int
    <3>1. \A d \in Int : l * (d + 1) = l + l * d /\ l * d \in Int
      OBVIOUS
    <3>2. n - (m + 1) \in Int /\ (n - (m + 1)) + 1 = n - m
      BY <1>1, <2>1
    <3> QED
      BY <3>1, <3>2
  <2> QED
    BY <2>1, <2>3, <2>4, <2>5
<1> HIDE DEF R
<1>7. 0 \in R
  <2>1. 0..n \subseteq R
    BY <1>1, <1>5, <1>6, Downwards
  <2> QED
    BY <1>1, <2>1
<1>8. Len(r[1]) <= l * n
  BY <1>1, <1>7 DEF R
<1> QED
  BY <1>3, <1>8 DEF n
=============================================================================
