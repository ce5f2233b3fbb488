--------------------------- MODULE FieldCodecs_proofs ---------------------------
(***************************************************************************)
(* What Marshal writes of a field, Unmarshal reads back, for all types and *)
(* tags, all values and words of any length.                               *)
(*                                                                         *)
(* The lemmas go from the parts to the whole. The two numbers of a time    *)
(* are read back (StampReadsBack). setEncAndDec picks an encoder and a     *)
(* decoder of the same shape that fit the type (FieldCodec). A number      *)
(* comes back if it fits in its encoding (NumberBack). A value is written  *)
(* as items, each of which turns what the field is before it into what it  *)
(* is after it, from a new field to the value (Told). So the reader has,   *)
(* after each item, what the items before it say (OnTheWay).               *)
(*                                                                         *)
(* Functions that are defined by recursion over the bytes of a message are *)
(* shown to exist first, by induction on a set.                            *)
(***************************************************************************)
EXTENDS FieldCodecs, Wire_proofs

USE DEF None, EOF, Overflow, BadWire, BadLen, NotFound, Read, Fail

-----------------------------------------------------------------------------
(* functions that are defined by recursion *)

\* step finds the value of a function at x from its values at what is higher than x
FromAbove(S, R, n, h, step) ==
  /\ n \in Nat /\ h \in [S -> 0..n] /\ R # {}
  /\ step \in [[S -> R] -> [S -> R]]
  /\ \A f, g \in [S -> R] : \A x \in S : (\A y \in S : h[x] < h[y] => f[y] = g[y]) => step[f][x] = step[g][x]

LEMMA AtOrAbove == \A a, c \in Nat : (a <= c => c = a \/ a + 1 <= c)
OBVIOUS

\* There is a function with the value that step finds everywhere.
LEMMA Recursion ==
  ASSUME NEW S, NEW R, NEW n, NEW h, NEW step, FromAbove(S, R, n, h, step)
  PROVE  \E f \in [S -> R] : f = step[f]
<1>0. n \in Nat /\ h \in [S -> 0..n] /\ step \in [[S -> R] -> [S -> R]]
  BY DEF FromAbove
<1> PICK r : r \in R
  BY DEF FromAbove
<1> DEFINE Good(j) == \E f \in [S -> R] : \A x \in S : j <= h[x] => f[x] = step[f][x]
           T == {j \in 0..(n + 1) : Good(j)}
<1>1. \A x \in S : h[x] \in Nat /\ h[x] <= n
  BY <1>0
<1>2. Good(n + 1)
  <2> DEFINE f == [x \in S |-> r]
  <2>1. f \in [S -> R] /\ \A x \in S : ~(n + 1 <= h[x])
    BY <1>0, <1>1
  <2> HIDE DEF f
  <2> QED
    BY <2>1
<1>3. ASSUME NEW j \in 0..n, Good(j + 1) PROVE Good(j)
  <2>1. PICK f \in [S -> R] : \A x \in S : j + 1 <= h[x] => f[x] = step[f][x]
    BY <1>3
  <2> DEFINE g == [x \in S |-> IF h[x] = j THEN step[f][x] ELSE f[x]]
  <2>2. step[f] \in [S -> R]
    BY <1>0, <2>1
  <2>3. g \in [S -> R]
    BY <2>1, <2>2
  <2>4. \A x \in S : j <= h[x] => (h[x] = j \/ j + 1 <= h[x]) /\ \A y \in S : h[x] < h[y] => h[y] # j
    <3> TAKE x \in S
    <3>1. h[x] \in Nat /\ j \in Nat
      BY <1>0, <1>1
    <3>2. ASSUME NEW y \in S, j <= h[x], h[x] < h[y] PROVE h[y] # j
      <4>1. h[y] \in Nat
        BY <1>1
      <4> QED
        BY <3>1, <3>2, <4>1
    <3>3. j <= h[x] => h[x] = j \/ j + 1 <= h[x]
      BY <3>1, AtOrAbove, Zenon
    <3> QED
      BY <3>2, <3>3
  <2>5. ASSUME NEW x \in S, j <= h[x] PROVE g[x] = step[g][x]
    <3>1. \A y \in S : h[x] < h[y] => g[y] = f[y]
      BY <2>4, <2>5
    <3>2. step[g][x] = step[f][x]
      BY <2>1, <2>3, <3>1 DEF FromAbove
    <3>3. g[x] = step[f][x]
      BY <2>1, <2>4, <2>5
    <3> QED
      BY <3>2, <3>3
  <2> HIDE DEF g
  <2> QED
    BY <2>3, <2>5
<1>4. Good(0)
  <2> HIDE DEF Good
  <2>1. n + 1 \in T /\ \A j \in 0..((n + 1) - 1) : j + 1 \in T => j \in T
    BY <1>0, <1>2, <1>3
  <2> HIDE DEF T
  <2>2. 0..(n + 1) \subseteq T
    BY <1>0, <2>1, Downwards
  <2>3. 0 \in 0..(n + 1)
    BY <1>0
  <2> QED
    BY <2>2, <2>3 DEF T
<1>5. PICK f \in [S -> R] : \A x \in S : 0 <= h[x] => f[x] = step[f][x]
  BY <1>4
<1>6. \A x \in S : f[x] = step[f][x]
  BY <1>1, <1>5
<1>7. step[f] \in [S -> R]
  BY <1>0
<1>8. f = step[f]
  BY <1>6, <1>7
<1> QED
  BY <1>8

-----------------------------------------------------------------------------
(* what a varint holds fits in a word *)

LEMMA LowBits == \A y \in Nat : y % 128 \in 0..127 /\ (y < 128 => y % 128 = y)
OBVIOUS

\* the groups of n bytes of which the last is below top
LEMMA GroupsBelow ==
  ASSUME NEW b \in Seq(Bytes), NEW i \in Nat, NEW n \in 1..VarintLen, i + n <= Len(b),
         NEW top \in 1..128, Byte(b, i + n - 1) < top
  PROVE  Groups(b, i, n) < top * Weight[n - 1]
<1>1. PICK g \in [0..n -> Nat] : AreSums(b, i, n, g)
  <2>1. n \in Nat
    OBVIOUS
  <2> QED
    BY <2>1, GroupsFrom
<1>2. VarintLen \in Nat /\ n \in Nat /\ top \in Nat /\ \A k \in 0..VarintLen : Weight[k] \in Nat \ {0}
  <2>1. VarintLen \in Nat /\ n \in Nat /\ top \in Nat
    BY WireAssumption
  <2> QED
    BY <2>1, WeightFacts, Zenon
<1> DEFINE S == {k \in 0..(n - 1) : g[k] < top * Weight[n - 1 - k]}
<1>3. n - 1 \in S
  <2>1. n - 1 \in 0..n /\ n \in 0..n /\ n - 1 # n /\ (n - 1) + 1 = n /\ i + (n - 1) = i + n - 1
    BY <1>2
  <2>2. g[n - 1] = (Byte(b, i + (n - 1)) % 128) + 128 * g[(n - 1) + 1] /\ g[n] = 0
    BY <1>1, <2>1 DEF AreSums
  <2>3. i + n - 1 < Len(b) /\ i + n - 1 \in Nat
    BY <1>2
  <2>4. Byte(b, i + n - 1) \in Nat
    BY <2>3, ByteFacts
  <2> DEFINE y == Byte(b, i + n - 1)
  <2>5. y % 128 = y
    <3>1. \A z \in Nat : \A t \in 1..128 : z < t => z < 128
      OBVIOUS
    <3>2. y < 128
      BY <2>4, <3>1
    <3> QED
      BY <2>4, <3>2, LowBits
  <2>6. g[n - 1] = y
    BY <2>1, <2>2, <2>4, <2>5
  <2>7. n - 1 - (n - 1) = 0 /\ Weight[0] = 1
    BY <1>2, WeightFacts
  <2> QED
    BY <1>2, <2>6, <2>7
<1>4. ASSUME NEW k \in 0..((n - 1) - 1), k + 1 \in S PROVE k \in S
  <2>1. k \in 0..n /\ k # n /\ k + 1 \in 0..n /\ n - 1 - k \in 1..VarintLen /\ (n - 1 - k) - 1 = n - 1 - (k + 1) /\ n - 1 - (k + 1) \in 0..VarintLen
    BY <1>2
  <2>2. g[k] = (Byte(b, i + k) % 128) + 128 * g[k + 1]
    BY <1>1, <2>1 DEF AreSums
  <2>3. Weight[n - 1 - k] = 128 * Weight[n - 1 - (k + 1)]
    BY <2>1, WeightFacts
  <2>4. i + k < Len(b) /\ i + k \in Nat
    BY <1>2
  <2>5. Byte(b, i + k) \in Nat
    BY <2>4, ByteFacts
  <2> DEFINE r == Byte(b, i + k) % 128
             v == Weight[n - 1 - (k + 1)]
             u == top * v
             a == g[k + 1]
  <2>6. r \in 0..127
    BY <2>5, LowBits
  <2>7. v \in Nat /\ u \in Nat /\ a \in Nat /\ a < u
    BY <1>1, <1>2, <1>4, <2>1
  <2>8. top * Weight[n - 1 - k] = 128 * u
    <3>1. \A t, w \in Nat : t * (128 * w) = 128 * (t * w)
      OBVIOUS
    <3> QED
      BY <1>2, <2>3, <2>7, <3>1
  <2> HIDE DEF r, u, a
  <2>9. r + 128 * a < 128 * u
    BY <2>6, <2>7
  <2>10. g[k] < top * Weight[n - 1 - k]
    BY <2>2, <2>8, <2>9 DEF r, a
  <2> QED
    BY <1>2, <2>10
<1>5. 0 \in S
  <2>1. n - 1 \in Nat /\ 0 \in 0..(n - 1)
    BY <1>2
  <2> HIDE DEF S
  <2>2. 0..(n - 1) \subseteq S
    BY <1>3, <1>4, <2>1, Downwards
  <2> QED
    BY <2>1, <2>2
<1>6. n - 1 - 0 = n - 1
  BY <1>2
<1> QED
  BY <1>1, <1>5, <1>6 DEF AreSums

LEMMA VarintBelow ==
  ASSUME NEW b \in Seq(Bytes), NEW i \in Nat, i <= Len(b)
  PROVE  DecodeVarint(b, i).x \in 0..(Word - 1)
<1>0. Word \in Nat /\ Word > 0 /\ VarintLen \in Nat /\ VarintLen >= 3 /\ LastLimit \in 2..128
  BY WireAssumption
<1>1. CASE DecodeVarint(b, i).err # None
  <2>1. DecodeVarint(b, i).x = 0
    BY <1>1 DEF DecodeVarint, decodeVarintSlow, decodeVarintFast
  <2> QED
    BY <1>0, <2>1
<1>2. CASE DecodeVarint(b, i).err = None
  <2>1. PICK n : Varint(b, i, n)
    BY <1>2, VarintFound
  <2>2. DecodeVarint(b, i) = Read(Groups(b, i, n), i + n)
    BY <2>1, VarintRead
  <2>3. /\ n \in 1..VarintLen /\ n \in Nat /\ i + n <= Len(b)
        /\ Byte(b, i + n - 1) < 128
        /\ n = VarintLen => ~(Byte(b, i + n - 1) >= LastLimit)
    BY <1>0, <2>1 DEF Varint, Terminates, TooLarge
  <2>4. Groups(b, i, n) \in Nat
    BY <2>3, GroupsNat
  <2>5. i + n - 1 \in Nat /\ i + n - 1 < Len(b)
    BY <2>3
  <2>6. Byte(b, i + n - 1) \in Nat
    BY <2>5, ByteFacts
  <2>7. Groups(b, i, n) < Word
    <3>1. CASE n = VarintLen
      <4>1. Byte(b, i + n - 1) < LastLimit /\ LastLimit \in 1..128
        BY <1>0, <2>3, <2>6, <3>1
      <4>2. Groups(b, i, n) < LastLimit * Weight[n - 1]
        BY <2>3, <4>1, GroupsBelow
      <4> QED
        BY <3>1, <4>2, WordAssumption
    <3>2. CASE n # VarintLen
      <4>1. 128 \in 1..128
        OBVIOUS
      <4>2. Groups(b, i, n) < 128 * Weight[n - 1]
        BY <2>3, <4>1, GroupsBelow
      <4>3. n \in 0..VarintLen /\ VarintLen - 1 \in 0..VarintLen /\ n <= VarintLen - 1
        BY <1>0, <2>3, <3>2
      <4>4. Weight[n] = 128 * Weight[n - 1] /\ Weight[n] <= Weight[VarintLen - 1]
        BY <2>3, <4>3, WeightFacts, WeightGrows
      <4>5. Weight[VarintLen - 1] \in Nat \ {0} /\ Weight[n] \in Nat
        BY <4>3, WeightFacts
      <4>6. \A l \in 2..128 : \A w \in Nat : w <= l * w
        OBVIOUS
      <4>7. Weight[VarintLen - 1] <= Word
        BY <1>0, <4>5, <4>6, WordAssumption
      <4> QED
        BY <1>0, <2>4, <4>2, <4>4, <4>5, <4>7
    <3> QED
      BY <3>1, <3>2
  <2> QED
    BY <1>0, <2>2, <2>4, <2>7
<1> QED
  BY <1>1, <1>2

-----------------------------------------------------------------------------
(* the loop over the items of a time *)

Errors == {None, EOF, Overflow, BadWire, BadLen}

LEMMA VarintErrors == \A b, i : DecodeVarint(b, i).err \in Errors
BY DEF DecodeVarint, decodeVarintSlow, decodeVarintFast, Errors

LEMMA SkipErrors == \A b, i, wire : skip(b, i, wire).err \in Errors
<1> TAKE b, i, wire
<1>1. SkipVarint(b, i).err \in Errors /\ SkipFixed(b, i, 4).err \in Errors /\ SkipFixed(b, i, 8).err \in Errors
  BY DEF SkipVarint, SkipFixed, Errors
<1>2. RawLength(b, i).err \in Errors
  <2>1. DecodeVarint(b, i).err \in Errors
    BY VarintErrors
  <2> QED
    BY <2>1 DEF RawLength, Errors
<1>3. DecodeRawBytes(b, i).err \in Errors
  BY <1>2 DEF DecodeRawBytes, Errors
<1> QED
  BY <1>1, <1>3 DEF skip, Errors

Words == 0..(Word - 1)
PartsFound == [secs : Words, nanos : Words, err : Errors]
Places(b) == (0..Len(b)) \X Words \X Words

FailedParts(e)        == [secs |-> 0, nanos |-> 0, err |-> e]
Unless(read, next)    == IF read.err # None THEN FailedParts(read.err) ELSE next
PartOf(b, f, at, key) ==
  CASE key.x = 8 + WireVarint  -> Unless(DecodeVarint(b, key.index), f[<<DecodeVarint(b, key.index).index, DecodeVarint(b, key.index).x, at[3]>>])
    [] key.x = 16 + WireVarint -> Unless(DecodeVarint(b, key.index), f[<<DecodeVarint(b, key.index).index, at[2], DecodeVarint(b, key.index).x>>])
    [] OTHER -> Unless(skip(b, key.index, KeyWire(key.x)), f[<<skip(b, key.index, KeyWire(key.x)).index, at[2], at[3]>>])
PartsFrom(b, f, at) ==
  IF at[1] = Len(b) THEN [secs |-> at[2], nanos |-> at[3], err |-> None]
  ELSE Unless(DecodeVarint(b, at[1]), PartOf(b, f, at, DecodeVarint(b, at[1])))

\* f is the loop over b
IsLoop(b, f) == f = [at \in Places(b) |-> PartsFrom(b, f, at)]

\* where the loop goes on
LEMMA LoopGoesOn ==
  ASSUME NEW b \in Seq(Bytes), NEW at \in Places(b), at[1] # Len(b), NEW key, key = DecodeVarint(b, at[1]), key.err = None
  PROVE  /\ key.index \in Nat /\ at[1] < key.index /\ key.index <= Len(b) /\ key.x \in Words
         /\ LET n == DecodeVarint(b, key.index)
            IN  n.err = None => /\ <<n.index, n.x, at[3]>> \in Places(b) /\ <<n.index, at[2], n.x>> \in Places(b)
                                /\ at[1] < n.index
         /\ LET s == skip(b, key.index, KeyWire(key.x))
            IN  <<s.index, at[2], at[3]>> \in Places(b) /\ at[1] < s.index
<1>1. at[1] \in 0..Len(b) /\ at[2] \in Words /\ at[3] \in Words
  BY DEF Places
<1>2. at[1] \in Nat /\ at[1] <= Len(b) /\ Len(b) \in Nat
  BY <1>1
<1>3. key.index \in Nat /\ at[1] < key.index /\ key.index <= Len(b) /\ key.x \in Words
  BY <1>2, DecodeVarintFacts, VarintBelow DEF Ahead, Words
<1> DEFINE n == DecodeVarint(b, key.index)
           s == skip(b, key.index, KeyWire(key.x))
<1>4. n.x \in Words /\ n.index \in Ahead(b, key.index)
  BY <1>3, DecodeVarintFacts, VarintBelow DEF Words
<1>5. s.index \in Ahead(b, key.index)
  BY <1>3, SkipFacts
<1> HIDE DEF n, s
<1>6. n.index \in 0..Len(b) /\ at[1] < n.index /\ s.index \in 0..Len(b) /\ at[1] < s.index
  BY <1>2, <1>3, <1>4, <1>5 DEF Ahead
<1>7. <<n.index, n.x, at[3]>> \in Places(b) /\ <<n.index, at[2], n.x>> \in Places(b) /\ <<s.index, at[2], at[3]>> \in Places(b)
  BY <1>1, <1>4, <1>6 DEF Places
<1> QED
  BY <1>3, <1>6, <1>7 DEF n, s

LEMMA PartsLoop ==
  ASSUME NEW b \in Seq(Bytes)
  PROVE  \E f : IsLoop(b, f) /\ Parts(b) = f[<<0, 0, 0>>]
<1> DEFINE S == Places(b)
           h == [at \in S |-> at[1]]
           step == [f \in [S -> PartsFound] |-> [at \in S |-> PartsFrom(b, f, at)]]
           F == CHOOSE f : IsLoop(b, f)
<1>0. Len(b) \in Nat /\ 0 \in Words
  BY WireAssumption DEF Words
<1>1. \A at \in S : at[1] \in 0..Len(b) /\ at[2] \in Words /\ at[3] \in Words
  BY DEF Places
<1>2. h \in [S -> 0..Len(b)]
  BY <1>1
<1>3. \A e \in Errors : FailedParts(e) \in PartsFound
  BY <1>0 DEF FailedParts, PartsFound
<1>4. ASSUME NEW f \in [S -> PartsFound], NEW at \in S PROVE PartsFrom(b, f, at) \in PartsFound
  <2>1. CASE at[1] = Len(b)
    <3>1. PartsFrom(b, f, at) = [secs |-> at[2], nanos |-> at[3], err |-> None]
      BY <2>1 DEF PartsFrom
    <3>2. at[2] \in Words /\ at[3] \in Words /\ None \in Errors
      BY <1>1 DEF Errors
    <3> QED
      BY <3>1, <3>2 DEF PartsFound
  <2>2. CASE at[1] # Len(b)
    <3> DEFINE key == DecodeVarint(b, at[1])
    <3>0. PartsFrom(b, f, at) = Unless(key, PartOf(b, f, at, key))
      BY <2>2 DEF PartsFrom
    <3>1. CASE key.err # None
      BY <1>3, <3>0, <3>1, VarintErrors DEF Unless
    <3>2. CASE key.err = None
      <4> DEFINE n == DecodeVarint(b, key.index)
                 s == skip(b, key.index, KeyWire(key.x))
      <4>1. PartsFrom(b, f, at) = PartOf(b, f, at, key)
        BY <3>0, <3>2 DEF Unless
      <4>2. /\ n.err = None => <<n.index, n.x, at[3]>> \in S /\ <<n.index, at[2], n.x>> \in S
            /\ <<s.index, at[2], at[3]>> \in S
        <5> HIDE DEF key
        <5>1. key = DecodeVarint(b, at[1])
          BY DEF key
        <5> QED
          BY <2>2, <3>2, <5>1, LoopGoesOn
      <4>3. n.err \in Errors /\ s.err \in Errors
        BY VarintErrors, SkipErrors
      <4> HIDE DEF S
      <4>4. Unless(n, f[<<n.index, n.x, at[3]>>]) \in PartsFound
        <5> HIDE DEF n
        <5> QED
          BY <1>3, <4>2, <4>3 DEF Unless
      <4>5. Unless(n, f[<<n.index, at[2], n.x>>]) \in PartsFound
        <5> HIDE DEF n
        <5> QED
          BY <1>3, <4>2, <4>3 DEF Unless
      <4>6. Unless(s, f[<<s.index, at[2], at[3]>>]) \in PartsFound
        <5> HIDE DEF s
        <5> QED
          BY <1>3, <4>2, <4>3 DEF Unless
      <4> HIDE DEF key
      <4>7. PartOf(b, f, at, key) \in PartsFound
        BY <4>4, <4>5, <4>6 DEF PartOf
      <4> QED
        BY <4>1, <4>7
    <3> QED
      BY <3>1, <3>2
  <2> QED
    BY <2>1, <2>2
<1>5. step \in [[S -> PartsFound] -> [S -> PartsFound]]
  <2> HIDE DEF S
  <2> QED
    BY <1>4
<1>6. ASSUME NEW f \in [S -> PartsFound], NEW g \in [S -> PartsFound], NEW at \in S,
             \A y \in S : h[at] < h[y] => f[y] = g[y]
      PROVE  step[f][at] = step[g][at]
  <2>0. step[f][at] = PartsFrom(b, f, at) /\ step[g][at] = PartsFrom(b, g, at)
    <3> HIDE DEF S
    <3> QED
      OBVIOUS
  <2>1. \A y \in S : at[1] < y[1] => f[y] = g[y]
    <3>1. h[at] = at[1] /\ \A y \in S : h[y] = y[1]
      OBVIOUS
    <3> HIDE DEF h, step
    <3> QED
      BY <1>6, <3>1
  <2>2. CASE at[1] = Len(b)
    BY <2>0, <2>2 DEF PartsFrom
  <2>3. CASE at[1] # Len(b)
    <3> DEFINE key == DecodeVarint(b, at[1])
               n == DecodeVarint(b, key.index)
               s == skip(b, key.index, KeyWire(key.x))
    <3>0. PartsFrom(b, f, at) = Unless(key, PartOf(b, f, at, key)) /\ PartsFrom(b, g, at) = Unless(key, PartOf(b, g, at, key))
      BY <2>3 DEF PartsFrom
    <3>1. CASE key.err # None
      BY <2>0, <3>0, <3>1 DEF Unless
    <3>2. CASE key.err = None
      <4>1. /\ n.err = None => /\ <<n.index, n.x, at[3]>> \in S /\ <<n.index, at[2], n.x>> \in S
                               /\ at[1] < n.index
            /\ <<s.index, at[2], at[3]>> \in S /\ at[1] < s.index
        <5> HIDE DEF key
        <5>1. key = DecodeVarint(b, at[1])
          BY DEF key
        <5> QED
          BY <2>3, <3>2, <5>1, LoopGoesOn
      <4> HIDE DEF S, h, step, key, n, s
      <4>2. n.err = None => /\ f[<<n.index, n.x, at[3]>>] = g[<<n.index, n.x, at[3]>>]
                            /\ f[<<n.index, at[2], n.x>>] = g[<<n.index, at[2], n.x>>]
        BY <2>1, <4>1
      <4>3. f[<<s.index, at[2], at[3]>>] = g[<<s.index, at[2], at[3]>>]
        BY <2>1, <4>1
      <4>4. PartOf(b, f, at, key) = PartOf(b, g, at, key)
        BY <4>2, <4>3 DEF PartOf, Unless, n, s
      <4> QED
        BY <2>0, <3>0, <4>4
    <3> QED
      BY <3>1, <3>2
  <2> QED
    BY <2>2, <2>3
<1>61. FromAbove(S, PartsFound, Len(b), h, step)
  <2>1. PartsFound # {}
    BY <1>3 DEF Errors
  <2> HIDE DEF S, h, step
  <2> QED
    BY <1>0, <1>2, <1>5, <1>6, <2>1 DEF FromAbove
<1>7. PICK f \in [S -> PartsFound] : f = step[f]
  <2> HIDE DEF S, h, step
  <2> QED
    BY <1>61, Recursion
<1>8. IsLoop(b, f)
  <2>1. step[f] = [at \in S |-> PartsFrom(b, f, at)]
    <3> HIDE DEF S
    <3> QED
      OBVIOUS
  <2> QED
    BY <1>7, <2>1 DEF IsLoop
<1>9. IsLoop(b, F)
  <2> HIDE DEF S, h, step
  <2> QED
    BY <1>8
<1>10. Parts(b) = F[<<0, 0, 0>>]
  BY DEF Parts, IsLoop, PartsFrom, PartOf, Unless, FailedParts, Places, Words
<1> HIDE DEF F
<1> QED
  BY <1>9, <1>10

-----------------------------------------------------------------------------
(* what stands somewhere *)

LEMMA Joined ==
  ASSUME NEW S, NEW s \in Seq(S), NEW t \in Seq(S)
  PROVE  s \o t \in Seq(S) /\ Len(s \o t) = Len(s) + Len(t) /\ Len(s) \in Nat /\ Len(t) \in Nat
OBVIOUS

LEMMA StandsApart ==
  ASSUME NEW b \in Seq(Bytes), NEW i \in Nat, NEW s \in Seq(Bytes), NEW t \in Seq(Bytes), StandsAt(b, i, s \o t)
  PROVE  StandsAt(b, i, s) /\ StandsAt(b, i + Len(s), t) /\ i + Len(s) \in Nat
<1>1. Len(s) \in Nat /\ Len(t) \in Nat /\ Len(s \o t) = Len(s) + Len(t) /\ Len(b) \in Nat
  OBVIOUS
<1>2. i + (Len(s) + Len(t)) <= Len(b) /\ \A k \in 1..(Len(s) + Len(t)) : b[i + k] = (s \o t)[k]
  BY <1>1 DEF StandsAt
<1>3. ASSUME NEW k \in 1..Len(s) PROVE b[i + k] = s[k]
  <2>1. k \in 1..(Len(s) + Len(t)) /\ (s \o t)[k] = s[k]
    BY <1>1
  <2> QED
    BY <1>2, <2>1
<1>4. ASSUME NEW k \in 1..Len(t) PROVE b[(i + Len(s)) + k] = t[k]
  <2>1. Len(s) + k \in 1..(Len(s) + Len(t)) /\ (s \o t)[Len(s) + k] = t[k] /\ i + (Len(s) + k) = (i + Len(s)) + k
    BY <1>1
  <2> QED
    BY <1>2, <2>1
<1> QED
  BY <1>1, <1>2, <1>3, <1>4 DEF StandsAt

LEMMA StandsAlone ==
  ASSUME NEW b \in Seq(Bytes)
  PROVE  StandsAt(b, 0, b)
BY DEF StandsAt

LEMMA StandsInner ==
  ASSUME NEW b \in Seq(Bytes), NEW i \in Nat, NEW s \in Seq(Bytes), StandsAt(b, i, s)
  PROVE  Inner(b, i, i + Len(s)) = s
<1>1. Len(s) \in Nat /\ i + Len(s) <= Len(b) /\ \A k \in 1..Len(s) : b[i + k] = s[k]
  BY DEF StandsAt
<1>2. /\ Inner(b, i, i + Len(s)) \in Seq(Bytes) /\ Len(Inner(b, i, i + Len(s))) = Len(s)
      /\ \A k \in 1..Len(s) : Inner(b, i, i + Len(s))[k] = b[i + k]
  BY <1>1, AheadFacts DEF Inner, Between
<1> DEFINE t == Inner(b, i, i + Len(s))
<1>3. t \in Seq(Bytes) /\ Len(t) = Len(s) /\ \A k \in 1..Len(s) : t[k] = s[k]
  BY <1>1, <1>2
<1> HIDE DEF t
<1>4. t = s
  BY <1>3
<1> QED
  BY <1>4 DEF t

-----------------------------------------------------------------------------
(* times and durations *)

\* x as an unsigned word
LEMMA WordOfInt == \A x \in Int : x % Word \in Nat /\ x % Word < Word /\ x % Word \in Words
<1>1. Word \in Nat /\ Word > 0
  BY WireAssumption
<1> QED
  BY <1>1 DEF Words

LEMMA PartBytes ==
  ASSUME NEW id \in {1, 2}, NEW x \in Int
  PROVE  /\ EncodeVarint(x % Word) \in Seq(Bytes)
         /\ Part(id, x) = <<8 * id + WireVarint>> \o EncodeVarint(x % Word)
         /\ Part(id, x) \in Seq(Bytes)
         /\ <<8 * id + WireVarint>> \in Seq(Bytes)
         /\ Len(Part(id, x)) \in 2..(1 + VarintLen)
<1>1. EncodeVarint(x % Word) \in Seq(Bytes) /\ Len(EncodeVarint(x % Word)) \in 1..VarintLen
  BY WordOfInt, VarintSizes
<1>2. 8 * id + WireVarint \in Bytes
  BY DEF WireVarint, Bytes
<1> QED
  BY <1>1, <1>2, WireAssumption DEF Part

\* one item of the loop
LEMMA PartRead ==
  ASSUME NEW b \in Seq(Bytes), NEW f, IsLoop(b, f), NEW i \in Nat, NEW secs \in Words, NEW nanos \in Words,
         NEW id \in {1, 2}, NEW x \in Int, StandsAt(b, i, Part(id, x))
  PROVE  f[<<i, secs, nanos>>] = f[<<i + Len(Part(id, x)), IF id = 1 THEN x % Word ELSE secs, IF id = 2 THEN x % Word ELSE nanos>>]
<1> DEFINE at == <<i, secs, nanos>>
           k == <<8 * id + WireVarint>>
           v == EncodeVarint(x % Word)
<1>1. v \in Seq(Bytes) /\ k \in Seq(Bytes) /\ Part(id, x) = k \o v
  BY PartBytes, Zenon
<1>11. Len(k) = 1 /\ k[1] = 8 * id + WireVarint
  OBVIOUS
<1> HIDE DEF v, k
<1>12. Len(Part(id, x)) = 1 + Len(v) /\ Len(v) \in Nat
  <2>1. Len(k \o v) = Len(k) + Len(v) /\ Len(v) \in Nat
    BY <1>1, Joined
  <2> QED
    BY <1>1, <1>11, <2>1
<1>2. StandsAt(b, i, k) /\ StandsAt(b, i + 1, v) /\ i + 1 \in Nat
  <2>1. StandsAt(b, i, k \o v)
    BY <1>1
  <2> QED
    BY <1>1, <1>11, <2>1, StandsApart
<1>3. i < Len(b) /\ b[i + 1] = 8 * id + WireVarint
  BY <1>2, <1>11 DEF StandsAt
<1>4. DecodeVarint(b, i) = Read(8 * id + WireVarint, i + 1)
  BY <1>3 DEF DecodeVarint, Byte, WireVarint
<1>5. DecodeVarint(b, i + 1) = Read(x % Word, i + 1 + Len(v))
  BY <1>2, WordOfInt, VarintReadBack DEF v
<1>6. at \in Places(b) /\ at[1] # Len(b) /\ at[1] = i /\ at[2] = secs /\ at[3] = nanos
  <2>1. i \in 0..Len(b)
    BY <1>3
  <2> QED
    BY <1>3, <2>1 DEF Places
<1> HIDE DEF at
<1>7. f[at] = PartsFrom(b, f, at)
  BY <1>6 DEF IsLoop
<1>8. f[at] = PartOf(b, f, at, Read(8 * id + WireVarint, i + 1))
  BY <1>4, <1>6, <1>7 DEF PartsFrom, Unless
<1>9. CASE id = 1
  <2>1. f[at] = f[<<i + 1 + Len(v), x % Word, nanos>>]
    BY <1>5, <1>6, <1>8, <1>9 DEF PartOf, Unless, WireVarint
  <2>2. i + 1 + Len(v) = i + Len(Part(id, x))
    BY <1>12
  <2> QED
    BY <1>9, <2>1, <2>2 DEF at
<1>10. CASE id = 2
  <2>1. f[at] = f[<<i + 1 + Len(v), secs, x % Word>>]
    BY <1>5, <1>6, <1>8, <1>10 DEF PartOf, Unless, WireVarint
  <2>2. i + 1 + Len(v) = i + Len(Part(id, x))
    BY <1>12
  <2> QED
    BY <1>10, <2>1, <2>2 DEF at
<1> QED
  BY <1>9, <1>10

\* A part may be left out if its number is 0.
IsPart(s, id, x) == s = Part(id, x) \/ (s = <<>> /\ x = 0)

LEMMA PartsReadBack ==
  ASSUME NEW secs \in Int, NEW nanos \in Int, NEW s, NEW t, IsPart(s, 1, secs), IsPart(t, 2, nanos)
  PROVE  /\ s \o t \in Seq(Bytes) /\ Len(s \o t) <= 2 + 2 * VarintLen
         /\ Parts(s \o t) = [secs |-> secs % Word, nanos |-> nanos % Word, err |-> None]
<1> DEFINE b == s \o t
<1>0. VarintLen \in Nat /\ Word \in Nat /\ Word > 0 /\ 0 % Word = 0
  BY WireAssumption
<1>1. s \in Seq(Bytes) /\ Len(s) <= 1 + VarintLen /\ t \in Seq(Bytes) /\ Len(t) <= 1 + VarintLen
  <2>1. \A id \in {1, 2} : \A n \in Int : Part(id, n) \in Seq(Bytes) /\ Len(Part(id, n)) <= 1 + VarintLen
    <3> TAKE id \in {1, 2}
    <3> TAKE n \in Int
    <3>1. Part(id, n) \in Seq(Bytes) /\ Len(Part(id, n)) \in 2..(1 + VarintLen)
      BY PartBytes
    <3> QED
      BY <1>0, <3>1
  <2>2. <<>> \in Seq(Bytes) /\ Len(<<>>) = 0 /\ 0 <= 1 + VarintLen
    BY <1>0
  <2> QED
    BY <2>1, <2>2 DEF IsPart
<1>2. b \in Seq(Bytes) /\ Len(b) = Len(s) + Len(t) /\ Len(s) \in Nat /\ Len(t) \in Nat
  BY <1>1
<1>3. StandsAt(b, 0, s) /\ StandsAt(b, Len(s), t)
  <2>1. StandsAt(b, 0, s \o t) /\ 0 \in Nat
    BY <1>2, StandsAlone
  <2>2. StandsAt(b, 0, s) /\ StandsAt(b, 0 + Len(s), t)
    <3> HIDE DEF b
    <3> QED
      BY <1>1, <1>2, <2>1, StandsApart
  <2> QED
    BY <1>2, <2>2
<1> HIDE DEF b
<1> DEFINE x == secs % Word
           y == nanos % Word
<1>4. x \in Words /\ y \in Words /\ 0 \in Words
  BY <1>0, WordOfInt DEF Words
<1>5. PICK f : IsLoop(b, f) /\ Parts(b) = f[<<0, 0, 0>>]
  BY <1>2, PartsLoop
<1>6. f[<<0, 0, 0>>] = f[<<Len(s), x, 0>>]
  <2>1. CASE s = Part(1, secs)
    <3>1. f[<<0, 0, 0>>] = f[<<0 + Len(Part(1, secs)), IF 1 = 1 THEN secs % Word ELSE 0, IF 1 = 2 THEN secs % Word ELSE 0>>]
      BY <1>2, <1>3, <1>4, <1>5, <2>1, PartRead
    <3> QED
      BY <1>2, <2>1, <3>1
  <2>2. CASE s = <<>> /\ secs = 0
    BY <1>0, <2>2
  <2> QED
    BY <2>1, <2>2 DEF IsPart
<1>7. f[<<Len(s), x, 0>>] = f[<<Len(b), x, y>>]
  <2>1. CASE t = Part(2, nanos)
    <3>1. f[<<Len(s), x, 0>>] = f[<<Len(s) + Len(Part(2, nanos)), IF 2 = 1 THEN nanos % Word ELSE x, IF 2 = 2 THEN nanos % Word ELSE 0>>]
      <4> HIDE DEF x
      <4> QED
        BY <1>2, <1>3, <1>4, <1>5, <2>1, PartRead
    <3> QED
      BY <1>2, <2>1, <3>1
  <2>2. CASE t = <<>> /\ nanos = 0
    BY <1>0, <1>2, <2>2
  <2> QED
    BY <2>1, <2>2 DEF IsPart
<1>8. f[<<Len(b), x, y>>] = [secs |-> x, nanos |-> y, err |-> None]
  <2> HIDE DEF x, y
  <2> DEFINE at == <<Len(b), x, y>>
  <2>1. at \in Places(b) /\ at[1] = Len(b) /\ at[2] = x /\ at[3] = y
    <3>1. Len(b) \in 0..Len(b)
      BY <1>2
    <3> QED
      BY <1>4, <3>1 DEF Places
  <2> HIDE DEF at
  <2>2. f[at] = PartsFrom(b, f, at)
    BY <1>5, <2>1 DEF IsLoop
  <2>3. f[at] = [secs |-> x, nanos |-> y, err |-> None]
    BY <2>1, <2>2 DEF PartsFrom
  <2> QED
    BY <2>3 DEF at
<1>9. Parts(b) = [secs |-> x, nanos |-> y, err |-> None]
  BY <1>5, <1>6, <1>7, <1>8
<1>10. Len(b) <= 2 + 2 * VarintLen
  BY <1>0, <1>1, <1>2
<1> QED
  BY <1>2, <1>9, <1>10 DEF b

LEMMA SecondFacts ==
  /\ Second \in Nat /\ Second >= 2
  /\ \E h \in Nat : Word = 2 * h /\ Word \div 2 = h /\ Second <= h /\ h > 0
<1>1. Second \in Nat /\ Second >= 2 /\ 2 * Second <= Word32 /\ Word32 \in Nat /\ Word32 < Word /\ Word \in Nat
  BY SecondAssumption, Word32Assumption, WireAssumption
<1>2. PICK h \in Nat : Word = 2 * h
  BY WordIsEven
<1>3. \A k \in Nat : (2 * k) \div 2 = k
  OBVIOUS
<1>4. Word \div 2 = h
  BY <1>2, <1>3
<1>5. Second <= h
  BY <1>1, <1>2
<1> QED
  BY <1>1, <1>2, <1>4, <1>5

\* an int64 is what it was after a conversion to a uint64 and back
LEMMA Int64Back ==
  ASSUME NEW x \in Int64s
  PROVE  x \in Int /\ Int64(x % Word) = x
<1>1. PICK h \in Nat : Word = 2 * h /\ Word \div 2 = h /\ h > 0
  BY SecondFacts
<1>2. x \in Int /\ -h <= x /\ x < h
  BY <1>1 DEF Int64s
<1>3. \A w \in Nat : w > 0 => \A y \in Int : (0 <= y /\ y < w => y % w = y) /\ (-w <= y /\ y < 0 => y % w = y + w)
  OBVIOUS
<1>4. CASE 0 <= x
  <2>1. x % Word = x
    BY <1>1, <1>2, <1>3, <1>4
  <2> QED
    BY <1>1, <1>2, <2>1 DEF Int64
<1>5. CASE x < 0
  <2>1. x % Word = x + Word
    BY <1>1, <1>2, <1>3, <1>5
  <2> QED
    BY <1>1, <1>2, <1>5, <2>1 DEF Int64
<1> QED
  BY <1>2, <1>4, <1>5

LEMMA DivMod ==
  ASSUME NEW n \in Int, NEW d \in Nat, d >= 2
  PROVE  /\ n \div d \in Int /\ n % d \in 0..(d - 1) /\ n = (n \div d) * d + (n % d)
         /\ \A h \in Nat : -h <= n /\ n < h => -h <= n \div d /\ n \div d < h
<1>1. n \div d \in Int /\ n % d \in 0..(d - 1) /\ n = d * (n \div d) + (n % d)
  OBVIOUS
<1> DEFINE q == n \div d
           r == n % d
<1>2. q * d = d * q /\ q \in Int
  BY <1>1
<1>3. q >= 0 => d * q >= q
  BY <1>1
<1>5. r \in Int /\ 0 <= r /\ r < d /\ n = d * q + r
  BY <1>1
<1> HIDE DEF q, r
<1>7. ASSUME NEW h \in Nat, -h <= n, n < h PROVE -h <= q /\ q < h
  <2>1. CASE q >= 0
    BY <1>2, <1>3, <1>5, <1>7, <2>1
  <2>2. CASE q < 0
    <3>1. q <= -1
      BY <1>2, <2>2
    <3>2. (q + 1) * d <= q + 1
      <4>1. \A z \in Int : z <= 0 => z * d <= z
        OBVIOUS
      <4> QED
        BY <1>2, <3>1, <4>1
    <3>3. (q + 1) * d = d * q + d
      BY <1>2
    <3>4. d * q \in Int
      BY <1>2
    <3>5. n + 1 <= q + 1
      BY <1>2, <1>5, <3>2, <3>3, <3>4
    <3> QED
      BY <1>2, <1>7, <3>1, <3>5
  <2> QED
    BY <1>2, <2>1, <2>2
<1> QED
  BY <1>1, <1>2, <1>5, <1>7 DEF q, r

LEMMA QuotientFacts ==
  ASSUME NEW n \in Int, NEW d \in Nat, d >= 2, NEW h \in Nat, h > 0, -h <= n, n < h
  PROVE  /\ Quotient(n, d) \in Int /\ -h <= Quotient(n, d) /\ Quotient(n, d) < h
         /\ n - Quotient(n, d) * d \in -(d - 1)..(d - 1)
<1>1. CASE n >= 0
  <2>1. Quotient(n, d) = n \div d
    BY <1>1 DEF Quotient
  <2>2. n \div d \in Int /\ n % d \in 0..(d - 1) /\ n = (n \div d) * d + (n % d) /\ -h <= n \div d /\ n \div d < h
    BY DivMod
  <2> DEFINE q == n \div d
             r == n % d
  <2> HIDE DEF q, r
  <2>3. q \in Int /\ r \in 0..(d - 1) /\ n = q * d + r /\ -h <= q /\ q < h
    BY <2>2 DEF q, r
  <2>4. n - q * d = r
    BY <2>3
  <2>5. n - q * d \in -(d - 1)..(d - 1)
    BY <2>3, <2>4
  <2> QED
    BY <2>1, <2>3, <2>5 DEF q
<1>2. CASE n < 0
  <2> DEFINE m == -n
             q == m \div d
             r == m % d
  <2>1. Quotient(n, d) = -q
    BY <1>2 DEF Quotient
  <2>2. m \in Nat /\ m <= h /\ m > 0
    BY <1>2
  <2>3. q \in Int /\ r \in 0..(d - 1) /\ m = q * d + r
    <3> HIDE DEF m
    <3> QED
      BY <2>2, DivMod
  <2>4. q >= 0 /\ q <= m
    <3> HIDE DEF m
    <3> QED
      BY <2>2
  <2> HIDE DEF q, r
  <2>5. (-q) * d = -(q * d) /\ q * d \in Int
    BY <2>3
  <2>6. n - (-q) * d = -r
    BY <2>3, <2>5
  <2>7. -r \in -(d - 1)..(d - 1)
    BY <2>3
  <2> QED
    BY <2>1, <2>2, <2>3, <2>4, <2>6, <2>7
<1> QED
  BY <1>1, <1>2

\* whatever two numbers of seconds and nanoseconds a message consists of
LEMMA TimeReadBack ==
  ASSUME NEW secs \in Int64s, NEW nanos \in Int64s, NEW s, NEW t, IsPart(s, 1, secs), IsPart(t, 2, nanos)
  PROVE  DecodeTimestamp(s \o t) = [err |-> None, ns |-> secs * Second + nanos]
<1>1. secs \in Int /\ Int64(secs % Word) = secs /\ nanos \in Int /\ Int64(nanos % Word) = nanos
  BY Int64Back
<1>2. Parts(s \o t) = [secs |-> secs % Word, nanos |-> nanos % Word, err |-> None]
  BY <1>1, PartsReadBack
<1> QED
  BY <1>1, <1>2 DEF DecodeTimestamp, TimeOf

\* nanoseconds within a second, of either sign
LEMMA NanosInWord ==
  ASSUME NEW nanos \in -(Second - 1)..(Second - 1)
  PROVE  nanos \in Int64s
BY SecondFacts DEF Int64s

LEMMA TimestampBack ==
  ASSUME NEW ns \in Int, ns \div Second \in Int64s
  PROVE  /\ EncodeTimestamp(ns) \in Seq(Bytes) /\ Len(EncodeTimestamp(ns)) <= 2 + 2 * VarintLen
         /\ DecodeTimestamp(EncodeTimestamp(ns)) = [err |-> None, ns |-> ns]
<1>1. ns \div Second \in Int /\ ns % Second \in 0..(Second - 1) /\ ns = (ns \div Second) * Second + (ns % Second)
  BY SecondFacts, DivMod
<1> DEFINE secs == ns \div Second
           nanos == ns % Second
<1> HIDE DEF secs, nanos
<1>2. secs \in Int64s /\ secs \in Int /\ nanos \in 0..(Second - 1) /\ ns = secs * Second + nanos
  BY <1>1 DEF secs, nanos
<1>3. nanos \in -(Second - 1)..(Second - 1) /\ nanos \in Int
  BY <1>2, SecondFacts
<1>4. nanos \in Int64s
  BY <1>3, NanosInWord
<1>5. IsPart(Part(1, secs), 1, secs) /\ IsPart(Part(2, nanos), 2, nanos)
  BY DEF IsPart
<1>6. EncodeTimestamp(ns) = Part(1, secs) \o Part(2, nanos)
  BY DEF EncodeTimestamp, secs, nanos
<1>7. DecodeTimestamp(EncodeTimestamp(ns)) = [err |-> None, ns |-> ns]
  <2>1. DecodeTimestamp(Part(1, secs) \o Part(2, nanos)) = [err |-> None, ns |-> secs * Second + nanos]
    BY <1>2, <1>4, <1>5, TimeReadBack
  <2> QED
    BY <1>2, <1>6, <2>1
<1> QED
  BY <1>2, <1>3, <1>5, <1>6, <1>7, PartsReadBack

\* two numbers, of which enc_Duration leaves out those that are 0
LEMMA NSecBack ==
  ASSUME NEW ns \in Int64s, NEW s, NEW t,
         IsPart(s, 1, Quotient(ns, Second)), IsPart(t, 2, ns - Quotient(ns, Second) * Second)
  PROVE  /\ s \o t \in Seq(Bytes) /\ Len(s \o t) <= 2 + 2 * VarintLen
         /\ DecodeTimestamp(s \o t) = [err |-> None, ns |-> ns]
         /\ DecodeNSecTimestamp(s \o t) = [err |-> None, ns |-> ns]
<1>1. PICK h \in Nat : Word \div 2 = h /\ h > 0
  BY SecondFacts
<1>2. ns \in Int /\ -h <= ns /\ ns < h /\ Int64(ns % Word) = ns
  BY <1>1, Int64Back DEF Int64s
<1> DEFINE secs == Quotient(ns, Second)
           nanos == ns - secs * Second
<1>3. secs \in Int /\ -h <= secs /\ secs < h /\ nanos \in -(Second - 1)..(Second - 1)
  BY <1>1, <1>2, SecondFacts, QuotientFacts
<1>4. nanos \in Int64s /\ nanos \in Int
  BY <1>3, SecondFacts, NanosInWord
<1> HIDE DEF secs
<1>5. secs \in Int64s
  BY <1>1, <1>3 DEF Int64s
<1>6. secs * Second + nanos = ns
  BY <1>2, <1>3, SecondFacts
<1>7. IsPart(s, 1, secs) /\ IsPart(t, 2, nanos)
  BY DEF secs
<1> HIDE DEF nanos
<1>8. DecodeTimestamp(s \o t) = [err |-> None, ns |-> ns]
  BY <1>4, <1>5, <1>6, <1>7, TimeReadBack
<1>9. s \o t \in Seq(Bytes) /\ Len(s \o t) <= 2 + 2 * VarintLen
  BY <1>3, <1>4, <1>7, PartsReadBack
<1>10. DecodeNSecTimestamp(s \o t) = [err |-> None, ns |-> ns]
  BY <1>2, <1>8 DEF DecodeNSecTimestamp
<1> QED
  BY <1>8, <1>9, <1>10

\* Any time that EncodeNSecTimestamp, or EncodeTimestamp, writes is the same when either decoder reads it.
THEOREM StampReadsBack ==
  ASSUME NEW ns \in Int64s, NEW b \in {EncodeTimestamp(ns), EncodeNSecTimestamp(ns)}
  PROVE  /\ b \in Seq(Bytes)
         /\ DecodeTimestamp(b) = [err |-> None, ns |-> ns]
         /\ DecodeNSecTimestamp(b) = [err |-> None, ns |-> ns]
<1>1. PICK h \in Nat : Word \div 2 = h /\ h > 0
  BY SecondFacts
<1>2. ns \in Int /\ -h <= ns /\ ns < h /\ Int64(ns % Word) = ns
  BY <1>1, Int64Back DEF Int64s
<1>3. CASE b = EncodeTimestamp(ns)
  <2>1. ns \div Second \in Int /\ -h <= ns \div Second /\ ns \div Second < h
    BY <1>1, <1>2, SecondFacts, DivMod
  <2>2. ns \div Second \in Int64s
    BY <1>1, <2>1 DEF Int64s
  <2>3. b \in Seq(Bytes) /\ DecodeTimestamp(b) = [err |-> None, ns |-> ns]
    BY <1>2, <1>3, <2>2, TimestampBack
  <2> QED
    BY <1>2, <2>3 DEF DecodeNSecTimestamp
<1>4. CASE b = EncodeNSecTimestamp(ns)
  BY <1>4, NSecBack DEF EncodeNSecTimestamp, IsPart
<1> QED
  BY <1>3, <1>4

LEMMA DurationBack ==
  ASSUME NEW d \in Int64s
  PROVE  /\ enc_Duration(d) \in Seq(Bytes) /\ Len(enc_Duration(d)) <= 2 + 2 * VarintLen
         /\ DecodeNSecTimestamp(enc_Duration(d)) = [err |-> None, ns |-> d]
<1> DEFINE secs == Quotient(d, Second)
           nanos == d - secs * Second
           s == IF secs # 0 THEN Part(1, secs) ELSE <<>>
           t == IF nanos # 0 THEN Part(2, nanos) ELSE <<>>
<1>1. IsPart(s, 1, secs) /\ IsPart(t, 2, nanos)
  BY DEF IsPart
<1>2. enc_Duration(d) = s \o t
  BY DEF enc_Duration
<1> HIDE DEF s, t
<1> QED
  BY <1>1, <1>2, NSecBack

-----------------------------------------------------------------------------
(* the codecs that setEncAndDec picks *)

IsProps(q) ==
  q = [err |-> q.err, skip |-> q.skip, wire |-> q.wire, valEnc |-> q.valEnc, tag |-> q.tag, isOptional |-> q.isOptional,
       enc |-> q.enc, dec |-> q.dec, asProtobuf |-> q.asProtobuf, stype |-> q.stype, custom |-> q.custom,
       length |-> q.length, tagcode |-> q.tagcode]

\* r is q with a codec or refused, in what its number and its value encoder are
SameField(r, q) ==
  IsProps(r) /\ r.tag = q.tag /\ r.valEnc = q.valEnc /\ r.length = q.length /\ r.tagcode = q.tagcode
  /\ r.wire \in {q.wire, WireBytes}

\* of the types that are described only, a field has the type or the name
Simple(r) == r.err = None /\ r.stype \subseteq {Time, Duration} /\ r.custom = "no"

Uses(r, q, shape, e, d) == SameField(r, q) /\ r.enc = <<shape, e>> /\ r.dec = <<shape, d>>

\* without a codec a field is in error
HasCodec(r) == (r.enc = <<>> /\ r.err # None) \/ \E s, e, d : r.enc = <<s, e>> /\ r.dec = <<s, d>>

Fresh(q) == IsProps(q) /\ q.err = None /\ q.enc = <<>> /\ q.custom = "no"

LEMMA UseIs ==
  ASSUME NEW q, IsProps(q), NEW shape, NEW e, NEW d, NEW label, NEW text
  PROVE  LET r == Use(q, shape, e, d, label, text) IN
         Uses(r, q, shape, e, d) /\ r.err = q.err /\ r.stype = q.stype /\ r.custom = q.custom /\ r.wire = q.wire
<1> DEFINE r == Use(q, shape, e, d, label, text)
           a == [label |-> label, of |-> <<text>>]
           en == <<shape, e>>
           de == <<shape, d>>
<1>1. r = [q EXCEPT !.enc = en, !.dec = de, !.asProtobuf = a]
  BY DEF Use
<1> HIDE DEF r, a
<1>2. r.enc = en /\ r.dec = de
  BY <1>1 DEF IsProps
<1> HIDE DEF en, de
<1>3. IsProps(r) /\ r.tag = q.tag /\ r.valEnc = q.valEnc /\ r.length = q.length /\ r.tagcode = q.tagcode
      /\ r.err = q.err /\ r.stype = q.stype /\ r.custom = q.custom /\ r.wire = q.wire
  BY <1>1 DEF IsProps
<1> QED
  BY <1>2, <1>3 DEF Uses, SameField, r, en, de

LEMMA RefuseIs ==
  ASSUME NEW q, IsProps(q), NEW e
  PROVE  LET r == Refuse(q, e) IN
         /\ SameField(r, q) /\ r.err = e /\ r.enc = q.enc /\ r.dec = q.dec /\ r.stype = q.stype /\ r.custom = q.custom
         /\ r.wire = q.wire
BY DEF SameField, Refuse, IsProps

\* an error in the end does not change the codec
LEMMA CheckedIs ==
  ASSUME NEW q, NEW ok, NEW shape, NEW e, NEW d, Uses(q, q, shape, e, d)
  PROVE  LET r == Checked(ok, q) IN
         /\ Uses(r, q, shape, e, d) /\ r.stype = q.stype /\ r.custom = q.custom /\ r.wire = q.wire
         /\ r.err = None => ok /\ q.err = None
<1> DEFINE r == Checked(ok, q)
<1>1. IsProps(q) /\ q.enc = <<shape, e>> /\ q.dec = <<shape, d>> /\ SameField(q, q)
  BY DEF Uses, SameField
<1>2. CASE ok
  <2>1. r = q
    BY <1>2 DEF Checked
  <2> QED
    BY <1>2, <2>1
<1>3. CASE ~ok
  <2>1. r = Refuse(q, NotThisWire)
    BY <1>3 DEF Checked
  <2>2. NotThisWire # None
    BY DEF NotThisWire
  <2>3. SameField(r, q) /\ r.err = NotThisWire /\ r.enc = q.enc /\ r.dec = q.dec /\ r.stype = q.stype /\ r.custom = q.custom /\ r.wire = q.wire
    BY <1>1, <2>1, RefuseIs
  <2> QED
    BY <1>1, <2>2, <2>3 DEF Uses
<1> QED
  BY <1>2, <1>3

LEMMA SameSame ==
  ASSUME NEW q, NEW r, NEW s, SameField(r, q), SameField(s, r)
  PROVE  SameField(s, q)
BY DEF SameField

LEMMA UsesSelf ==
  ASSUME NEW r, NEW q, NEW shape, NEW e, NEW d, Uses(r, q, shape, e, d)
  PROVE  Uses(r, r, shape, e, d)
BY DEF Uses, SameField

LEMMA UsesOf ==
  ASSUME NEW r, NEW q, NEW s, NEW shape, NEW e, NEW d, SameField(r, q), Uses(s, r, shape, e, d)
  PROVE  Uses(s, q, shape, e, d)
BY SameSame DEF Uses

LEMMA NumberIs ==
  ASSUME NEW q, IsProps(q), NEW shape, NEW k, NEW label, NEW text
  PROVE  LET r == Number(q, shape, k, label, text) IN
         /\ Uses(r, q, shape, NumberEncoder(k), NumberDecoder(k)) /\ r.stype = q.stype /\ r.custom = q.custom
         /\ r.err = None => q.valEnc # "nil"
<1> DEFINE r == Number(q, shape, k, label, text)
<1> DEFINE u == Use(q, shape, NumberEncoder(k), NumberDecoder(k), label, Text(text))
<1>1. Uses(u, q, shape, NumberEncoder(k), NumberDecoder(k)) /\ u.stype = q.stype /\ u.custom = q.custom
  BY UseIs
<1>2. r = Checked(NumberFits(q, k), u)
  BY DEF Number
<1> HIDE DEF u
<1>3. Uses(u, u, shape, NumberEncoder(k), NumberDecoder(k)) /\ SameField(u, q)
  BY <1>1, UsesSelf DEF Uses
<1>4. Uses(r, u, shape, NumberEncoder(k), NumberDecoder(k)) /\ r.stype = u.stype /\ r.custom = u.custom /\ (r.err = None => NumberFits(q, k))
  BY <1>2, <1>3, CheckedIs
<1>5. Uses(r, q, shape, NumberEncoder(k), NumberDecoder(k))
  BY <1>3, <1>4, UsesOf
<1> QED
  BY <1>1, <1>4, <1>5 DEF NumberFits

LEMMA PackedIs ==
  ASSUME NEW q, IsProps(q), NEW shape, NEW k, NEW text
  PROVE  LET r == Packed(q, shape, k, text) IN
         /\ Uses(r, q, shape, NumberEncoder(k), NumberDecoder(k)) /\ r.stype = q.stype /\ r.custom = q.custom
         /\ r.err = None => q.valEnc # "nil"
<1> DEFINE r == Packed(q, shape, k, text)
<1> DEFINE n == Number(q, shape, k, "repeated", text)
<1>1. /\ Uses(n, q, shape, NumberEncoder(k), NumberDecoder(k)) /\ n.stype = q.stype /\ n.custom = q.custom
      /\ n.err = None => q.valEnc # "nil"
  BY NumberIs
<1>2. r = [n EXCEPT !.wire = WireBytes]
  BY DEF Packed
<1> HIDE DEF n
<1>3. IsProps(n)
  BY <1>1 DEF Uses, SameField
<1>4. /\ IsProps(r) /\ r.wire = WireBytes /\ r.tag = n.tag /\ r.valEnc = n.valEnc /\ r.length = n.length
      /\ r.tagcode = n.tagcode /\ r.enc = n.enc /\ r.dec = n.dec /\ r.stype = n.stype /\ r.custom = n.custom /\ r.err = n.err
  BY <1>2, <1>3 DEF IsProps
<1> QED
  BY <1>1, <1>4 DEF Uses, SameField

LEMMA BytesIs ==
  ASSUME NEW q, IsProps(q), NEW shape, NEW e, NEW d, NEW label, NEW text
  PROVE  LET r == OnlyBytes(Use(q, shape, e, d, label, text)) IN
         Uses(r, q, shape, e, d) /\ r.stype = q.stype /\ r.custom = q.custom
<1> DEFINE r == OnlyBytes(Use(q, shape, e, d, label, text))
<1> DEFINE u == Use(q, shape, e, d, label, text)
<1>1. Uses(u, q, shape, e, d) /\ u.stype = q.stype /\ u.custom = q.custom
  BY UseIs
<1>2. r = Checked(u.wire = WireBytes, u)
  BY DEF OnlyBytes
<1> HIDE DEF u
<1>3. Uses(u, u, shape, e, d) /\ SameField(u, q)
  BY <1>1, UsesSelf DEF Uses
<1>4. Uses(r, u, shape, e, d) /\ r.stype = u.stype /\ r.custom = u.custom
  BY <1>2, <1>3, CheckedIs
<1>5. Uses(r, q, shape, e, d)
  BY <1>3, <1>4, UsesOf
<1> QED
  BY <1>1, <1>4, <1>5

LEMMA DurationIs ==
  ASSUME NEW q, IsProps(q), NEW shape, NEW label
  PROVE  LET r == ADuration(q, shape, label) IN
         Uses(r, q, shape, "time_Duration", "time_Duration") /\ r.custom = q.custom /\ r.stype = {Duration}
<1> DEFINE r == ADuration(q, shape, label)
<1> DEFINE u == Use(q, shape, "time_Duration", "time_Duration", label, Text("google.protobuf.Duration"))
<1>1. Uses(u, q, shape, "time_Duration", "time_Duration") /\ u.custom = q.custom
  BY UseIs
<1>2. r = [u EXCEPT !.stype = {Duration}]
  BY DEF ADuration
<1> HIDE DEF u
<1> QED
  BY <1>1, <1>2 DEF Uses, SameField, IsProps

\* no struct is in error
Nobody(bad) == \A t : t \notin bad

LEMMA MessageIs ==
  ASSUME NEW q, IsProps(q), NEW shape, NEW d, NEW t, NEW label, NEW bad, Nobody(bad)
  PROVE  LET r == Message(q, shape, d, t, label, bad) IN
         Uses(r, q, shape, "struct_message", d) /\ r.custom = q.custom /\ t \in r.stype
<1> DEFINE r == Message(q, shape, d, t, label, bad)
           u == Use(q, shape, "struct_message", d, label, stypeAsProtobuf(t))
           v == [u EXCEPT !.stype = {t}]
<1>1. Uses(u, q, shape, "struct_message", d) /\ u.custom = q.custom
  BY UseIs
<1>2. r = Checked(v.wire = WireBytes, v)
  BY DEF Message, OnlyBytes, Nobody
<1> HIDE DEF u, r
<1>3. Uses(v, q, shape, "struct_message", d) /\ v.custom = q.custom /\ t \in v.stype
  BY <1>1 DEF Uses, SameField, IsProps
<1> HIDE DEF v
<1>4. Uses(v, v, shape, "struct_message", d) /\ SameField(v, q)
  BY <1>3, UsesSelf DEF Uses
<1>5. Uses(r, v, shape, "struct_message", d) /\ r.stype = v.stype /\ r.custom = v.custom
  BY <1>2, <1>4, CheckedIs
<1>6. Uses(r, q, shape, "struct_message", d)
  BY <1>4, <1>5, UsesOf
<1> QED
  BY <1>3, <1>5, <1>6 DEF r

\* a type that marshals itself is not simple
LEMMA CustomIs ==
  ASSUME NEW q, Fresh(q), NEW shape, NEW t, MarshalsItself(t), NEW label
  PROVE  LET r == Custom(q, shape, t, label) IN
         SameField(r, q) /\ HasCodec(r) /\ (r.err # None \/ r.custom # "no")
<1> DEFINE r == Custom(q, shape, t, label)
<1>1. CASE t.name = ""
  <2>1. r = Refuse(q, Panics) /\ Panics # None
    BY <1>1 DEF Custom, Panics
  <2> HIDE DEF Panics
  <2>2. SameField(r, q) /\ r.err = Panics /\ r.enc = q.enc
    BY <2>1, RefuseIs DEF Fresh
  <2> QED
    BY <2>1, <2>2 DEF Fresh, HasCodec
<1>2. CASE t.name # ""
  <2> DEFINE e == IF isAppender(t) THEN "appender" ELSE "marshaler"
             u == Use(q, shape, e, "unmarshaler", label, stypeAsProtobuf(t))
  <2>1. Uses(u, q, shape, e, "unmarshaler")
    BY UseIs DEF Fresh
  <2>2. r = [u EXCEPT !.stype = {t}, !.custom = t.marshals]
    BY <1>2 DEF Custom
  <2> HIDE DEF u, e
  <2>3. SameField(r, q) /\ r.enc = <<shape, e>> /\ r.dec = <<shape, "unmarshaler">> /\ r.custom = t.marshals
    BY <2>1, <2>2 DEF Uses, SameField, IsProps
  <2>4. t.marshals # "no"
    BY DEF MarshalsItself, isAppender, isMarshaler
  <2> QED
    BY <2>3, <2>4 DEF HasCodec
<1> QED
  BY <1>1, <1>2

Vals == {"varint", "zigzag32", "zigzag64", "fixed32", "fixed64"}

\* fresh from its tag
OrNil(v) == v \in Vals \/ v = "nil"
Parsed(q) == Fresh(q) /\ OrNil(q.valEnc)

\* the encoder e and the decoder d of a single t
IsNumber(r, t, e, d)   == t.kind \in NumberKinds /\ e = NumberEncoder(t.kind) /\ d = NumberDecoder(t.kind) /\ r.valEnc \in Vals
IsADuration(t, e, d)   == t = Duration /\ e = "time_Duration" /\ d = "time_Duration"
IsString(t, e, d)      == t.kind = "string" /\ e = "string" /\ d = "string"
IsStruct(r, t, e, d)   == t.kind = "struct" /\ t \in r.stype /\ e = "struct_message" /\ d = IF t = Time THEN "time_Time" ELSE "struct_message"

Unit(r, t, e, d) == IsNumber(r, t, e, d) \/ IsADuration(t, e, d) \/ IsString(t, e, d) \/ IsStruct(r, t, e, d)

Codec(r, shape, e, d) == r.enc = <<shape, e>> /\ r.dec = <<shape, d>>
UnitCodec(r, shape, t) == \E e, d : Codec(r, shape, e, d) /\ Unit(r, t, e, d)

Picked(r, q) == SameField(r, q) /\ HasCodec(r)

LEMMA Kinds ==
  /\ "struct" \notin NumberKinds /\ "string" \notin NumberKinds /\ "ptr" \notin NumberKinds
  /\ "slice" \notin NumberKinds /\ "array" \notin NumberKinds /\ "map" \notin NumberKinds
  /\ Duration.kind = "int64" /\ Duration.marshals = "no" /\ Time.kind = "struct" /\ Time.marshals = "no"
  /\ "uint8" \in NumberKinds /\ "uint64" \in NumberKinds /\ "int64" \in NumberKinds
BY DEF NumberKinds, Signed32, Unsigned32, Duration, Time, In, Type

LEMMA NoAs3 == Duration.as3 = {} /\ Time.as3 = {}
BY DEF Duration, Time, In, Type

LEMMA UsesHas ==
  ASSUME NEW r, NEW q, NEW shape, NEW e, NEW d, Uses(r, q, shape, e, d)
  PROVE  Picked(r, q) /\ Codec(r, shape, e, d) /\ r.valEnc = q.valEnc
BY DEF Uses, HasCodec, Picked, Codec, SameField

LEMMA Refused ==
  ASSUME NEW q, Fresh(q), NEW e, e # None
  PROVE  LET r == Refuse(q, e) IN Picked(r, q) /\ r.err # None /\ ~Simple(r)
BY RefuseIs DEF Fresh, HasCodec, Picked, Simple

LEMMA UnitIs ==
  ASSUME NEW r, NEW q, NEW s, NEW shape, NEW t, NEW e, NEW d, Uses(r, s, shape, e, d), SameField(s, q), r.err = None => Unit(r, t, e, d)
  PROVE  Picked(r, q) /\ (r.err = None => UnitCodec(r, shape, t))
<1>1. Uses(r, q, shape, e, d)
  BY UsesOf
<1> QED
  BY <1>1, UsesHas DEF UnitCodec

LEMMA NumberUnit ==
  ASSUME NEW q, IsProps(q), OrNil(q.valEnc), NEW shape, NEW t, t.kind \in NumberKinds, NEW label, NEW text
  PROVE  LET r == Number(q, shape, t.kind, label, text) IN Picked(r, q) /\ (r.err = None => UnitCodec(r, shape, t))
<1> DEFINE r == Number(q, shape, t.kind, label, text)
           e == NumberEncoder(t.kind)
           d == NumberDecoder(t.kind)
<1>1. Uses(r, q, shape, e, d) /\ (r.err = None => q.valEnc # "nil")
  BY NumberIs
<1> HIDE DEF r
<1>2. r.valEnc = q.valEnc /\ SameField(q, q)
  BY <1>1, UsesHas DEF SameField
<1>3. r.err = None => Unit(r, t, e, d)
  BY <1>1, <1>2 DEF Unit, IsNumber, OrNil
<1> HIDE DEF e, d
<1>4. Picked(r, q) /\ (r.err = None => UnitCodec(r, shape, t))
  BY <1>1, <1>2, <1>3, UnitIs
<1> QED
  BY <1>4 DEF r

LEMMA DurationUnit ==
  ASSUME NEW q, IsProps(q), NEW shape, NEW label
  PROVE  LET r == ADuration(q, shape, label) IN Picked(r, q) /\ (r.err = None => UnitCodec(r, shape, Duration))
<1> DEFINE r == ADuration(q, shape, label)
<1>1. Uses(r, q, shape, "time_Duration", "time_Duration") /\ SameField(q, q)
  BY DurationIs DEF SameField
<1>2. Unit(r, Duration, "time_Duration", "time_Duration")
  BY DEF Unit, IsADuration
<1> HIDE DEF r
<1>3. Picked(r, q) /\ (r.err = None => UnitCodec(r, shape, Duration))
  BY <1>1, <1>2, UnitIs
<1> QED
  BY <1>3 DEF r

LEMMA StringUnit ==
  ASSUME NEW q, IsProps(q), NEW shape, NEW t, t.kind = "string", NEW label, NEW text
  PROVE  LET r == OnlyBytes(Use(q, shape, "string", "string", label, text))
         IN  Picked(r, q) /\ (r.err = None => UnitCodec(r, shape, t))
<1> DEFINE r == OnlyBytes(Use(q, shape, "string", "string", label, text))
<1>1. Uses(r, q, shape, "string", "string") /\ SameField(q, q)
  BY BytesIs DEF SameField
<1>2. Unit(r, t, "string", "string")
  BY DEF Unit, IsString
<1> HIDE DEF r
<1>3. Picked(r, q) /\ (r.err = None => UnitCodec(r, shape, t))
  BY <1>1, <1>2, UnitIs
<1> QED
  BY <1>3 DEF r

LEMMA StructUnit ==
  ASSUME NEW q, IsProps(q), NEW shape, NEW t, t.kind = "struct", NEW label, NEW bad, Nobody(bad),
         NEW d, d = IF t = Time THEN "time_Time" ELSE "struct_message"
  PROVE  LET r == Message(q, shape, d, t, label, bad)
         IN  Picked(r, q) /\ (r.err = None => UnitCodec(r, shape, t))
<1> DEFINE r == Message(q, shape, d, t, label, bad)
<1>1. Uses(r, q, shape, "struct_message", d) /\ t \in r.stype /\ SameField(q, q)
  BY MessageIs DEF SameField
<1> HIDE DEF r
<1>2. Unit(r, t, "struct_message", d)
  BY <1>1 DEF Unit, IsStruct
<1>3. Picked(r, q) /\ (r.err = None => UnitCodec(r, shape, t))
  BY <1>1, <1>2, UnitIs
<1> QED
  BY <1>3 DEF r

LEMMA ScalarIs ==
  ASSUME NEW q, Parsed(q), NEW t, NEW bad, Nobody(bad)
  PROVE  LET r == scalarCodec(q, t, bad) IN Picked(r, q) /\ (Simple(r) => UnitCodec(r, "", t))
<1> DEFINE r == scalarCodec(q, t, bad)
<1>0. IsProps(q) /\ Fresh(q) /\ OrNil(q.valEnc) /\ (Simple(r) => r.err = None)
  BY DEF Parsed, Fresh, Simple
<1>1. CASE IsDuration(q, t)
  <2>1. t = Duration /\ t.kind = "int64"
    BY <1>1, Kinds DEF IsDuration
  <2>2. r = ADuration(q, "", "")
    BY <1>1, <2>1, Kinds DEF scalarCodec
  <2> QED
    BY <1>0, <2>1, <2>2, DurationUnit
<1>2. CASE ~IsDuration(q, t) /\ t.kind \in NumberKinds
  <2>1. t.kind # "struct" /\ t.kind # "string"
    BY <1>2, Kinds
  <2>2. r = Number(q, "", t.kind, "", NumberText(t.kind, q.valEnc))
    BY <1>2, <2>1 DEF scalarCodec
  <2> QED
    BY <1>0, <1>2, <2>2, NumberUnit
<1>3. CASE t.kind = "string"
  <2>1. t.kind \notin NumberKinds /\ ~IsDuration(q, t)
    BY <1>3, Kinds DEF IsDuration
  <2>2. r = OnlyBytes(Use(q, "", "string", "string", "", Text("string")))
    BY <1>3, <2>1 DEF scalarCodec
  <2> QED
    BY <1>0, <1>3, <2>2, StringUnit
<1>4. CASE t.kind = "struct"
  <2> DEFINE d == IF t = Time THEN "time_Time" ELSE "struct_message"
  <2>1. t.kind \notin NumberKinds /\ ~IsDuration(q, t)
    BY <1>4, Kinds DEF IsDuration
  <2>2. r = Message(q, "", d, t, "", bad)
    BY <1>4, <2>1 DEF scalarCodec
  <2> QED
    BY <1>0, <1>4, <2>2, StructUnit
<1>5. CASE t.kind \notin NumberKinds \cup {"string", "struct"} /\ ~IsDuration(q, t)
  <2>1. r = Refuse(q, NoEncoder) /\ NoEncoder # None
    BY <1>5 DEF scalarCodec, NoEncoder
  <2> HIDE DEF r
  <2>2. Picked(r, q) /\ r.err # None
    BY <1>0, <2>1, Refused
  <2> QED
    BY <1>0, <2>2 DEF r
<1> QED
  BY <1>1, <1>2, <1>3, <1>4, <1>5

LEMMA CustomPicked ==
  ASSUME NEW q, Fresh(q), NEW shape, NEW t, MarshalsItself(t), NEW label
  PROVE  LET r == Custom(q, shape, t, label) IN Picked(r, q) /\ ~Simple(r)
BY CustomIs DEF Picked, Simple

LEMMA PtrIs ==
  ASSUME NEW q, Parsed(q), NEW t, NEW bad, Nobody(bad)
  PROVE  LET r == ptrCodec(q, t, bad) IN Picked(r, q) /\ (Simple(r) => UnitCodec(r, "ptr", t))
<1> DEFINE r == ptrCodec(q, t, bad)
           s == IF isAsProtobuf3er(t) THEN [q EXCEPT !.stype = {t}] ELSE q
           Goal(x) == Picked(x, q) /\ (Simple(x) => UnitCodec(x, "ptr", t))
<1>0. IsProps(q) /\ Fresh(q) /\ OrNil(q.valEnc)
  BY DEF Parsed, Fresh
<1>1. IsProps(s) /\ SameField(s, q) /\ OrNil(s.valEnc)
  <2>1. IsProps(s) /\ s.tag = q.tag /\ s.valEnc = q.valEnc /\ s.length = q.length /\ s.tagcode = q.tagcode /\ s.wire = q.wire
    BY <1>0 DEF IsProps
  <2> HIDE DEF s
  <2> QED
    BY <1>0, <2>1 DEF SameField
<1> HIDE DEF s
<1>2. ASSUME NEW x, Picked(x, s), x.err = None => UnitCodec(x, "ptr", t) PROVE Goal(x)
  BY <1>1, <1>2, SameSame DEF Picked, Simple
<1>3. CASE MarshalsItself(t)
  <2>1. r = Custom(q, "ptr", t, "")
    BY <1>3 DEF ptrCodec
  <2> QED
    BY <1>0, <1>3, <2>1, CustomPicked
<1>4. CASE ~MarshalsItself(t) /\ IsDuration(q, t)
  <2>1. t = Duration /\ t.kind = "int64"
    BY <1>4, Kinds DEF IsDuration
  <2>2. r = ADuration(q, "ptr", "")
    BY <1>4, <2>1, Kinds DEF ptrCodec
  <2> HIDE DEF r
  <2>3. Picked(r, q) /\ (r.err = None => UnitCodec(r, "ptr", t))
    BY <1>0, <2>1, <2>2, DurationUnit
  <2> QED
    BY <2>3 DEF r, Simple
<1>5. CASE ~MarshalsItself(t) /\ ~IsDuration(q, t) /\ t.kind \in NumberKinds
  <2>1. t.kind # "struct" /\ t.kind # "string"
    BY <1>5, Kinds
  <2>2. r = Number(s, "ptr", t.kind, "", NumberText(t.kind, q.valEnc))
    BY <1>5, <2>1 DEF ptrCodec, s
  <2> HIDE DEF r
  <2>3. Picked(r, s) /\ (r.err = None => UnitCodec(r, "ptr", t))
    BY <1>1, <1>5, <2>2, NumberUnit
  <2> QED
    BY <1>2, <2>3 DEF r
<1>6. CASE ~MarshalsItself(t) /\ t.kind = "string"
  <2>1. t.kind \notin NumberKinds /\ ~IsDuration(q, t)
    BY <1>6, Kinds DEF IsDuration
  <2>2. r = OnlyBytes(Use(s, "ptr", "string", "string", "", Text("string")))
    BY <1>6, <2>1 DEF ptrCodec, s
  <2> HIDE DEF r
  <2>3. Picked(r, s) /\ (r.err = None => UnitCodec(r, "ptr", t))
    BY <1>1, <1>6, <2>2, StringUnit
  <2> QED
    BY <1>2, <2>3 DEF r
<1>7. CASE ~MarshalsItself(t) /\ t.kind = "struct"
  <2> DEFINE d == IF t = Time THEN "time_Time" ELSE "struct_message"
  <2>1. t.kind \notin NumberKinds /\ ~IsDuration(q, t)
    BY <1>7, Kinds DEF IsDuration
  <2>2. r = Message(s, "ptr", d, t, "", bad)
    BY <1>7, <2>1 DEF ptrCodec, s
  <2> HIDE DEF r
  <2>3. Picked(r, s) /\ (r.err = None => UnitCodec(r, "ptr", t))
    BY <1>1, <1>7, <2>2, StructUnit
  <2> QED
    BY <1>2, <2>3 DEF r
<1>8. CASE ~MarshalsItself(t) /\ t.kind \notin NumberKinds \cup {"string", "struct"} /\ ~IsDuration(q, t)
  <2>1. r = Refuse(q, NoEncoder) /\ NoEncoder # None
    BY <1>8 DEF ptrCodec, NoEncoder
  <2> HIDE DEF r
  <2>2. Picked(r, q) /\ ~Simple(r)
    BY <1>0, <2>1, Refused
  <2> QED
    BY <2>2 DEF r
<1> QED
  BY <1>3, <1>4, <1>5, <1>6, <1>7, <1>8

-----------------------------------------------------------------------------

\* the codecs of slices and arrays (kind) of t
PackedShape(kind) == IF kind = "slice" THEN "slice_packed" ELSE "array_packed"
PtrShape(kind)    == IF kind = "slice" THEN "slice_ptr" ELSE "array_ptr"

BytesCodec(r, kind, t)  == t.kind = "uint8" /\ Codec(r, kind, "byte", "byte")
PackedCodec(r, kind, t) == \E e, d : Codec(r, PackedShape(kind), e, d) /\ IsNumber(r, t, e, d)
EachCodec(r, kind, t)   == \E e, d : Codec(r, kind, e, d) /\ (IsADuration(t, e, d) \/ IsString(t, e, d))
ListsCodec(r, kind, t)  == kind = "slice" /\ t.kind = "slice" /\ Codec(r, kind, "slice_byte", "slice_byte")
TimesCodec(r, kind, t)  ==
  \/ t.kind = "struct" /\ t \in r.stype /\ Codec(r, kind, "struct_message", "struct_message")
  \/ t.kind = "ptr" /\ Elem(t).kind = "struct" /\ Elem(t) \in r.stype /\ Codec(r, PtrShape(kind), "struct_message", "struct_message")

ListCodec(r, kind, t) ==
  BytesCodec(r, kind, t) \/ PackedCodec(r, kind, t) \/ EachCodec(r, kind, t) \/ ListsCodec(r, kind, t) \/ TimesCodec(r, kind, t)

LEMMA PackedList ==
  ASSUME NEW q, Parsed(q), NEW kind, NEW t, t.kind \in NumberKinds, NEW text
  PROVE  LET r == Packed(q, PackedShape(kind), t.kind, text) IN Picked(r, q) /\ (Simple(r) => ListCodec(r, kind, t))
<1> DEFINE r == Packed(q, PackedShape(kind), t.kind, text)
           e == NumberEncoder(t.kind)
           d == NumberDecoder(t.kind)
           s == PackedShape(kind)
<1>0. IsProps(q) /\ OrNil(q.valEnc)
  BY DEF Parsed, Fresh
<1>1. Uses(r, q, s, e, d) /\ (r.err = None => q.valEnc # "nil")
  BY <1>0, PackedIs
<1> HIDE DEF r, s
<1>2. Picked(r, q) /\ Codec(r, s, e, d) /\ r.valEnc = q.valEnc
  BY <1>1, UsesHas
<1>3. r.err = None => IsNumber(r, t, e, d)
  BY <1>0, <1>1, <1>2 DEF IsNumber, OrNil
<1> HIDE DEF e, d
<1>4. Picked(r, q) /\ (Simple(r) => ListCodec(r, kind, t))
  BY <1>2, <1>3 DEF Simple, ListCodec, PackedCodec, s
<1> QED
  BY <1>4 DEF r

LEMMA DurationList ==
  ASSUME NEW q, Parsed(q), NEW kind, NEW label
  PROVE  LET r == ADuration(q, kind, label) IN Picked(r, q) /\ ListCodec(r, kind, Duration)
<1> DEFINE r == ADuration(q, kind, label)
<1>1. Uses(r, q, kind, "time_Duration", "time_Duration")
  BY DurationIs DEF Parsed, Fresh
<1> HIDE DEF r
<1>2. Picked(r, q) /\ ListCodec(r, kind, Duration)
  BY <1>1, UsesHas DEF ListCodec, EachCodec, IsADuration
<1> QED
  BY <1>2 DEF r

LEMMA StringList ==
  ASSUME NEW q, Parsed(q), NEW kind, NEW t, t.kind = "string", NEW label, NEW text
  PROVE  LET r == OnlyBytes(Use(q, kind, "string", "string", label, text)) IN Picked(r, q) /\ ListCodec(r, kind, t)
<1> DEFINE r == OnlyBytes(Use(q, kind, "string", "string", label, text))
<1>1. Uses(r, q, kind, "string", "string")
  BY BytesIs DEF Parsed, Fresh
<1> HIDE DEF r
<1>2. Picked(r, q) /\ ListCodec(r, kind, t)
  BY <1>1, UsesHas DEF ListCodec, EachCodec, IsString
<1> QED
  BY <1>2 DEF r

LEMMA StructList ==
  ASSUME NEW q, Parsed(q), NEW kind, NEW t, t.kind = "struct", NEW label, NEW bad, Nobody(bad)
  PROVE  LET r == Message(q, kind, "struct_message", t, label, bad) IN Picked(r, q) /\ ListCodec(r, kind, t)
<1> DEFINE r == Message(q, kind, "struct_message", t, label, bad)
<1>1. Uses(r, q, kind, "struct_message", "struct_message") /\ t \in r.stype
  BY MessageIs DEF Parsed, Fresh
<1> HIDE DEF r
<1>2. Picked(r, q) /\ ListCodec(r, kind, t)
  BY <1>1, UsesHas DEF ListCodec, TimesCodec
<1> QED
  BY <1>2 DEF r

LEMMA PtrList ==
  ASSUME NEW q, Parsed(q), NEW kind, NEW t, t.kind = "ptr", NEW bad, Nobody(bad)
  PROVE  LET r == PtrElements(q, PtrShape(kind), Elem(t), bad) IN Picked(r, q) /\ (Simple(r) => ListCodec(r, kind, t))
<1> DEFINE r == PtrElements(q, PtrShape(kind), Elem(t), bad)
           x == Elem(t)
           m == Message(q, PtrShape(kind), "struct_message", x, "repeated", bad)
<1>0. IsProps(q) /\ Fresh(q)
  BY DEF Parsed, Fresh
<1>1. CASE x.kind = "struct"
  <2>1. Uses(m, q, PtrShape(kind), "struct_message", "struct_message") /\ x \in m.stype
    BY <1>0, MessageIs
  <2>2. r = [m EXCEPT !.custom = x.marshals]
    BY <1>1 DEF PtrElements
  <2> HIDE DEF m, r, x
  <2>3. Uses(r, q, PtrShape(kind), "struct_message", "struct_message") /\ x \in r.stype
    <3>1. IsProps(m)
      BY <2>1 DEF Uses, SameField
    <3>2. /\ IsProps(r) /\ r.wire = m.wire /\ r.tag = m.tag /\ r.valEnc = m.valEnc /\ r.length = m.length
          /\ r.tagcode = m.tagcode /\ r.enc = m.enc /\ r.dec = m.dec /\ r.stype = m.stype
      BY <2>2, <3>1 DEF IsProps
    <3> QED
      BY <2>1, <3>2 DEF Uses, SameField
  <2>4. Picked(r, q) /\ ListCodec(r, kind, t)
    BY <1>1, <2>3, UsesHas DEF ListCodec, TimesCodec, x
  <2> QED
    BY <2>4 DEF r
<1>2. CASE x.kind # "struct"
  <2>1. r = Refuse(q, NoEncoder) /\ NoEncoder # None
    BY <1>2 DEF PtrElements, NoEncoder
  <2> HIDE DEF r
  <2>2. Picked(r, q) /\ ~Simple(r)
    BY <1>0, <2>1, Refused
  <2> QED
    BY <2>2 DEF r
<1> QED
  BY <1>1, <1>2

LEMMA BytesList ==
  ASSUME NEW q, Parsed(q), NEW kind, NEW t, t.kind = "uint8", NEW label, NEW text
  PROVE  LET u == Use(q, kind, "byte", "byte", label, text)
             r == [u EXCEPT !.wire = WireBytes]
         IN  Picked(u, q) /\ ListCodec(u, kind, t) /\ Picked(r, q) /\ ListCodec(r, kind, t)
<1> DEFINE u == Use(q, kind, "byte", "byte", label, text)
           r == [u EXCEPT !.wire = WireBytes]
<1>1. Uses(u, q, kind, "byte", "byte")
  BY UseIs DEF Parsed, Fresh
<1> HIDE DEF u
<1>2. Uses(r, q, kind, "byte", "byte")
  BY <1>1 DEF Uses, SameField, IsProps
<1> HIDE DEF r
<1>3. ASSUME NEW x, Uses(x, q, kind, "byte", "byte") PROVE Picked(x, q) /\ ListCodec(x, kind, t)
  BY <1>3, UsesHas DEF ListCodec, BytesCodec
<1>4. Picked(u, q) /\ ListCodec(u, kind, t) /\ Picked(r, q) /\ ListCodec(r, kind, t)
  BY <1>1, <1>2, <1>3
<1> QED
  BY <1>4 DEF u, r

LEMMA ListsList ==
  ASSUME NEW q, Parsed(q), NEW t, t.kind = "slice", NEW label, NEW text
  PROVE  LET r == Use(q, "slice", "slice_byte", "slice_byte", label, text) IN Picked(r, q) /\ ListCodec(r, "slice", t)
<1> DEFINE r == Use(q, "slice", "slice_byte", "slice_byte", label, text)
<1>1. Uses(r, q, "slice", "slice_byte", "slice_byte")
  BY UseIs DEF Parsed, Fresh
<1> HIDE DEF r
<1>2. Picked(r, q) /\ ListCodec(r, "slice", t)
  BY <1>1, UsesHas DEF ListCodec, ListsCodec
<1> QED
  BY <1>2 DEF r

LEMMA RefusedList ==
  ASSUME NEW q, Parsed(q)
  PROVE  LET r == Refuse(q, NoEncoder) IN Picked(r, q) /\ ~Simple(r)
<1>1. NoEncoder # None
  BY DEF NoEncoder
<1> QED
  BY <1>1, Refused DEF Parsed

LEMMA SliceIs ==
  ASSUME NEW q, Parsed(q), NEW t, NEW bad, Nobody(bad)
  PROVE  LET r == sliceCodec(q, t, bad) IN Picked(r, q) /\ (Simple(r) => ListCodec(r, "slice", t))
<1> DEFINE r == sliceCodec(q, t, bad)
           Goal(x) == Picked(x, q) /\ (Simple(x) => ListCodec(x, "slice", t))
<1>k. PackedShape("slice") = "slice_packed" /\ PtrShape("slice") = "slice_ptr"
  BY DEF PackedShape, PtrShape
<1> SUFFICES Goal(r)
  OBVIOUS
<1>1. CASE MarshalsItself(t)
  <2>1. r = Custom(q, "slice", t, "repeated")
    BY <1>1 DEF sliceCodec
  <2> HIDE DEF r
  <2> QED
    BY <1>1, <2>1, CustomPicked DEF Parsed
<1>2. CASE ~MarshalsItself(t) /\ t.kind = "uint8"
  <2>1. ~IsDuration(q, t)
    BY <1>2, Kinds DEF IsDuration
  <2>2. r = [Use(q, "slice", "byte", "byte", "", Text("bytes")) EXCEPT !.wire = WireBytes]
    BY <1>2, <2>1, Kinds DEF sliceCodec
  <2> HIDE DEF r
  <2> QED
    BY <1>2, <2>2, BytesList
<1>3. CASE ~MarshalsItself(t) /\ IsDuration(q, t)
  <2>1. t = Duration /\ t.kind = "int64"
    BY <1>3, Kinds DEF IsDuration
  <2>2. r = ADuration(q, "slice", "repeated")
    BY <1>3, <2>1 DEF sliceCodec
  <2> HIDE DEF r
  <2> QED
    BY <2>1, <2>2, DurationList
<1>4. CASE ~MarshalsItself(t) /\ ~IsDuration(q, t) /\ t.kind = "uint64"
  <2>1. r = Packed(q, "slice_packed", t.kind, int64_encoder_txt(q.valEnc))
    BY <1>4 DEF sliceCodec
  <2> HIDE DEF r
  <2> QED
    BY <1>4, <1>k, <2>1, Kinds, PackedList
<1>5. CASE ~MarshalsItself(t) /\ ~IsDuration(q, t) /\ t.kind \in NumberKinds /\ t.kind # "uint8" /\ t.kind # "uint64"
  <2>1. t.kind # "struct" /\ t.kind # "string" /\ t.kind # "ptr" /\ t.kind # "slice"
    BY <1>5, Kinds
  <2>2. r = Packed(q, "slice_packed", t.kind, NumberText(t.kind, q.valEnc))
    BY <1>5, <2>1 DEF sliceCodec
  <2> HIDE DEF r
  <2> QED
    BY <1>5, <1>k, <2>2, PackedList
<1>6. CASE ~MarshalsItself(t) /\ t.kind = "string"
  <2>1. t.kind \notin NumberKinds /\ ~IsDuration(q, t)
    BY <1>6, Kinds DEF IsDuration
  <2>2. r = OnlyBytes(Use(q, "slice", "string", "string", "repeated", Text("string")))
    BY <1>6, <2>1 DEF sliceCodec
  <2> HIDE DEF r
  <2> QED
    BY <1>6, <2>2, StringList
<1>7. CASE ~MarshalsItself(t) /\ t.kind = "struct"
  <2>1. t.kind \notin NumberKinds /\ ~IsDuration(q, t)
    BY <1>7, Kinds DEF IsDuration
  <2>2. r = Message(q, "slice", "struct_message", t, "repeated", bad)
    BY <1>7, <2>1 DEF sliceCodec
  <2> HIDE DEF r
  <2> QED
    BY <1>7, <2>2, StructList
<1>8. CASE ~MarshalsItself(t) /\ t.kind = "ptr"
  <2>1. t.kind \notin NumberKinds /\ ~IsDuration(q, t)
    BY <1>8, Kinds DEF IsDuration
  <2>2. r = PtrElements(q, "slice_ptr", Elem(t), bad)
    BY <1>8, <2>1 DEF sliceCodec
  <2> HIDE DEF r
  <2> QED
    BY <1>8, <1>k, <2>2, PtrList
<1>9. CASE ~MarshalsItself(t) /\ t.kind = "slice"
  <2>1. t.kind \notin NumberKinds /\ ~IsDuration(q, t)
    BY <1>9, Kinds DEF IsDuration
  <2>2. r = IF Elem(t).kind = "uint8" THEN Use(q, "slice", "slice_byte", "slice_byte", "repeated", Text("bytes")) ELSE Refuse(q, NoEncoder)
    BY <1>9, <2>1 DEF sliceCodec
  <2> HIDE DEF r
  <2>3. CASE Elem(t).kind = "uint8"
    BY <1>9, <2>2, <2>3, ListsList
  <2>4. CASE Elem(t).kind # "uint8"
    BY <2>2, <2>4, RefusedList
  <2> QED
    BY <2>3, <2>4
<1>10. CASE ~MarshalsItself(t) /\ ~IsDuration(q, t) /\ t.kind \notin NumberKinds /\ t.kind \notin {"string", "struct", "ptr", "slice"}
  <2>1. r = Refuse(q, NoEncoder)
    BY <1>10, Kinds DEF sliceCodec
  <2> HIDE DEF r
  <2> QED
    BY <2>1, RefusedList
<1> HIDE DEF Goal
<1> QED
  BY <1>1, <1>2, <1>3, <1>4, <1>5, <1>6, <1>7, <1>8, <1>9, <1>10

\* the codec of an array of n elements
NoElements(r) == Codec(r, "", "nothing", "nothing")

LEMMA ArrayIs ==
  ASSUME NEW q0, Parsed(q0), NEW n, NEW t, NEW bad, Nobody(bad)
  PROVE  LET r == arrayCodec(q0, n, t, bad)
             q == [q0 EXCEPT !.length = n]
         IN  Picked(r, q) /\ (Simple(r) => IF n = 0 THEN NoElements(r) ELSE ListCodec(r, "array", t))
<1> DEFINE r == arrayCodec(q0, n, t, bad)
           q == [q0 EXCEPT !.length = n]
           Goal(x) == Picked(x, q) /\ (Simple(x) => IF n = 0 THEN NoElements(x) ELSE ListCodec(x, "array", t))
<1>k. PackedShape("array") = "array_packed" /\ PtrShape("array") = "array_ptr"
  BY DEF PackedShape, PtrShape
<1> SUFFICES Goal(r)
  OBVIOUS
<1>0. CASE n = 0
  <2>1. r = [q EXCEPT !.enc = <<"", "nothing">>, !.dec = <<"", "nothing">>]
    BY <1>0 DEF arrayCodec
  <2>2. IsProps(q)
    BY DEF Parsed, Fresh, IsProps
  <2> DEFINE c == <<"", "nothing">>
  <2> HIDE DEF r, q
  <2>3. IsProps(r) /\ r.tag = q.tag /\ r.valEnc = q.valEnc /\ r.length = q.length /\ r.tagcode = q.tagcode /\ r.wire = q.wire
        /\ r.enc = c /\ r.dec = c
    <3> HIDE DEF c
    <3>1. r = [q EXCEPT !.enc = c, !.dec = c]
      BY <2>1 DEF c
    <3> QED
      BY <2>2, <3>1 DEF IsProps
  <2>4. Picked(r, q) /\ NoElements(r)
    BY <2>3 DEF Picked, SameField, HasCodec, NoElements, Codec
  <2> QED
    BY <1>0, <2>4
<1>00. Parsed(q) /\ q.wire = q0.wire /\ q.valEnc = q0.valEnc
  BY DEF Parsed, Fresh, IsProps
<1> HIDE DEF q
<1>1. CASE n # 0 /\ MarshalsItself(t)
  <2>1. r = Custom(q, "array", t, "repeated")
    BY <1>1 DEF arrayCodec, q
  <2> HIDE DEF r
  <2> QED
    BY <1>00, <1>1, <2>1, CustomPicked DEF Parsed
<1>2. CASE n # 0 /\ ~MarshalsItself(t) /\ t.kind = "uint8"
  <2>1. ~IsDuration(q, t)
    BY <1>2, Kinds DEF IsDuration
  <2>2. r = Use(q, "array", "byte", "byte", "", Text("bytes"))
    BY <1>2, <2>1, Kinds DEF arrayCodec, q
  <2> HIDE DEF r
  <2> QED
    BY <1>00, <1>2, <2>2, BytesList
<1>3. CASE n # 0 /\ ~MarshalsItself(t) /\ IsDuration(q, t)
  <2>1. t = Duration /\ t.kind = "int64"
    BY <1>3, Kinds DEF IsDuration
  <2>2. r = ADuration(q, "array", "repeated")
    BY <1>3, <2>1 DEF arrayCodec, q
  <2> HIDE DEF r
  <2> QED
    BY <1>00, <1>3, <2>1, <2>2, DurationList
<1>5. CASE n # 0 /\ ~MarshalsItself(t) /\ ~IsDuration(q, t) /\ t.kind \in NumberKinds /\ t.kind # "uint8"
  <2>1. t.kind # "struct" /\ t.kind # "string" /\ t.kind # "ptr" /\ t.kind # "slice"
    BY <1>5, Kinds
  <2>2. r = Packed(q, "array_packed", t.kind, NumberText(t.kind, q.valEnc))
    BY <1>5, <2>1 DEF arrayCodec, q
  <2> HIDE DEF r
  <2> QED
    BY <1>00, <1>5, <1>k, <2>2, PackedList
<1>6. CASE n # 0 /\ ~MarshalsItself(t) /\ t.kind = "string"
  <2>1. t.kind \notin NumberKinds /\ ~IsDuration(q, t)
    BY <1>6, Kinds DEF IsDuration
  <2>2. r = OnlyBytes(Use(q, "array", "string", "string", "repeated", Text("string")))
    BY <1>6, <2>1 DEF arrayCodec, q
  <2> HIDE DEF r
  <2> QED
    BY <1>00, <1>6, <2>2, StringList
<1>7. CASE n # 0 /\ ~MarshalsItself(t) /\ t.kind = "struct"
  <2>1. t.kind \notin NumberKinds /\ ~IsDuration(q, t)
    BY <1>7, Kinds DEF IsDuration
  <2>2. r = Message(q, "array", "struct_message", t, "repeated", bad)
    BY <1>7, <2>1 DEF arrayCodec, q
  <2> HIDE DEF r
  <2> QED
    BY <1>00, <1>7, <2>2, StructList
<1>8. CASE n # 0 /\ ~MarshalsItself(t) /\ t.kind = "ptr"
  <2>1. t.kind \notin NumberKinds /\ ~IsDuration(q, t)
    BY <1>8, Kinds DEF IsDuration
  <2>2. r = PtrElements(q, "array_ptr", Elem(t), bad)
    BY <1>8, <2>1 DEF arrayCodec, q
  <2> HIDE DEF r
  <2> QED
    BY <1>00, <1>8, <1>k, <2>2, PtrList
<1>10. CASE n # 0 /\ ~MarshalsItself(t) /\ ~IsDuration(q, t) /\ t.kind \notin NumberKinds /\ t.kind \notin {"string", "struct", "ptr"}
  <2>1. r = Refuse(q, NoEncoder)
    BY <1>10, Kinds DEF arrayCodec, q
  <2> HIDE DEF r
  <2> QED
    BY <1>00, <2>1, RefusedList
<1> HIDE DEF Goal
<1> QED
  BY <1>0, <1>1, <1>2, <1>3, <1>5, <1>6, <1>7, <1>8, <1>10

\* the codecs of a field of type t, but for maps and types that marshal themselves
FieldCodec(r, t) ==
  \/ t.kind = "array" /\ t.len = 0 /\ NoElements(r)
  \/ t.kind \notin {"ptr", "slice", "array"} /\ UnitCodec(r, "", t)
  \/ t.kind = "ptr" /\ UnitCodec(r, "ptr", Elem(t))
  \/ t.kind = "slice" /\ ListCodec(r, "slice", Elem(t))
  \/ t.kind = "array" /\ t.len # 0 /\ r.length = t.len /\ ListCodec(r, "array", Elem(t))

IsMap(r) == r.enc = <<"", "new_map">>

Agree(r, q) ==
  /\ IsProps(r) /\ r.enc = q.enc /\ r.dec = q.dec /\ r.valEnc = q.valEnc /\ r.length = q.length /\ r.err = q.err
  /\ r.custom = q.custom /\ r.wire = q.wire /\ r.tag = q.tag

LEMMA AgreeCodec ==
  ASSUME NEW r, NEW q, Agree(r, q), r.stype = q.stype, NEW t
  PROVE  FieldCodec(q, t) => FieldCodec(r, t)
<1>1. r.enc = q.enc /\ r.dec = q.dec /\ r.valEnc = q.valEnc /\ r.length = q.length /\ r.stype = q.stype
  BY DEF Agree
<1>2. \A s, e, d : Codec(q, s, e, d) => Codec(r, s, e, d)
  BY <1>1 DEF Codec
<1>3. \A x, e, d : IsNumber(q, x, e, d) => IsNumber(r, x, e, d)
  BY <1>1 DEF IsNumber
<1>4. \A x, e, d : IsStruct(q, x, e, d) => IsStruct(r, x, e, d)
  BY <1>1 DEF IsStruct
<1>5. \A s, x : UnitCodec(q, s, x) => UnitCodec(r, s, x)
  BY <1>2, <1>3, <1>4, Zenon DEF UnitCodec, Unit
<1>6. \A k, x : ListCodec(q, k, x) => ListCodec(r, k, x)
  <2> SUFFICES ASSUME NEW k, NEW x, ListCodec(q, k, x) PROVE ListCodec(r, k, x)
    BY Zenon
  <2>1. CASE BytesCodec(q, k, x)
    BY <1>2, <2>1 DEF ListCodec, BytesCodec
  <2>2. CASE PackedCodec(q, k, x)
    BY <1>2, <1>3, <2>2, Zenon DEF ListCodec, PackedCodec
  <2>3. CASE EachCodec(q, k, x)
    BY <1>2, <2>3, Zenon DEF ListCodec, EachCodec
  <2>4. CASE ListsCodec(q, k, x)
    BY <1>2, <2>4 DEF ListCodec, ListsCodec
  <2>5. CASE TimesCodec(q, k, x)
    BY <1>1, <1>2, <2>5 DEF ListCodec, TimesCodec
  <2> QED
    BY <2>1, <2>2, <2>3, <2>4, <2>5 DEF ListCodec
<1>7. NoElements(q) => NoElements(r)
  BY <1>2 DEF NoElements
<1> QED
  BY <1>1, <1>5, <1>6, <1>7, Zenon DEF FieldCodec

\* Only the name in a .proto file is another, and the type is noted.
LEMMA OverriddenIs ==
  ASSUME NEW q, IsProps(q), NEW t
  PROVE  LET r == Overridden(q, t) IN Agree(r, q) /\ r.tagcode = q.tagcode /\ (Simple(r) => r.stype = q.stype /\ Simple(q))
<1> DEFINE r == Overridden(q, t)
           a == AsProtobuf3(t)
           x == IF a.name # "" THEN [label |-> "", of |-> <<Text(a.name)>>] ELSE q.asProtobuf
           y == IF a.definition THEN {t} ELSE q.stype
<1>1. CASE q.err # None \/ ~isAsProtobuf3er(t)
  <2>1. r = q
    BY <1>1 DEF Overridden
  <2> HIDE DEF r
  <2>2. Agree(r, q) /\ r.tagcode = q.tagcode /\ (Simple(r) => r.stype = q.stype /\ Simple(q))
    BY <2>1 DEF Agree
  <2> QED
    BY <2>2 DEF r
<1>2. CASE ~(q.err # None \/ ~isAsProtobuf3er(t))
  <2>1. r = [q EXCEPT !.asProtobuf = x, !.stype = y]
    BY <1>2 DEF Overridden
  <2>2. ASSUME y \subseteq {Time, Duration} PROVE y = q.stype
    <3>1. t.as3 # {}
      BY <1>2 DEF isAsProtobuf3er
    <3>2. t # Time /\ t # Duration
      BY <3>1, NoAs3
    <3> QED
      BY <2>2, <3>2
  <2> HIDE DEF r, x, y
  <2>3. Agree(r, q) /\ r.tagcode = q.tagcode /\ r.stype = y
    BY <2>1 DEF Agree, IsProps
  <2>4. Simple(r) => r.stype = q.stype /\ Simple(q)
    BY <2>2, <2>3 DEF Simple, Agree
  <2> QED
    BY <2>3, <2>4 DEF r
<1> QED
  BY <1>1, <1>2

LEMMA MapIs ==
  ASSUME NEW q, Parsed(q), NEW t, NEW f, NEW bad
  PROVE  LET r == mapCodec(q, t, f, bad) IN Picked(r, q) /\ (Simple(r) => IsMap(r))
<1> DEFINE r == mapCodec(q, t, f, bad)
           k == EntryField(Key(t), f.key, bad)
           v == EntryField(Elem(t), f.val, bad)
           c == <<"", "new_map">>
           m == [q EXCEPT !.enc = c, !.dec = c, !.asProtobuf = [label |-> "map", of |-> <<k.asProtobuf, v.asProtobuf>>]]
<1>1. BadMap # None /\ Panics # None
  BY DEF BadMap, Panics
<1>2. r \in {Refuse(q, BadMap), Refuse(q, Panics), m}
  <2> HIDE DEF k, v
  <2> QED
    BY DEF mapCodec, k, v
<1> HIDE DEF r
<1>3. ASSUME NEW e \in {BadMap, Panics}, r = Refuse(q, e) PROVE Picked(r, q) /\ ~Simple(r)
  <2>1. e # None
    BY <1>1
  <2> QED
    BY <1>3, <2>1, Refused DEF Parsed
<1>4. ASSUME r = m PROVE Picked(r, q) /\ (Simple(r) => IsMap(r))
  <2>0. IsProps(q)
    BY DEF Parsed, Fresh
  <2> DEFINE z == [label |-> "map", of |-> <<k.asProtobuf, v.asProtobuf>>]
  <2> HIDE DEF z, c, k, v
  <2>1. IsProps(r) /\ r.tag = q.tag /\ r.valEnc = q.valEnc /\ r.length = q.length /\ r.tagcode = q.tagcode /\ r.wire = q.wire
        /\ r.enc = c /\ r.dec = c
    BY <1>4, <2>0 DEF IsProps, z
  <2> QED
    BY <2>1 DEF Picked, SameField, HasCodec, IsMap, c
<1>5. Picked(r, q) /\ (Simple(r) => IsMap(r))
  <2> HIDE DEF m
  <2> QED
    BY <1>2, <1>3, <1>4
<1> QED
  BY <1>5 DEF r

\* what is left of the tag
Tagged(q) == q.tag \in 0..(Word32 - 1) /\ q.wire \in {WireVarint, WireFixed64, WireBytes, WireFixed32} /\ q.tagcode = <<>>

LEMMA ParseIs ==
  ASSUME NEW tag, tag.id \in Int
  PROVE  LET q == Parse(tag) IN
         /\ IsProps(q) /\ q.enc = <<>> /\ q.dec = <<>> /\ Tagged(q)
         /\ ~Settled(q) => Parsed(q)
<1> DEFINE q == Parse(tag)
           n == NoProperties
<1>0. Word32 \in Nat /\ Word32 > 0 /\ (\A x \in Int : x % Word32 \in 0..(Word32 - 1)) /\ 0 \in 0..(Word32 - 1)
  BY Word32Assumption
<1>1. IsProps(n) /\ n.err = None /\ n.enc = <<>> /\ n.dec = <<>> /\ n.tagcode = <<>> /\ n.custom = "no" /\ n.tag = 0 /\ n.wire = WireVarint
      /\ n.valEnc = "nil"
  BY DEF NoProperties, IsProps
<1> HIDE DEF n
<1>2. CASE tag.form = "-"
  <2>1. q = [n EXCEPT !.skip = TRUE]
    BY <1>2 DEF Parse, n
  <2> HIDE DEF q
  <2>2. /\ IsProps(q) /\ q.enc = <<>> /\ q.dec = <<>> /\ q.skip = TRUE /\ q.tag = 0 /\ q.wire = WireVarint /\ q.tagcode = <<>>
    BY <1>1, <2>1 DEF IsProps
  <2>3. /\ IsProps(q) /\ q.enc = <<>> /\ q.dec = <<>> /\ Tagged(q) /\ Settled(q)
    BY <1>0, <2>2 DEF Tagged, Settled
  <2> QED
    BY <2>3 DEF q
<1>3. CASE tag.form = "short"
  <2>1. q = [n EXCEPT !.skip = TRUE, !.err = BadTag]
    BY <1>3 DEF Parse, n
  <2> HIDE DEF q
  <2>2. /\ IsProps(q) /\ q.enc = <<>> /\ q.dec = <<>> /\ q.skip = TRUE /\ q.tag = 0 /\ q.wire = WireVarint /\ q.tagcode = <<>>
    BY <1>1, <2>1 DEF IsProps
  <2>3. /\ IsProps(q) /\ q.enc = <<>> /\ q.dec = <<>> /\ Tagged(q) /\ Settled(q)
    BY <1>0, <2>2 DEF Tagged, Settled
  <2> QED
    BY <2>3 DEF q
<1>4. CASE tag.form \notin {"-", "short"} /\ (tag.wire \notin WireNames \/ tag.id <= 0)
  <2>1. q = Refuse(n, BadTag) /\ BadTag # None
    BY <1>4 DEF Parse, n, BadTag
  <2> HIDE DEF q
  <2>2. /\ IsProps(q) /\ q.enc = <<>> /\ q.dec = <<>> /\ q.err # None /\ q.tag = 0 /\ q.wire = WireVarint /\ q.tagcode = <<>>
    BY <1>1, <2>1 DEF IsProps, Refuse
  <2>3. /\ IsProps(q) /\ q.enc = <<>> /\ q.dec = <<>> /\ Tagged(q) /\ Settled(q)
    BY <1>0, <2>2 DEF Tagged, Settled
  <2> QED
    BY <2>3 DEF q
<1>5. CASE tag.form \notin {"-", "short"} /\ tag.wire \in WireNames /\ ~(tag.id <= 0)
  <2> DEFINE w == WireOf(tag.wire)
             v == IF tag.wire = "bytes" THEN "nil" ELSE tag.wire
             t == tag.id % Word32
             o == tag.optional
  <2>1. q = [n EXCEPT !.wire = w, !.valEnc = v, !.tag = t, !.isOptional = o]
    BY <1>5 DEF Parse, n
  <2>2. w \in {WireVarint, WireFixed64, WireBytes, WireFixed32} /\ OrNil(v) /\ t \in 0..(Word32 - 1)
    BY <1>0, <1>5 DEF WireNames, WireOf, OrNil, Vals
  <2> HIDE DEF w, v, t, o, q
  <2>3. /\ IsProps(q) /\ q.enc = <<>> /\ q.dec = <<>> /\ q.err = None /\ q.tag = t /\ q.wire = w /\ q.tagcode = <<>> /\ q.custom = "no" /\ q.valEnc = v
    BY <1>1, <2>1 DEF IsProps
  <2>4. /\ IsProps(q) /\ q.enc = <<>> /\ q.dec = <<>> /\ Tagged(q) /\ Parsed(q)
    BY <2>2, <2>3 DEF Tagged, Parsed, Fresh
  <2> QED
    BY <2>4 DEF q
<1> QED
  BY <1>2, <1>3, <1>4, <1>5

\* what TagCode and setEncAndDec find
Described(r) ==
  /\ r.tag \in 0..(Word32 - 1) /\ r.wire \in {WireVarint, WireFixed64, WireBytes, WireFixed32}
  /\ r.enc # <<>> => r.enc[1] = r.dec[1]
  /\ r.err = None => r.enc # <<>> /\ r.tagcode = EncodeVarint((8 * r.tag + r.wire) % Word32)
  /\ r.err # None => r.tagcode = <<>>

LEMMA CodecEnds ==
  ASSUME NEW r, HasCodec(r)
  PROVE  (r.enc # <<>> => r.enc[1] = r.dec[1]) /\ (r.err = None => r.enc # <<>>)
<1>1. CASE r.enc = <<>> /\ r.err # None
  BY <1>1
<1>2. ASSUME NEW s, NEW e, NEW d, r.enc = <<s, e>>, r.dec = <<s, d>> PROVE r.enc # <<>> /\ r.enc[1] = r.dec[1]
  <2>1. Len(r.enc) = 2
    BY <1>2
  <2> QED
    BY <1>2, <2>1
<1> QED
  BY <1>1, <1>2 DEF HasCodec

LEMMA TagCodeIs ==
  ASSUME NEW q, IsProps(q), HasCodec(q), Tagged(q)
  PROVE  LET r == TagCode(q) IN Agree(r, q) /\ r.stype = q.stype /\ Described(r)
<1> DEFINE r == TagCode(q)
           c == EncodeVarint((8 * q.tag + q.wire) % Word32)
<1>1. (q.enc # <<>> => q.enc[1] = q.dec[1]) /\ (q.err = None => q.enc # <<>>)
  BY CodecEnds
<1>2. CASE q.err # None
  <2>1. r = q
    BY <1>2 DEF TagCode
  <2> HIDE DEF r
  <2>2. Agree(r, q) /\ r.stype = q.stype /\ Described(r)
    BY <1>1, <1>2, <2>1 DEF Agree, Described, Tagged
  <2> QED
    BY <2>2 DEF r
<1>3. CASE q.err = None
  <2>1. r = [q EXCEPT !.tagcode = c]
    BY <1>3 DEF TagCode
  <2> HIDE DEF r, c
  <2>2. Agree(r, q) /\ r.stype = q.stype /\ r.tagcode = c
    BY <2>1 DEF Agree, IsProps
  <2>3. c = EncodeVarint((8 * r.tag + r.wire) % Word32)
    BY <2>2 DEF Agree, c
  <2>4. Described(r)
    BY <1>1, <1>3, <2>2, <2>3 DEF Agree, Described, Tagged
  <2> QED
    BY <2>2, <2>4 DEF r
<1> QED
  BY <1>2, <1>3

\* What a field is described as: its codec, if it has one and nothing keeps it from being used.
LEMMA CodecPicked ==
  ASSUME NEW q, Parsed(q), Tagged(q), NEW t, NEW bad, Nobody(bad), NEW ofMap, Picked(ofMap, q), Simple(ofMap) => IsMap(ofMap)
  PROVE  LET r == setEncAndDec(q, t, bad, ofMap)
         IN  Described(r) /\ (Simple(r) => IsMap(r) \/ FieldCodec(r, t))
<1> DEFINE u == CASE t.kind = "ptr"   -> ptrCodec(q, Elem(t), bad)
                  [] t.kind = "slice" -> sliceCodec(q, Elem(t), bad)
                  [] t.kind = "array" -> arrayCodec(q, t.len, Elem(t), bad)
                  [] t.kind = "map"   -> ofMap
                  [] OTHER            -> scalarCodec(q, t, bad)
           v == Overridden(u, t)
           q1 == [q EXCEPT !.length = t.len]
<1>0. IsProps(q) /\ Fresh(q)
  BY DEF Parsed, Fresh
<1>1. Tagged(q1)
  BY <1>0 DEF Tagged, IsProps
<1>2. ASSUME NEW s, NEW z \in {q, q1}, Picked(s, z) PROVE IsProps(s) /\ HasCodec(s) /\ Tagged(s)
  <2>1. Tagged(z)
    BY <1>1
  <2> HIDE DEF q1
  <2> QED
    BY <1>2, <2>1 DEF Picked, SameField, Tagged
<1>3. CASE MarshalsItself(t)
  <2> DEFINE c == Custom(q, "", t, "")
             r == TagCode(c)
  <2>1. setEncAndDec(q, t, bad, ofMap) = r
    BY <1>3 DEF setEncAndDec
  <2>2. Picked(c, q) /\ ~Simple(c)
    BY <1>0, <1>3, CustomPicked
  <2> HIDE DEF c
  <2>3. Agree(r, c) /\ r.stype = c.stype /\ Described(r)
    BY <1>2, <2>2, TagCodeIs
  <2>4. ~Simple(r)
    BY <2>2, <2>3 DEF Agree, Simple
  <2> HIDE DEF r
  <2> QED
    BY <2>1, <2>3, <2>4
<1>4. CASE ~MarshalsItself(t)
  <2>1. setEncAndDec(q, t, bad, ofMap) = TagCode(v)
    BY <1>4 DEF setEncAndDec
  <2>2. (Picked(u, q) \/ Picked(u, q1)) /\ (Simple(u) => IsMap(u) \/ FieldCodec(u, t))
    <3>1. CASE t.kind = "ptr"
      <4>1. u = ptrCodec(q, Elem(t), bad)
        BY <3>1
      <4> HIDE DEF u
      <4> QED
        BY <3>1, <4>1, PtrIs DEF FieldCodec
    <3>2. CASE t.kind = "slice"
      <4>1. u = sliceCodec(q, Elem(t), bad)
        BY <3>2
      <4> HIDE DEF u
      <4> QED
        BY <3>2, <4>1, SliceIs DEF FieldCodec
    <3>3. CASE t.kind = "array"
      <4>1. u = arrayCodec(q, t.len, Elem(t), bad)
        BY <3>3
      <4> HIDE DEF u
      <4>2. Picked(u, q1) /\ (Simple(u) => IF t.len = 0 THEN NoElements(u) ELSE ListCodec(u, "array", Elem(t)))
        BY <4>1, ArrayIs
      <4>3. q1.length = t.len
        BY <1>0 DEF IsProps
      <4> HIDE DEF q1
      <4>4. u.length = t.len
        BY <4>2, <4>3 DEF Picked, SameField
      <4> QED
        BY <3>3, <4>2, <4>4 DEF FieldCodec
    <3>4. CASE t.kind = "map"
      <4>1. u = ofMap
        BY <3>4
      <4> HIDE DEF u
      <4> QED
        BY <4>1
    <3>5. CASE t.kind \notin {"ptr", "slice", "array", "map"}
      <4>1. u = scalarCodec(q, t, bad)
        BY <3>5
      <4> HIDE DEF u
      <4> QED
        BY <3>5, <4>1, ScalarIs DEF FieldCodec
    <3> HIDE DEF u, q1
    <3> QED
      BY <3>1, <3>2, <3>3, <3>4, <3>5
  <2> HIDE DEF u
  <2>3. IsProps(u) /\ HasCodec(u) /\ Tagged(u)
    BY <1>2, <2>2
  <2>4. Agree(v, u) /\ v.tagcode = u.tagcode /\ (Simple(v) => v.stype = u.stype /\ Simple(u))
    BY <2>3, OverriddenIs
  <2> HIDE DEF v
  <2>5. IsProps(v) /\ HasCodec(v) /\ Tagged(v)
    BY <2>3, <2>4 DEF Agree, HasCodec, Tagged
  <2> DEFINE r == TagCode(v)
  <2>6. Agree(r, v) /\ r.stype = v.stype /\ Described(r)
    BY <2>5, TagCodeIs
  <2> HIDE DEF r
  <2>7. ASSUME Simple(r) PROVE IsMap(r) \/ FieldCodec(r, t)
    <3>1. Simple(v)
      BY <2>6, <2>7 DEF Agree, Simple
    <3>2. Simple(u) /\ v.stype = u.stype
      BY <2>4, <3>1
    <3>3. CASE IsMap(u)
      BY <2>4, <2>6, <3>3 DEF Agree, IsMap
    <3>4. CASE FieldCodec(u, t)
      BY <2>4, <2>6, <3>2, <3>4, AgreeCodec
    <3> QED
      BY <2>2, <3>2, <3>3, <3>4
  <2> QED
    BY <2>1, <2>6, <2>7 DEF r
<1> QED
  BY <1>3, <1>4

\* Every field with a tag is described, and one without, too.
THEOREM FieldDescribed ==
  ASSUME NEW f, f.tag.id \in Int
  PROVE  LET r == init(f, {}) IN
         /\ r.tag \in 0..(Word32 - 1) /\ (r.enc # <<>> => r.enc[1] = r.dec[1])
         /\ r.wire \in {WireVarint, WireFixed64, WireBytes, WireFixed32}
         /\ r.tagcode # <<>> => r.err = None /\ r.enc # <<>> /\ r.tagcode = EncodeVarint((8 * r.tag + r.wire) % Word32)
         /\ ~r.skip /\ Simple(r) => Described(r) /\ (IsMap(r) \/ FieldCodec(r, f.type))
<1> DEFINE r == init(f, {})
           q == Parse(f.tag)
           m == mapCodec(q, f.type, f, {})
           Goal == /\ r.tag \in 0..(Word32 - 1) /\ (r.enc # <<>> => r.enc[1] = r.dec[1])
                   /\ r.wire \in {WireVarint, WireFixed64, WireBytes, WireFixed32}
                   /\ r.tagcode # <<>> => r.err = None /\ r.enc # <<>> /\ r.tagcode = EncodeVarint((8 * r.tag + r.wire) % Word32)
                   /\ ~r.skip /\ Simple(r) => Described(r) /\ (IsMap(r) \/ FieldCodec(r, f.type))
<1>0. Nobody({})
  BY DEF Nobody
<1>1. CASE f.tag.form = "missing"
  <2> DEFINE e == IF XXXHack /\ f.xxx THEN None ELSE NoTag
  <2>1. r = [NoProperties EXCEPT !.skip = TRUE, !.err = e]
    BY <1>1 DEF init
  <2>2. r.skip = TRUE /\ r.tag = 0 /\ r.enc = <<>> /\ r.tagcode = <<>> /\ r.wire = WireVarint
    BY <2>1 DEF NoProperties
  <2>3. 0 \in 0..(Word32 - 1)
    BY Word32Assumption
  <2> QED
    BY <2>2, <2>3
<1>2. CASE f.tag.form # "missing"
  <2>1. r = IF Settled(q) THEN q ELSE setEncAndDec(q, f.type, {}, m)
    BY <1>2 DEF init
  <2>2. IsProps(q) /\ q.enc = <<>> /\ q.dec = <<>> /\ Tagged(q) /\ (~Settled(q) => Parsed(q))
    BY ParseIs
  <2> HIDE DEF q
  <2>3. CASE Settled(q)
    <3>1. r = q
      BY <2>1, <2>3
    <3> HIDE DEF r
    <3>2. Goal
      BY <2>2, <2>3, <3>1 DEF Settled, Tagged, Simple
    <3> QED
      BY <3>2 DEF r
  <2>4. CASE ~Settled(q)
    <3>1. Picked(m, q) /\ (Simple(m) => IsMap(m))
      BY <2>2, <2>4, MapIs
    <3> HIDE DEF m
    <3>2. Described(setEncAndDec(q, f.type, {}, m)) /\ (Simple(setEncAndDec(q, f.type, {}, m)) =>
             IsMap(setEncAndDec(q, f.type, {}, m)) \/ FieldCodec(setEncAndDec(q, f.type, {}, m), f.type))
      BY <1>0, <2>2, <2>4, <3>1, CodecPicked
    <3>3. r = setEncAndDec(q, f.type, {}, m)
      BY <2>1, <2>4
    <3> HIDE DEF r
    <3>4. Described(r) /\ (Simple(r) => IsMap(r) \/ FieldCodec(r, f.type))
      BY <3>2, <3>3
    <3>5. Goal
      BY <3>4 DEF Described
    <3> QED
      BY <3>5 DEF r
  <2> QED
    BY <2>3, <2>4
<1> QED
  BY <1>1, <1>2

-----------------------------------------------------------------------------
(* the numbers of types of fewer bits *)

LEMMA AtLeastOnce == \A w, d \in Int : w > 0 => (d >= 1 => d * w >= w) /\ (d <= -1 => d * w <= -w)
OBVIOUS

LEMMA ModPlus ==
  ASSUME NEW w \in Nat, w > 0, NEW k \in Int, NEW y \in 0..(w - 1)
  PROVE  (k * w + y) % w = y
<1> DEFINE n == k * w + y
           q == n \div w
           r == n % w
<1>1. k * w \in Int /\ n \in Int
  BY Z3
<1> HIDE DEF n
<1>2. q \in Int /\ r \in 0..(w - 1) /\ n = w * q + r
  BY <1>1
<1> HIDE DEF q, r
<1>3. w * q = q * w /\ (q - k) * w = q * w - k * w /\ (q - k) \in Int /\ q * w \in Int
  BY <1>2
<1>4. (q - k) * w = y - r
  BY <1>1, <1>2, <1>3 DEF n
<1> DEFINE d == q - k
<1>5. d \in Int /\ d * w = y - r
  BY <1>3, <1>4
<1> HIDE DEF d
<1>6. ~(d >= 1) /\ ~(d <= -1)
  BY <1>2, <1>5, AtLeastOnce
<1>7. d = 0
  BY <1>5, <1>6
<1>8. d * w = 0
  BY <1>7
<1> QED
  BY <1>2, <1>5, <1>8 DEF n, r

\* w fits a whole number of times in v
Divides(w, v) == w \in Nat /\ v \in Nat /\ w > 0 /\ v > 0 /\ \E m \in Nat : v = m * w

LEMMA DividesIs ==
  ASSUME NEW w \in Nat, w > 0, NEW v \in Nat, v > 0, v % w = 0
  PROVE  Divides(w, v)
<1> DEFINE m == v \div w
<1>1. m \in Int /\ v = w * m + 0
  OBVIOUS
<1> HIDE DEF m
<1>2. ~(m < 0)
  BY <1>1, AtLeastOnce
<1>3. m \in Nat /\ v = m * w
  BY <1>1, <1>2
<1> QED
  BY <1>3 DEF Divides

LEMMA ModMod ==
  ASSUME NEW w, NEW v, Divides(w, v), NEW y \in Int
  PROVE  (y % v) % w = y % w /\ (y % v) \in 0..(v - 1) /\ (y % w) \in 0..(w - 1)
<1>1. PICK m \in Nat : v = m * w
  BY DEF Divides
<1>2. w \in Nat /\ v \in Nat /\ w > 0 /\ v > 0
  BY DEF Divides
<1> DEFINE q == y \div v
           r == y % v
           q2 == r \div w
           r2 == r % w
<1>3. q \in Int /\ r \in 0..(v - 1) /\ y = v * q + r
  BY <1>2
<1> HIDE DEF q, r
<1>4. q2 \in Int /\ r2 \in 0..(w - 1) /\ r = w * q2 + r2
  BY <1>2, <1>3
<1> HIDE DEF q2, r2
<1> DEFINE c == m * q
<1>5. v * q = c * w /\ c \in Int
  BY <1>1, <1>2, <1>3
<1> HIDE DEF c
<1>6. (c + q2) * w = c * w + q2 * w /\ w * q2 = q2 * w /\ c * w \in Int /\ q2 * w \in Int /\ c + q2 \in Int
  BY <1>2, <1>4, <1>5
<1>7. y = (c + q2) * w + r2
  BY <1>3, <1>4, <1>5, <1>6
<1>8. y % w = r2
  BY <1>2, <1>4, <1>6, <1>7, ModPlus
<1> QED
  BY <1>3, <1>4, <1>8 DEF r, r2

LEMMA Whole == \A w \in Nat, m \in Nat : w > 0 => m * w \in Nat /\ (m * w > 0 => m * w >= w)
OBVIOUS

LEMMA DividesMore ==
  ASSUME NEW w, NEW v, NEW u, Divides(w, v), Divides(v, u)
  PROVE  Divides(w, u) /\ v >= w
<1>1. PICK m \in Nat : v = m * w
  BY DEF Divides
<1>2. PICK k \in Nat : u = k * v
  BY DEF Divides
<1>3. w \in Nat /\ v \in Nat /\ w > 0 /\ v > 0 /\ u \in Nat /\ u > 0
  BY DEF Divides
<1>4. u = (k * m) * w /\ k * m \in Nat
  BY <1>1, <1>2, <1>3
<1>5. v >= w
  BY <1>1, <1>3, Whole
<1> QED
  BY <1>3, <1>4, <1>5 DEF Divides

\* the words of each size
LEMMA WordsFit ==
  /\ Divides(Word8, Word16) /\ Divides(Word8, Word32) /\ Divides(Word8, Word) /\ Divides(Word16, Word32) /\ Divides(Word16, Word)
  /\ Divides(Word32, Word) /\ 2 < Word8 /\ Word8 < Word16 /\ Word16 < Word32 /\ Word32 < Word /\ Word8 <= 256
  /\ Word8 \in Nat /\ Word16 \in Nat /\ Word32 \in Nat /\ Word \in Nat
<1>1. /\ 2 < Word8 /\ Word8 < Word16 /\ Word16 < Word32 /\ Word32 < Word /\ Word8 <= 256
      /\ Word8 \in Nat /\ Word16 \in Nat /\ Word32 \in Nat /\ Word \in Nat
  BY FieldCodecsAssumption, Word32Assumption, WireAssumption
<1>2. Divides(Word8, Word16) /\ Divides(Word16, Word32) /\ Divides(Word32, Word)
  BY <1>1, FieldCodecsAssumption, DividesIs
<1>3. Divides(Word8, Word32) /\ Divides(Word16, Word)
  BY <1>2, DividesMore
<1>4. Divides(Word8, Word)
  BY <1>2, <1>3, DividesMore
<1> QED
  BY <1>1, <1>2, <1>3, <1>4

LEMMA ModShift ==
  ASSUME NEW w \in Nat, w > 0, NEW c \in Int, NEW y \in Int
  PROVE  (c * w + y) % w = y % w
<1> DEFINE q == y \div w
           r == y % w
<1>1. q \in Int /\ r \in 0..(w - 1) /\ y = w * q + r
  OBVIOUS
<1> HIDE DEF q, r
<1>2. (c + q) * w = c * w + q * w /\ w * q = q * w /\ c * w \in Int /\ q * w \in Int /\ c + q \in Int
  BY <1>1
<1>3. c * w + y = (c + q) * w + r
  BY <1>1, <1>2
<1>4. (c * w + y) % w = r
  BY <1>1, <1>2, <1>3, ModPlus
<1> QED
  BY <1>4 DEF r

LEMMA Difference ==
  ASSUME NEW w, NEW v, NEW u, Divides(w, v), Divides(w, u), NEW y \in Int
  PROVE  ((u - v) + y) % w = y % w
<1>1. PICK m \in Nat : v = m * w
  BY DEF Divides
<1>2. PICK k \in Nat : u = k * w
  BY DEF Divides
<1>3. w \in Nat /\ w > 0 /\ v \in Nat /\ u \in Nat
  BY DEF Divides
<1>4. u - v = (k - m) * w /\ k - m \in Int
  BY <1>1, <1>2, <1>3
<1> DEFINE c == k - m
<1> HIDE DEF c
<1>5. c \in Int /\ u - v = c * w
  BY <1>4 DEF c
<1> QED
  BY <1>3, <1>5, ModShift

LEMMA DividesSelf ==
  ASSUME NEW w \in Nat, w > 0
  PROVE  Divides(w, w)
<1>1. w = 1 * w
  OBVIOUS
<1> QED
  BY <1>1 DEF Divides

\* The encoder and the decoder of a kind work with as many bits as it has.
LEMMA KindWords ==
  ASSUME NEW k \in NumberKinds
  PROVE  /\ NumberEncoder(k) \in NumberKinds /\ NumberDecoder(k) \in NumberKinds
         /\ WordOf(NumberEncoder(k)) = WordOf(k) /\ WordOf(NumberDecoder(k)) = WordOf(k)
         /\ WordOf(k) = Word \/ (WordOf(k) = 2 /\ ~HasSign(NumberEncoder(k))) \/ WordOf(k) \in {Word8, Word16, Word32}
<1>1. k \in {"int", "int8", "int16", "int32", "uint", "uint8", "uint16", "uint32", "bool", "int64", "uint64", "float32", "float64"}
  BY DEF NumberKinds, Signed32, Unsigned32
<1>2. NumberEncoder(k) \in NumberKinds /\ NumberDecoder(k) \in NumberKinds
  BY <1>1 DEF NumberKinds, Signed32, Unsigned32, NumberEncoder, NumberDecoder
<1>3. WordOf(NumberEncoder(k)) = WordOf(k)
  BY <1>1 DEF NumberEncoder, WordOf
<1>4. WordOf(NumberDecoder(k)) = WordOf(k)
  BY <1>1 DEF NumberDecoder, WordOf
<1>5. k = "bool" => WordOf(k) = 2 /\ ~HasSign(NumberEncoder(k))
  BY DEF WordOf, HasSign, NumberEncoder, Signed32
<1>6. k # "bool" => WordOf(k) = Word \/ WordOf(k) \in {Word8, Word16, Word32}
  BY DEF WordOf
<1> QED
  BY <1>2, <1>3, <1>4, <1>5, <1>6

LEMMA Word32Half == \E h \in Nat : Word32 = 2 * h /\ Word32 \div 2 = h /\ h >= 2 /\ h < Word32
<1> DEFINE h == Word32 \div 2
<1>1. Word32 \in Nat /\ Word32 >= 4 /\ Word32 % 2 = 0
  BY WordsFit, Word32Assumption
<1>2. h \in Nat /\ Word32 = 2 * h
  BY <1>1
<1> HIDE DEF h
<1>3. h >= 2 /\ h < Word32
  BY <1>1, <1>2
<1> QED
  BY <1>2, <1>3 DEF h

LEMMA ModSmall == \A w \in Nat, y \in Nat : w > 0 /\ y < w => y % w = y
OBVIOUS

LEMMA FullBack ==
  ASSUME NEW val \in Vals, NEW k \in NumberKinds, WordOf(k) = Word, NEW x \in 0..(Word - 1), Survives(val, k, x)
  PROVE  Encodable(val, x) = x /\ Stored(x, Word) = x
<1>0. PICK h \in Nat : Word32 = 2 * h /\ Word32 \div 2 = h /\ h >= 2 /\ h < Word32
  BY Word32Half
<1>00. PICK g \in Nat : Word = 2 * g /\ Word \div 2 = g /\ g > 0
  BY SecondFacts
<1>1. Word \in Nat /\ Word > 2 /\ Word32 \in Nat /\ Word32 > 0 /\ Word32 < Word /\ x \in Nat /\ x < Word
  BY WordsFit
<1>2. Stored(x, Word) = x
  BY <1>1, ModSmall DEF Stored
<1>3. CASE val \in {"varint", "zigzag64", "fixed64"}
  BY <1>2, <1>3 DEF Encodable
<1>4. CASE val = "fixed32"
  <2>1. x < Word32
    <3>1. (IF HasSign(k) THEN Int64(x) ELSE x) \in 0..(Word32 - 1)
      BY <1>4 DEF Survives
    <3>2. ~(HasSign(k) /\ x >= g)
      BY <1>00, <1>1, <3>1 DEF Int64
    <3> QED
      BY <1>00, <1>1, <3>1, <3>2 DEF Int64
  <2>2. x % Word32 = x
    BY <1>1, <2>1, ModSmall
  <2> QED
    BY <1>2, <1>4, <2>2 DEF Encodable
<1>5. CASE val = "zigzag32"
  <2>1. (IF HasSign(k) THEN Int64(x) ELSE x) \in (IF HasSign(k) THEN -h ELSE 0)..(h - 1)
    BY <1>0, <1>5 DEF Survives
  <2>2. CASE ~(HasSign(k) /\ x >= g)
    <3>1. x < h
      BY <1>0, <1>00, <1>1, <2>1, <2>2 DEF Int64
    <3>2. x % Word32 = x
      BY <1>0, <1>1, <3>1, ModSmall
    <3>3. SignExtended(x) = x
      BY <1>0, <3>1 DEF SignExtended
    <3> QED
      BY <1>2, <1>5, <3>2, <3>3 DEF Encodable
  <2>3. CASE HasSign(k) /\ x >= g
    <3>1. Int64(x) = x - Word
      BY <1>00, <1>1, <2>3 DEF Int64
    <3>2. x - Word >= -h
      BY <1>0, <1>1, <2>1, <2>3, <3>1
    <3> DEFINE y == Word32 + (x - Word)
    <3>3. y \in Nat /\ y < Word32 /\ y >= h /\ x = (Word - Word32) + y
      BY <1>0, <1>1, <3>2
    <3> HIDE DEF y
    <3>4. x % Word32 = y % Word32
      <4>1. Divides(Word32, Word32) /\ Divides(Word32, Word) /\ y \in Int
        BY <1>1, <3>3, WordsFit, DividesSelf
      <4>2. ((Word - Word32) + y) % Word32 = y % Word32
        BY <4>1, Difference
      <4> QED
        BY <3>3, <4>2
    <3>5. y % Word32 = y
      BY <1>1, <3>3, ModSmall
    <3>6. SignExtended(y) = x
      BY <1>0, <1>1, <3>3 DEF SignExtended
    <3> QED
      BY <1>2, <1>5, <3>4, <3>5, <3>6 DEF Encodable
  <2> QED
    BY <2>2, <2>3
<1> QED
  BY <1>3, <1>4, <1>5 DEF Vals

LEMMA BoolBack ==
  ASSUME NEW val \in Vals, NEW x \in 0..1
  PROVE  Encodable(val, x) = x /\ Stored(x, 2) = x
<1>0. PICK h \in Nat : Word32 = 2 * h /\ Word32 \div 2 = h /\ h >= 2 /\ h < Word32
  BY Word32Half
<1>1. x \in Nat /\ x < h /\ x < Word32 /\ (x = 0 \/ x = 1)
  BY <1>0
<1>2. x % Word32 = x
  BY <1>0, <1>1, ModSmall
<1>3. SignExtended(x) = x
  BY <1>0, <1>1 DEF SignExtended
<1>4. Encodable(val, x) = x
  BY <1>2, <1>3 DEF Encodable, Vals
<1> QED
  BY <1>1, <1>4 DEF Stored

\* in fewer bits than a word
LEMMA NarrowBack ==
  ASSUME NEW val \in Vals, NEW w \in {Word8, Word16, Word32}, NEW x \in 0..(w - 1), NEW signed \in BOOLEAN
  PROVE  /\ AsUint64(x, w, signed) \in 0..(Word - 1)
         /\ Stored(Encodable(val, AsUint64(x, w, signed)), w) = x
<1>0. PICK h \in Nat : Word32 = 2 * h /\ Word32 \div 2 = h /\ h >= 2 /\ h < Word32
  BY Word32Half
<1>1. Divides(w, Word32) /\ Divides(w, Word) /\ w \in Nat /\ w > 2 /\ w < Word /\ Word \in Nat /\ Word32 \in Nat /\ Word32 > 0 /\ Word32 < Word
  <2>1. Divides(Word32, Word32)
    BY WordsFit, DividesSelf
  <2> QED
    BY <2>1, WordsFit
<1>2. x \in Nat /\ x < w /\ x % w = x
  BY <1>1, ModSmall
<1> DEFINE u == AsUint64(x, w, signed)
<1>3. u = x \/ u = (Word - w) + x
  BY DEF AsUint64
<1> HIDE DEF u
<1>4. u \in 0..(Word - 1) /\ u \in Int
  BY <1>1, <1>2, <1>3
<1>5. u % w = x
  <2>1. CASE u = x
    BY <1>2, <2>1
  <2>2. CASE u = (Word - w) + x
    <3>1. Divides(w, w) /\ Divides(w, Word) /\ x \in Int
      BY <1>1, <1>2, DividesSelf
    <3>2. ((Word - w) + x) % w = x % w
      BY <3>1, Difference
    <3> QED
      BY <1>2, <2>2, <3>2
  <2> QED
    BY <1>3, <2>1, <2>2
<1>6. (u % Word32) % w = x /\ u % Word32 \in 0..(Word32 - 1)
  BY <1>1, <1>4, <1>5, ModMod
<1> DEFINE y == u % Word32
<1> HIDE DEF y
<1>7. y % w = x /\ y \in Int /\ y >= 0
  BY <1>1, <1>6 DEF y
<1>8. ((Word - Word32) + y) % w = x
  BY <1>1, <1>7, Difference
<1>9. SignExtended(y) % w = x
  BY <1>7, <1>8 DEF SignExtended
<1>10. Encodable(val, u) % w = x
  <2>1. CASE val \in {"varint", "zigzag64", "fixed64"}
    BY <1>5, <2>1 DEF Encodable
  <2>2. CASE val = "zigzag32"
    BY <1>9, <2>2 DEF Encodable, y
  <2>3. CASE val = "fixed32"
    BY <1>6, <2>3 DEF Encodable
  <2> QED
    BY <2>1, <2>2, <2>3 DEF Vals
<1>11. w # 2
  BY <1>1
<1> QED
  BY <1>4, <1>10, <1>11 DEF Stored, u

\* the uint64 of a number of kind k, as it is encoded
UintOf(k, x) == AsUint64(x, WordOf(NumberEncoder(k)), HasSign(NumberEncoder(k)))

LEMMA StoredBack ==
  ASSUME NEW val \in Vals, NEW k \in NumberKinds, NEW x \in 0..(WordOf(k) - 1)
  PROVE  /\ UintOf(k, x) \in 0..(Word - 1)
         /\ Survives(val, k, x) => Stored(Encodable(val, UintOf(k, x)), WordOf(NumberDecoder(k))) = x
<1> DEFINE w == WordOf(k)
           s == HasSign(NumberEncoder(k))
<1>1. w = Word \/ (w = 2 /\ ~s) \/ w \in {Word8, Word16, Word32}
  BY KindWords
<1>2. UintOf(k, x) = AsUint64(x, w, s) /\ WordOf(NumberDecoder(k)) = w
  BY KindWords DEF UintOf
<1>3. s \in BOOLEAN
  BY DEF HasSign
<1>4. CASE w = Word
  <2>1. AsUint64(x, w, s) = x
    BY <1>4, WordsFit DEF AsUint64
  <2>2. Survives(val, k, x) => Encodable(val, x) = x /\ Stored(x, Word) = x
    BY <1>4, FullBack
  <2> QED
    BY <1>2, <1>4, <2>1, <2>2
<1>5. CASE w = 2 /\ ~s
  <2>1. AsUint64(x, w, s) = x
    BY <1>5 DEF AsUint64
  <2>2. x \in 0..1
    BY <1>5
  <2>3. Encodable(val, x) = x /\ Stored(x, 2) = x
    BY <2>2, BoolBack
  <2> QED
    BY <1>2, <1>5, <2>1, <2>2, <2>3, WordsFit
<1>6. CASE w \in {Word8, Word16, Word32}
  <2> HIDE DEF s, w
  <2>1. x \in 0..(w - 1)
    BY DEF w
  <2>2. AsUint64(x, w, s) \in 0..(Word - 1) /\ Stored(Encodable(val, AsUint64(x, w, s)), w) = x
    BY <1>3, <1>6, <2>1, NarrowBack
  <2> QED
    BY <1>2, <2>2
<1> QED
  BY <1>1, <1>4, <1>5, <1>6

-----------------------------------------------------------------------------
(* sizes *)

LEMMA ValueSizes ==
  ASSUME NEW val \in Vals, NEW x \in 0..(Word - 1)
  PROVE  valEnc(val, x) \in Seq(Bytes) /\ Len(valEnc(val, x)) \in 1..(VarintLen + 8)
<1>0. Word \in Nat /\ Word > 0 /\ Word32 \in Nat /\ Word32 > 0 /\ Word32 < Word /\ VarintLen \in Nat /\ x \in Nat /\ x < Word
  BY WireAssumption, Word32Assumption
<1>1. valEnc(val, x) \in Seq(Bytes)
  BY <1>0, ValueBytes DEF Vals
<1>2. \A y \in Nat : y < Word => Len(EncodeVarint(y)) \in 1..(VarintLen + 8)
  BY <1>0, VarintSizes
<1>3. CASE val = "varint"
  BY <1>0, <1>1, <1>2, <1>3 DEF valEnc
<1>4. CASE val = "zigzag32"
  <2>1. x % Word32 \in 0..(Word32 - 1)
    BY <1>0
  <2>2. Unzigzag(x % Word32, Word32) \in Nat /\ Unzigzag(x % Word32, Word32) < Word
    BY <1>0, <2>1, UnzigzagFits
  <2> QED
    BY <1>1, <1>2, <1>4, <2>2 DEF valEnc
<1>5. CASE val = "zigzag64"
  <2>1. Unzigzag(x, Word) \in Nat /\ Unzigzag(x, Word) < Word
    BY <1>0, UnzigzagFits, WordIsEven
  <2> QED
    BY <1>1, <1>2, <1>5, <2>1 DEF valEnc
<1>6. CASE val = "fixed32"
  <2>1. x % Word32 \in Nat
    BY <1>0
  <2>2. Len(EncodeFixed(x % Word32, 4)) = 4
    BY <2>1, FixedBytes
  <2>3. valEnc(val, x) = EncodeFixed(x % Word32, 4)
    BY <1>6 DEF valEnc
  <2>4. 4 \in 1..(VarintLen + 8)
    BY <1>0
  <2> QED
    BY <1>1, <2>2, <2>3, <2>4
<1>7. CASE val = "fixed64"
  <2>1. Len(EncodeFixed(x, 8)) = 8
    BY <1>0, FixedBytes
  <2>2. valEnc(val, x) = EncodeFixed(x, 8)
    BY <1>7 DEF valEnc
  <2>3. 8 \in 1..(VarintLen + 8)
    BY <1>0
  <2> QED
    BY <1>1, <2>1, <2>2, <2>3
<1> QED
  BY <1>3, <1>4, <1>5, <1>6, <1>7 DEF Vals

\* a Timestamp is far shorter than what fits in memory
LEMMA WordIsLarge == VarintLen \in Nat /\ Word \in Nat /\ 2 + 2 * VarintLen < Word
<1>0. VarintLen \in Nat /\ VarintLen >= 3 /\ LastLimit \in 2..128 /\ Word \in Nat
  BY WireAssumption
<1> DEFINE S == {n \in Nat : n <= VarintLen => Weight[n] >= 4 * n}
<1>1. \A n \in 0..VarintLen : Weight[n] \in Nat /\ Weight[n] > 0
  BY WeightFacts
<1>2. 0 \in S
  BY <1>0, <1>1
<1>3. ASSUME NEW n \in Nat, n \in S PROVE n + 1 \in S
  <2> SUFFICES ASSUME n + 1 <= VarintLen PROVE Weight[n + 1] >= 4 * (n + 1)
    OBVIOUS
  <2>1. n \in 0..VarintLen /\ n + 1 \in 1..VarintLen /\ (n + 1) - 1 = n
    BY <1>0
  <2>2. Weight[n + 1] = 128 * Weight[n]
    BY <2>1, WeightFacts
  <2>3. Weight[n] >= 4 * n /\ Weight[n] \in Nat /\ Weight[n] > 0
    BY <1>1, <1>3, <2>1
  <2> QED
    BY <2>2, <2>3
<1> HIDE DEF S
<1>4. VarintLen - 1 \in S
  BY <1>0, <1>2, <1>3, SetInduction
<1> DEFINE w == Weight[VarintLen - 1]
<1>5. w >= 4 * (VarintLen - 1) /\ w \in Nat
  BY <1>0, <1>1, <1>4 DEF S
<1> HIDE DEF w
<1>6. LastLimit * w >= 2 * w
  <2>1. \A l, v \in Nat : l >= 2 => l * v >= 2 * v
    OBVIOUS
  <2> QED
    BY <1>0, <1>5, <2>1
<1>7. Word = LastLimit * w
  BY WordAssumption DEF w
<1> QED
  BY <1>0, <1>5, <1>6, <1>7

-----------------------------------------------------------------------------
(* bytes with their length *)

LEMMA RawBytes ==
  ASSUME NEW s \in Seq(Bytes), Len(s) < Word
  PROVE  /\ EncodeVarint(Len(s)) \in Seq(Bytes) /\ Len(EncodeVarint(Len(s))) \in 1..VarintLen
         /\ Raw(s) \in Seq(Bytes) /\ Len(Raw(s)) = Len(EncodeVarint(Len(s))) + Len(s) /\ Len(s) \in Nat
<1>1. Len(s) \in Nat
  OBVIOUS
<1>2. EncodeVarint(Len(s)) \in Seq(Bytes) /\ Len(EncodeVarint(Len(s))) \in 1..VarintLen
  BY <1>1, VarintSizes
<1> QED
  BY <1>1, <1>2, Joined DEF Raw

LEMMA RawRecord ==
  ASSUME NEW b, NEW i
  PROVE  LET r == DecodeRawBytes(b, i) IN r = [x |-> r.x, index |-> r.index, err |-> r.err]
<1>1. LET r == DecodeVarint(b, i) IN r = [x |-> r.x, index |-> r.index, err |-> r.err]
  BY DEF DecodeVarint, decodeVarintSlow, decodeVarintFast
<1>2. LET r == RawLength(b, i) IN r = [x |-> r.x, index |-> r.index, err |-> r.err]
  BY <1>1 DEF RawLength
<1> QED
  BY <1>2 DEF DecodeRawBytes

\* Bytes with their length are read back.
LEMMA RawReadBack ==
  ASSUME NEW s \in Seq(Bytes), Len(s) < Word, NEW b \in Seq(Bytes), Len(b) < Word, NEW i \in Nat, StandsAt(b, i, Raw(s))
  PROVE  /\ DecodeVarint(b, i) = Read(Len(s), i + Len(EncodeVarint(Len(s))))
         /\ DecodeRawBytes(b, i) = Read(i + Len(EncodeVarint(Len(s))), i + Len(Raw(s)))
         /\ Inner(b, i + Len(EncodeVarint(Len(s))), i + Len(Raw(s))) = s
         /\ i + Len(Raw(s)) <= Len(b)
<1> DEFINE v == EncodeVarint(Len(s))
           j == i + Len(v)
<1>1. v \in Seq(Bytes) /\ Len(v) \in 1..VarintLen /\ Raw(s) = v \o s /\ Len(Raw(s)) = Len(v) + Len(s) /\ Len(s) \in Nat /\ Len(b) \in Nat /\ Len(v) \in Nat
  BY RawBytes DEF Raw
<1> HIDE DEF v
<1>2. StandsAt(b, i, v) /\ StandsAt(b, j, s) /\ j \in Nat
  BY <1>1, StandsApart
<1>3. DecodeVarint(b, i) = Read(Len(s), j)
  BY <1>1, <1>2, VarintReadBack DEF v
<1>4. j + Len(s) <= Len(b) /\ i + Len(Raw(s)) = j + Len(s)
  BY <1>1, <1>2 DEF StandsAt
<1>5. Inner(b, j, j + Len(s)) = s
  BY <1>2, StandsInner
<1>6. PICK n : Varint(b, i, n)
  <2>1. i <= Len(b)
    BY <1>1, <1>4
  <2>2. DecodeVarint(b, i).err = None
    BY <1>3
  <2> QED
    BY <2>1, <2>2, VarintFound
<1>7. DecodeVarint(b, i) = Read(Groups(b, i, n), i + n)
  BY <1>6, VarintRead
<1>8. n \in Nat
  BY <1>6 DEF Varint
<1>9. Groups(b, i, n) = Len(s) /\ i + n = j
  BY <1>3, <1>7
<1>10. i + n + Groups(b, i, n) = j + Len(s)
  BY <1>9
<1> DEFINE r == DecodeRawBytes(b, i)
           e == j + Len(s)
<1>11. e \in Nat /\ e <= Len(b) /\ i <= Len(b)
  BY <1>1, <1>2, <1>4
<1>12. r.err = None /\ r.index = e /\ r.x = i + n
  BY <1>6, <1>10, <1>11, RawBytesRead
<1>13. r = Read(j, e)
  BY <1>9, <1>12, RawRecord
<1> QED
  BY <1>3, <1>4, <1>5, <1>13 DEF v

-----------------------------------------------------------------------------
(* keys *)

LEMMA EighthOf == \A w, t, k \in Nat : t < w \div 8 /\ k < 8 => 8 * t + k < w /\ (8 * t + k) \div 8 = t /\ (8 * t + k) % 8 = k
OBVIOUS

LEMMA KeyBack ==
  ASSUME NEW tag \in Nat, tag < Word32 \div 8, NEW wire \in 0..7, NEW b \in Seq(Bytes), NEW i \in Nat,
         StandsAt(b, i, EncodeVarint((8 * tag + wire) % Word32))
  PROVE  LET key == DecodeVarint(b, i) IN
         /\ key.err = None /\ KeyId(key.x) = tag /\ KeyWire(key.x) = wire
         /\ key.index = i + Len(EncodeVarint((8 * tag + wire) % Word32))
<1> DEFINE x == 8 * tag + wire
<1>1. Word32 \in Nat /\ Word32 < Word /\ Word \in Nat /\ wire \in Nat /\ wire < 8 /\ Word32 > 0
  BY WordsFit
<1>2. x < Word32 /\ x \div 8 = tag /\ x % 8 = wire /\ x \in Nat
  BY <1>1, EighthOf
<1> HIDE DEF x
<1>3. x % Word32 = x
  BY <1>1, <1>2, ModSmall
<1>4. StandsAt(b, i, EncodeVarint(x))
  BY <1>3 DEF x
<1>5. DecodeVarint(b, i) = Read(x, i + Len(EncodeVarint(x)))
  <2>1. x < Word
    BY <1>1, <1>2
  <2> QED
    BY <1>2, <1>4, <2>1, VarintReadBack
<1> QED
  BY <1>2, <1>3, <1>5 DEF KeyId, KeyWire, x

-----------------------------------------------------------------------------
(* a single number, string or time *)

\* What is written of y with the encoder e is read back with the decoder d, wherever it stands.
ReadBack(q, e, d, y) ==
  \A b \in Seq(Bytes) : \A i \in Nat :
    (Len(b) < Word /\ StandsAt(b, i, Written(q, e, y))) => Got(q, b, d, i) = Read(y, i + Len(Written(q, e, y)))

LEMMA NotNumbers ==
  /\ "string" \notin NumberKinds /\ "byte" \notin NumberKinds /\ "slice_byte" \notin NumberKinds
  /\ "struct_message" \notin NumberKinds /\ "time_Time" \notin NumberKinds /\ "time_Duration" \notin NumberKinds
  /\ "nothing" \notin NumberKinds
BY DEF NumberKinds, Signed32, Unsigned32

LEMMA NumberBack ==
  ASSUME NEW q, q.valEnc \in Vals, NEW k \in NumberKinds, NEW y \in 0..(WordOf(k) - 1)
  PROVE  LET e == NumberEncoder(k)
             d == NumberDecoder(k)
         IN  /\ Written(q, e, y) = valEnc(q.valEnc, UintOf(k, y))
             /\ Written(q, e, y) \in Seq(Bytes) /\ Len(Written(q, e, y)) \in 1..(VarintLen + 8)
             /\ Survives(q.valEnc, k, y) => ReadBack(q, e, d, y)
<1> DEFINE e == NumberEncoder(k)
           d == NumberDecoder(k)
           u == UintOf(k, y)
           w == WordOf(d)
<1>0. e \in NumberKinds /\ d \in NumberKinds
  BY KindWords
<1>00. \A o \in NumberKinds : o \notin {"string", "byte", "slice_byte"} /\ o # "struct_message" /\ o # "time_Time" /\ o # "time_Duration"
  BY NotNumbers
<1> HIDE DEF e, d
<1>1. Written(q, e, y) = valEnc(q.valEnc, u)
  <2>1. Written(q, e, y) = valEnc(q.valEnc, AsUint64(y, WordOf(e), HasSign(e)))
    BY <1>0, <1>00 DEF Written
  <2> QED
    BY <2>1 DEF UintOf, e
<1>2. u \in 0..(Word - 1) /\ (Survives(q.valEnc, k, y) => Stored(Encodable(q.valEnc, u), w) = y)
  BY StoredBack DEF d
<1> HIDE DEF u
<1>3. valEnc(q.valEnc, u) \in Seq(Bytes) /\ Len(valEnc(q.valEnc, u)) \in 1..(VarintLen + 8)
  BY <1>2, ValueSizes
<1>4. ASSUME Survives(q.valEnc, k, y), NEW b \in Seq(Bytes), NEW i \in Nat, Len(b) < Word, StandsAt(b, i, Written(q, e, y))
      PROVE  Got(q, b, d, i) = Read(y, i + Len(Written(q, e, y)))
  <2> DEFINE n == valDec(q.valEnc, b, i)
  <2>1. u \in Nat /\ u < Word
    BY <1>2, WireAssumption
  <2>2. StandsAt(b, i, valEnc(q.valEnc, u))
    BY <1>1, <1>4
  <2>3. n = Read(Encodable(q.valEnc, u), i + Len(valEnc(q.valEnc, u)))
    BY <1>4, <2>1, <2>2, NumberReadBack DEF Vals
  <2>4. Got(q, b, d, i) = [n EXCEPT !.x = Stored(@, w)]
    BY <1>0, <1>00 DEF Got
  <2> HIDE DEF n, w
  <2>5. Got(q, b, d, i) = Read(Stored(Encodable(q.valEnc, u), w), i + Len(valEnc(q.valEnc, u)))
    BY <2>3, <2>4
  <2> QED
    BY <1>1, <1>2, <1>4, <2>5
<1>5. Survives(q.valEnc, k, y) => ReadBack(q, e, d, y)
  BY <1>4 DEF ReadBack
<1> QED
  BY <1>1, <1>3, <1>5 DEF u, e, d

LEMMA StringBack ==
  ASSUME NEW q, NEW e \in {"string", "byte", "slice_byte"}, NEW y \in Seq(Bytes), Len(y) < Word
  PROVE  Written(q, e, y) \in Seq(Bytes) /\ ReadBack(q, e, e, y)
<1>1. Written(q, e, y) = Raw(y)
  BY NotNumbers DEF Written
<1>2. Raw(y) \in Seq(Bytes)
  BY RawBytes
<1>3. ASSUME NEW b \in Seq(Bytes), NEW i \in Nat, Len(b) < Word, StandsAt(b, i, Raw(y))
      PROVE  Got(q, b, e, i) = Read(y, i + Len(Raw(y)))
  <2> DEFINE r == DecodeRawBytes(b, i)
             j == i + Len(EncodeVarint(Len(y)))
             k == i + Len(Raw(y))
  <2>1. r = Read(j, k) /\ Inner(b, j, k) = y
    BY <1>3, RawReadBack
  <2>2. Got(q, b, e, i) = [r EXCEPT !.x = Inner(b, r.x, r.index)]
    BY NotNumbers DEF Got
  <2> HIDE DEF r, j, k
  <2>3. Got(q, b, e, i) = Read(y, k)
    BY <2>1, <2>2
  <2> QED
    BY <2>3 DEF k
<1> QED
  BY <1>1, <1>2, <1>3 DEF ReadBack

LEMMA TimeBack ==
  ASSUME NEW q, NEW y \in OfType(Time)
  PROVE  Written(q, "struct_message", y) \in Seq(Bytes) /\ ReadBack(q, "struct_message", "time_Time", y)
<1> DEFINE s == EncodeTimestamp(y)
<1>0. y \in Int /\ y \div Second \in Int64s
  BY Kinds DEF OfType
<1>1. Written(q, "struct_message", y) = Raw(s)
  BY NotNumbers DEF Written
<1>2. s \in Seq(Bytes) /\ Len(s) <= 2 + 2 * VarintLen /\ DecodeTimestamp(s) = [err |-> None, ns |-> y]
  BY <1>0, TimestampBack
<1> HIDE DEF s
<1>3. Len(s) < Word
  BY <1>2, WordIsLarge
<1>4. Raw(s) \in Seq(Bytes)
  BY <1>2, <1>3, RawBytes
<1>5. ASSUME NEW b \in Seq(Bytes), NEW i \in Nat, Len(b) < Word, StandsAt(b, i, Raw(s))
      PROVE  Got(q, b, "time_Time", i) = Read(y, i + Len(Raw(s)))
  <2> DEFINE r == DecodeRawBytes(b, i)
             j == i + Len(EncodeVarint(Len(s)))
             k == i + Len(Raw(s))
  <2>1. r = Read(j, k) /\ Inner(b, j, k) = s
    BY <1>2, <1>3, <1>5, RawReadBack
  <2>2. Got(q, b, "time_Time", i) = TimeIn(b, r)
    BY NotNumbers DEF Got, decode_time_Time
  <2> HIDE DEF r, j, k
  <2>3. r.err = None /\ r.x = j /\ r.index = k
    BY <2>1
  <2>4. TimeIn(b, r) = LET t == DecodeTimestamp(Inner(b, r.x, r.index)) IN [x |-> t.ns, index |-> r.index, err |-> t.err]
    BY <2>3 DEF TimeIn
  <2>5. DecodeTimestamp(Inner(b, r.x, r.index)) = [err |-> None, ns |-> y]
    BY <1>2, <2>1, <2>3
  <2>6. TimeIn(b, r) = Read(y, k)
    BY <2>3, <2>4, <2>5
  <2> QED
    BY <2>2, <2>6 DEF k
<1> QED
  BY <1>1, <1>4, <1>5 DEF ReadBack

LEMMA AsInt64 ==
  ASSUME NEW x \in 0..(Word - 1)
  PROVE  Int64(x) \in Int64s /\ Int64(x) % Word = x
<1>1. PICK h \in Nat : Word = 2 * h /\ Word \div 2 = h /\ h > 0
  BY SecondFacts
<1>2. x \in Int /\ 0 <= x /\ x < 2 * h
  BY <1>1
<1>3. \A g \in Nat : g > 0 => \A y \in Int : (0 <= y /\ y < 2 * g => y % (2 * g) = y /\ (y - 2 * g) % (2 * g) = y)
  OBVIOUS
<1>4. x % Word = x /\ (x - Word) % Word = x
  BY <1>1, <1>2, <1>3
<1>5. Int64(x) \in Int64s
  BY <1>1, <1>2 DEF Int64, Int64s
<1> QED
  BY <1>4, <1>5 DEF Int64

LEMMA DurationReadBack ==
  ASSUME NEW q, NEW y \in 0..(Word - 1)
  PROVE  Written(q, "time_Duration", y) \in Seq(Bytes) /\ ReadBack(q, "time_Duration", "time_Duration", y)
<1> DEFINE n == Int64(y)
           s == enc_Duration(n)
<1>0. n \in Int64s /\ n % Word = y
  BY AsInt64
<1>1. Written(q, "time_Duration", y) = Raw(s)
  BY NotNumbers DEF Written
<1> HIDE DEF n
<1>2. s \in Seq(Bytes) /\ Len(s) <= 2 + 2 * VarintLen /\ DecodeNSecTimestamp(s) = [err |-> None, ns |-> n]
  BY <1>0, DurationBack
<1> HIDE DEF s
<1>3. Len(s) < Word
  BY <1>2, WordIsLarge
<1>4. Raw(s) \in Seq(Bytes) /\ Len(Raw(s)) = Len(EncodeVarint(Len(s))) + Len(s) /\ Len(s) \in Nat /\ Len(EncodeVarint(Len(s))) \in Nat
  <2>1. EncodeVarint(Len(s)) \in Seq(Bytes)
    BY <1>2, <1>3, RawBytes
  <2>2. Len(EncodeVarint(Len(s))) \in Nat
    BY <2>1
  <2> QED
    BY <1>2, <1>3, <2>2, RawBytes
<1>5. ASSUME NEW b \in Seq(Bytes), NEW i \in Nat, Len(b) < Word, StandsAt(b, i, Raw(s))
      PROVE  Got(q, b, "time_Duration", i) = Read(y, i + Len(Raw(s)))
  <2> DEFINE r == DecodeVarint(b, i)
             j == i + Len(EncodeVarint(Len(s)))
             k == i + Len(Raw(s))
             o == DurationIn(b, r)
  <2>1. r = Read(Len(s), j) /\ Inner(b, j, k) = s /\ k <= Len(b)
    BY <1>2, <1>3, <1>5, RawReadBack
  <2>2. Got(q, b, "time_Duration", i) = [o EXCEPT !.x = @ % Word]
    BY NotNumbers DEF Got, dec_Duration
  <2>3. k = j + Len(s) /\ j \in Nat /\ k \in Nat /\ j <= k
    BY <1>4
  <2> HIDE DEF r, j, k
  <2>4. r.err = None /\ r.x = Len(s) /\ r.index = j
    BY <2>1
  <2>5. (r.index + r.x) % Word = k
    <3>1. k < Word
      BY <1>5, <2>1, <2>3, WireAssumption
    <3> QED
      BY <2>3, <2>4, <3>1, ModSmall, WireAssumption
  <2>6. SliceEnds(b, r.index, k)
    BY <2>1, <2>3, <2>4 DEF SliceEnds
  <2>7. DecodeNSecTimestamp(Inner(b, r.index, k)) = [err |-> None, ns |-> n]
    BY <1>2, <2>1, <2>4
  <2>8. o = Read(n, k)
    BY <2>4, <2>5, <2>6, <2>7 DEF DurationIn
  <2> HIDE DEF o
  <2>9. Got(q, b, "time_Duration", i) = Read(n % Word, k)
    BY <2>2, <2>8
  <2> QED
    BY <1>0, <2>9 DEF k
<1> QED
  BY <1>1, <1>4, <1>5 DEF ReadBack

-----------------------------------------------------------------------------
(* the items of a message *)

\* an item with the payload v turns the field from x to y
ReadsAs(q, v, x, y) ==
  \A b \in Seq(Bytes) : \A i \in Nat : (Len(b) < Word /\ StandsAt(b, i, v)) => dec(q, b, i, x) = Read(y, i + Len(v))

\* what comes back: nothing of a pointer to no time
Wanted(q, x) == IF q.enc = <<"ptr", "time_Duration">> /\ x = {0} THEN {} ELSE x

\* w: the payloads of the items that x is written as; a: what the field is before each, and in the end
Told(q, x, w, a) ==
  /\ w \in Seq(Seq(Bytes))
  /\ enc(q, x) = Concat([k \in 1..Len(w) |-> q.tagcode \o w[k]])
  /\ a[1] = Zero(q) /\ Filled(q, a[Len(w) + 1]) = Wanted(q, x)
  /\ \A k \in 1..Len(w) : ReadsAs(q, w[k], a[k], a[k + 1])

LEMMA ConcatNone == Concat(<<>>) = <<>>
<1>1. <<>> \in Seq(Seq(Bytes)) /\ Len(<<>>) = 0
  OBVIOUS
<1>2. PICK r : Suffixes(Bytes, <<>>, r)
  BY <1>1, ConcatSuffixes
<1>3. r[1] = Concat(<<>>) /\ r[0 + 1] = <<>>
  BY <1>1, <1>2 DEF Suffixes
<1> QED
  BY <1>3

LEMMA ConcatOne ==
  ASSUME NEW S, NEW v \in Seq(S)
  PROVE  Concat(<<v>>) = v
<1> DEFINE ss == <<v>>
<1>1. ss \in Seq(Seq(S)) /\ Len(ss) = 1 /\ ss[1] = v
  OBVIOUS
<1> HIDE DEF ss
<1>2. PICK r : Suffixes(S, ss, r)
  BY <1>1, ConcatSuffixes
<1>3. r[1] = Concat(ss) /\ r[1 + 1] = <<>> /\ r[1] = ss[1] \o r[1 + 1]
  BY <1>1, <1>2 DEF Suffixes
<1>4. v \o <<>> = v
  OBVIOUS
<1> QED
  BY <1>1, <1>3, <1>4 DEF ss

LEMMA NoItems ==
  ASSUME NEW q, NEW x, enc(q, x) = <<>>, Filled(q, Zero(q)) = Wanted(q, x)
  PROVE  \E w, a : Told(q, x, w, a)
<1> DEFINE w == <<>>
           a == [k \in 1..1 |-> Zero(q)]
           c == [k \in 1..Len(w) |-> q.tagcode \o w[k]]
<1>1. w \in Seq(Seq(Bytes)) /\ Len(w) = 0 /\ Len(w) + 1 = 1 /\ 1..Len(w) = {}
  OBVIOUS
<1>2. c = <<>>
  <2>1. Len(w) = 0
    OBVIOUS
  <2> QED
    BY <2>1
<1>3. Concat(c) = <<>>
  BY <1>2, ConcatNone
<1>4. a[1] = Zero(q)
  OBVIOUS
<1> HIDE DEF w, a
<1> QED
  BY <1>1, <1>3, <1>4 DEF Told

LEMMA OneItem ==
  ASSUME NEW q, q.tagcode \in Seq(Bytes), NEW x, NEW v \in Seq(Bytes), NEW y, enc(q, x) = q.tagcode \o v,
         ReadsAs(q, v, Zero(q), y), Filled(q, y) = Wanted(q, x)
  PROVE  \E w, a : Told(q, x, w, a)
<1> DEFINE w == <<v>>
           z == Zero(q)
           a == [k \in 1..2 |-> IF k = 1 THEN z ELSE y]
           c == [k \in 1..Len(w) |-> q.tagcode \o w[k]]
           s == q.tagcode \o v
<1>1. w \in Seq(Seq(Bytes)) /\ Len(w) = 1 /\ w[1] = v /\ 1..Len(w) = {1}
  OBVIOUS
<1>2. c = <<s>>
  OBVIOUS
<1>3. s \in Seq(Bytes)
  OBVIOUS
<1> HIDE DEF s
<1>4. Concat(c) = s
  BY <1>2, <1>3, ConcatOne
<1> HIDE DEF c, z
<1>5. a[1] = z /\ a[2] = y /\ a[Len(w) + 1] = y
  BY <1>1
<1> HIDE DEF w, a
<1>6. enc(q, x) = Concat(c)
  BY <1>4 DEF s
<1>7. ASSUME NEW k \in 1..Len(w) PROVE ReadsAs(q, w[k], a[k], a[k + 1])
  <2>1. k = 1 /\ k + 1 = 2
    BY <1>1
  <2> QED
    BY <1>1, <1>5, <2>1 DEF z
<1> QED
  BY <1>1, <1>5, <1>6, <1>7 DEF Told, c, z

-----------------------------------------------------------------------------
(* fields of one item: single values, pointers and bytes *)

\* A struct in a field that is coded here is a time.
OnlyTimes(q) == q.stype \subseteq {Time, Duration}

\* of the numbers
Lasts(q, t, y) == t.kind \in NumberKinds => Survives(q.valEnc, t.kind, y)

LEMMA OfNumbers ==
  ASSUME NEW t, t.kind \in NumberKinds
  PROVE  OfType(t) = 0..(WordOf(t.kind) - 1)
<1>1. t # Time
  BY Kinds
<1> QED
  BY <1>1 DEF OfType

LEMMA OfStrings ==
  ASSUME NEW t, t.kind \notin NumberKinds, t # Time
  PROVE  OfType(t) = {s \in Seq(Bytes) : Len(s) < Word}
BY DEF OfType

LEMMA OfDurations == OfType(Duration) = 0..(Word - 1)
<1>1. Duration.kind \in NumberKinds /\ WordOf(Duration.kind) = Word
  BY Kinds DEF WordOf
<1> QED
  BY <1>1, OfNumbers

\* which encoders there are of a single value
LEMMA UnitNames ==
  ASSUME NEW q, NEW t, NEW e, NEW d, Unit(q, t, e, d)
  PROVE  e \notin {"nothing", "byte"} /\ d \notin {"nothing", "byte"}
<1>1. \A k \in NumberKinds : NumberEncoder(k) \in NumberKinds /\ NumberDecoder(k) \in NumberKinds
  BY KindWords
<1>2. CASE IsNumber(q, t, e, d)
  BY <1>1, <1>2, NotNumbers DEF IsNumber
<1>3. CASE IsADuration(t, e, d)
  BY <1>3 DEF IsADuration
<1>4. CASE IsString(t, e, d)
  BY <1>4 DEF IsString
<1>5. CASE IsStruct(q, t, e, d)
  BY <1>5 DEF IsStruct
<1> QED
  BY <1>2, <1>3, <1>4, <1>5 DEF Unit

\* A single value is written as bytes and read back, and one that is left out is as in a new struct.
LEMMA UnitBack ==
  ASSUME NEW q, OnlyTimes(q), NEW t, NEW e, NEW d, Unit(q, t, e, d), NEW y \in OfType(t)
  PROVE  /\ Written(q, e, y) \in Seq(Bytes)
         /\ Lasts(q, t, y) => ReadBack(q, e, d, y)
         /\ IsEmpty(e, y) => ZeroOf(d) = y
<1>0. \A o \in NumberKinds : o \notin {"string", "byte", "slice_byte"} /\ o # "struct_message" /\ o # "time_Time" /\ o # "time_Duration"
  BY NotNumbers
<1>1. CASE IsNumber(q, t, e, d)
  <2>1. t.kind \in NumberKinds /\ e = NumberEncoder(t.kind) /\ d = NumberDecoder(t.kind) /\ q.valEnc \in Vals
    BY <1>1 DEF IsNumber
  <2>2. y \in 0..(WordOf(t.kind) - 1)
    BY <2>1, OfNumbers
  <2>3. Written(q, e, y) \in Seq(Bytes) /\ (Survives(q.valEnc, t.kind, y) => ReadBack(q, e, d, y))
    BY <2>1, <2>2, NumberBack
  <2>4. e \in NumberKinds /\ d \in NumberKinds
    BY <2>1, KindWords
  <2>5. IsEmpty(e, y) <=> y = 0
    BY <1>0, <2>4 DEF IsEmpty
  <2>6. ZeroOf(d) = 0
    BY <1>0, <2>4 DEF ZeroOf
  <2> QED
    BY <2>1, <2>3, <2>5, <2>6 DEF Lasts
<1>2. CASE IsADuration(t, e, d)
  <2>1. t = Duration /\ e = "time_Duration" /\ d = "time_Duration"
    BY <1>2 DEF IsADuration
  <2>2. y \in 0..(Word - 1)
    BY <2>1, OfDurations
  <2>3. IsEmpty(e, y) <=> y = 0
    BY <2>1 DEF IsEmpty
  <2>4. ZeroOf(d) = 0
    BY <2>1 DEF ZeroOf
  <2> QED
    BY <2>1, <2>2, <2>3, <2>4, DurationReadBack
<1>3. CASE IsString(t, e, d)
  <2>1. t.kind = "string" /\ e = "string" /\ d = "string"
    BY <1>3 DEF IsString
  <2>2. y \in Seq(Bytes) /\ Len(y) < Word
    BY <2>1, Kinds, OfStrings
  <2>3. IsEmpty(e, y) <=> y = <<>>
    BY <2>1, <1>0 DEF IsEmpty
  <2>4. ZeroOf(d) = <<>>
    BY <2>1, <1>0 DEF ZeroOf
  <2> QED
    BY <2>1, <2>2, <2>3, <2>4, StringBack
<1>4. CASE IsStruct(q, t, e, d)
  <2>1. t.kind = "struct" /\ t \in q.stype /\ e = "struct_message"
    BY <1>4 DEF IsStruct
  <2>2. t = Time
    <3>1. t = Time \/ t = Duration
      BY <2>1 DEF OnlyTimes
    <3> QED
      BY <2>1, <3>1, Kinds
  <2>3. d = "time_Time"
    BY <1>4, <2>2 DEF IsStruct
  <2>4. ~IsEmpty(e, y)
    BY <1>0, <2>1 DEF IsEmpty
  <2> QED
    BY <2>1, <2>2, <2>3, <2>4, TimeBack
<1> QED
  BY <1>1, <1>2, <1>3, <1>4 DEF Unit

LEMMA PairParts ==
  ASSUME NEW s, NEW o, NEW c, c = <<s, o>>
  PROVE  c[1] = s /\ c[2] = o
OBVIOUS

LEMMA CodecParts ==
  ASSUME NEW q, NEW s, NEW e, NEW d, Codec(q, s, e, d)
  PROVE  q.enc[1] = s /\ q.enc[2] = e /\ q.dec[1] = s /\ q.dec[2] = d
BY PairParts DEF Codec

\* all but a pointer to no time comes back, and all but arrays need no filling
LEMMA NotPointers ==
  ASSUME NEW q, q.enc[1] # "ptr", NEW y
  PROVE  Wanted(q, y) = y
<1>1. q.enc # <<"ptr", "time_Duration">>
  BY PairParts
<1> QED
  BY <1>1 DEF Wanted

LEMMA NotArrays ==
  ASSUME NEW q, q.dec[1] \notin {"array", "array_packed"}, NEW y
  PROVE  Filled(q, y) = y
BY DEF Filled

LEMMA SingleTold ==
  ASSUME NEW q, OnlyTimes(q), q.tagcode \in Seq(Bytes), NEW t, UnitCodec(q, "", t), NEW y \in OfType(t), Lasts(q, t, y)
  PROVE  \E w, a : Told(q, y, w, a)
<1>1. PICK e, d : Codec(q, "", e, d) /\ Unit(q, t, e, d)
  BY DEF UnitCodec
<1>2. e \notin {"nothing", "byte"} /\ d \notin {"nothing", "byte"}
  BY <1>1, UnitNames
<1>3. Written(q, e, y) \in Seq(Bytes) /\ ReadBack(q, e, d, y) /\ (IsEmpty(e, y) => ZeroOf(d) = y)
  BY <1>1, UnitBack
<1>4. q.enc[1] = "" /\ q.enc[2] = e /\ q.dec[1] = "" /\ q.dec[2] = d
  BY <1>1, CodecParts
<1>5. Wanted(q, y) = y /\ Filled(q, y) = y /\ Filled(q, ZeroOf(d)) = ZeroOf(d) /\ Zero(q) = ZeroOf(d)
  <2>1. Zero(q) = ZeroOf(d)
    BY <1>2, <1>4 DEF Zero
  <2>2. q.enc[1] # "ptr" /\ q.dec[1] \notin {"array", "array_packed"}
    BY <1>4
  <2> QED
    BY <2>1, <2>2, NotPointers, NotArrays
<1>6. CASE IsEmpty(e, y)
  <2>1. enc(q, y) = <<>>
    BY <1>2, <1>4, <1>6 DEF enc
  <2> QED
    BY <1>3, <1>5, <1>6, <2>1, NoItems
<1>7. CASE ~IsEmpty(e, y)
  <2> DEFINE v == Written(q, e, y)
  <2>1. enc(q, y) = q.tagcode \o v
    BY <1>2, <1>4, <1>7 DEF enc, One
  <2>2. ASSUME NEW b \in Seq(Bytes), NEW i \in Nat, Len(b) < Word, StandsAt(b, i, v)
        PROVE  dec(q, b, i, Zero(q)) = Read(y, i + Len(v))
    <3>1. Got(q, b, d, i) = Read(y, i + Len(v))
      BY <1>3, <2>2 DEF ReadBack
    <3>2. dec(q, b, i, Zero(q)) = Got(q, b, d, i)
      BY <1>2, <1>4 DEF dec, Became
    <3> QED
      BY <3>1, <3>2
  <2>3. ReadsAs(q, v, Zero(q), y)
    BY <2>2 DEF ReadsAs
  <2> QED
    BY <1>3, <1>5, <2>1, <2>3, OneItem
<1> QED
  BY <1>6, <1>7

LEMMA PtrTold ==
  ASSUME NEW q, OnlyTimes(q), q.tagcode \in Seq(Bytes), NEW t, UnitCodec(q, "ptr", t),
         NEW x, x = {} \/ \E y \in x : y \in OfType(t) /\ x = {y}, \A y \in x : Lasts(q, t, y)
  PROVE  \E w, a : Told(q, x, w, a)
<1>1. PICK e, d : Codec(q, "ptr", e, d) /\ Unit(q, t, e, d)
  BY DEF UnitCodec
<1>2. e \notin {"nothing", "byte"} /\ d \notin {"nothing", "byte"}
  BY <1>1, UnitNames
<1>3. q.enc[1] = "ptr" /\ q.enc[2] = e /\ q.dec[1] = "ptr" /\ q.dec[2] = d
  BY <1>1, CodecParts
<1>4. Zero(q) = {} /\ (\A y : Filled(q, y) = y)
  <2>1. Zero(q) = {}
    BY <1>3 DEF Zero
  <2>2. q.dec[1] \notin {"array", "array_packed"}
    BY <1>3
  <2> QED
    BY <2>1, <2>2, NotArrays
<1>5. CASE x = {}
  <2>1. enc(q, x) = <<>>
    BY <1>2, <1>3, <1>5 DEF enc
  <2>2. Wanted(q, x) = {}
    BY <1>5 DEF Wanted
  <2> QED
    BY <1>4, <2>1, <2>2, NoItems
<1>6. ASSUME NEW y \in OfType(t), x = {y} PROVE \E w, a : Told(q, x, w, a)
  <2>1. Lasts(q, t, y) /\ The(x) = y
    BY <1>6 DEF The
  <2>2. Written(q, e, y) \in Seq(Bytes) /\ ReadBack(q, e, d, y)
    BY <1>1, <2>1, UnitBack
  <2>3. CASE e = "time_Duration" /\ x = {0}
    <3>1. enc(q, x) = <<>>
      BY <1>2, <1>3, <2>3 DEF enc
    <3>2. q.enc = <<"ptr", "time_Duration">>
      BY <1>1, <2>3 DEF Codec
    <3>3. Wanted(q, x) = {}
      BY <2>3, <3>2 DEF Wanted
    <3> QED
      BY <1>4, <3>1, <3>3, NoItems
  <2>4. CASE ~(e = "time_Duration" /\ x = {0})
    <3> DEFINE v == Written(q, e, y)
    <3>1. enc(q, x) = q.tagcode \o v
      <4>1. x # {}
        BY <1>6
      <4> QED
        BY <1>2, <1>3, <2>1, <2>4, <4>1 DEF enc, One
    <3>2. ASSUME NEW b \in Seq(Bytes), NEW i \in Nat, Len(b) < Word, StandsAt(b, i, v)
          PROVE  dec(q, b, i, Zero(q)) = Read(x, i + Len(v))
      <4> DEFINE g == Got(q, b, d, i)
      <4>1. g = Read(y, i + Len(v))
        BY <2>2, <3>2 DEF ReadBack
      <4>2. dec(q, b, i, Zero(q)) = [g EXCEPT !.x = {@}]
        BY <1>2, <1>3 DEF dec, Became
      <4> HIDE DEF g, v
      <4>3. dec(q, b, i, Zero(q)) = Read({y}, i + Len(v))
        BY <4>1, <4>2
      <4> QED
        BY <1>6, <4>3
    <3>3. ReadsAs(q, v, Zero(q), x)
      BY <3>2 DEF ReadsAs
    <3>4. Wanted(q, x) = x
      <4>1. q.enc = <<"ptr", "time_Duration">> => e = "time_Duration"
        BY <1>3, PairParts
      <4> QED
        BY <2>4, <4>1 DEF Wanted
    <3> QED
      BY <1>4, <2>2, <3>1, <3>3, <3>4, OneItem
  <2> QED
    BY <2>3, <2>4
<1> QED
  BY <1>5, <1>6

-----------------------------------------------------------------------------
(* the elements of an array *)

\* a sequence in a slice or in an array of that length
Fits(q, kind, x) == kind = "array" => q.length = Len(x)

LEMMA AllOf ==
  ASSUME NEW S, NEW x \in Seq(S)
  PROVE  UpTo(Len(x), x) = x
BY DEF UpTo

LEMMA FullArray ==
  ASSUME NEW q, NEW S, NEW x \in Seq(S), q.dec[1] \in {"array", "array_packed"} => q.length = Len(x)
  PROVE  Filled(q, x) = x
<1>1. CASE q.dec[1] \in {"array", "array_packed"}
  <2> DEFINE z == ZeroOf(q.dec[2])
             n == Len(x)
  <2> HIDE DEF z
  <2>1. Filled(q, x) = [k \in 1..n |-> IF k <= n THEN x[k] ELSE z]
    BY <1>1 DEF Filled, z
  <2>2. x = [k \in 1..n |-> x[k]] /\ n \in Nat
    OBVIOUS
  <2> HIDE DEF n
  <2>3. [k \in 1..n |-> IF k <= n THEN x[k] ELSE z] = [k \in 1..n |-> x[k]]
    BY <2>2
  <2> QED
    BY <2>1, <2>2, <2>3
<1>2. CASE q.dec[1] \notin {"array", "array_packed"}
  BY <1>2, NotArrays
<1> QED
  BY <1>1, <1>2

LEMMA BytesTold ==
  ASSUME NEW q, q.tagcode \in Seq(Bytes), NEW kind \in {"slice", "array"}, Codec(q, kind, "byte", "byte"),
         NEW x \in Seq(Bytes), Len(x) < Word, Fits(q, kind, x)
  PROVE  \E w, a : Told(q, x, w, a)
<1>1. q.enc[1] = kind /\ q.enc[2] = "byte" /\ q.dec[1] = kind /\ q.dec[2] = "byte"
  BY CodecParts
<1>2. Zero(q) = <<>> /\ Wanted(q, x) = x /\ Filled(q, x) = x
  <2>1. Zero(q) = <<>>
    BY <1>1 DEF Zero
  <2>2. q.enc[1] # "ptr"
    BY <1>1
  <2>3. q.dec[1] \in {"array", "array_packed"} => q.length = Len(x)
    BY <1>1 DEF Fits
  <2> QED
    BY <2>1, <2>2, <2>3, NotPointers, FullArray
<1>3. CASE kind = "slice" /\ x = <<>>
  <2>1. enc(q, x) = <<>>
    BY <1>1, <1>3 DEF enc
  <2> QED
    BY <1>2, <1>3, <2>1, NoItems
<1>4. CASE ~(kind = "slice" /\ x = <<>>)
  <2> DEFINE v == Written(q, "byte", x)
  <2>1. enc(q, x) = q.tagcode \o v
    BY <1>1, <1>4 DEF enc, One
  <2>2. v \in Seq(Bytes) /\ ReadBack(q, "byte", "byte", x)
    BY StringBack
  <2>3. ASSUME NEW b \in Seq(Bytes), NEW i \in Nat, Len(b) < Word, StandsAt(b, i, v)
        PROVE  dec(q, b, i, Zero(q)) = Read(x, i + Len(v))
    <3> DEFINE g == Got(q, b, "byte", i)
    <3>1. g = Read(x, i + Len(v))
      BY <2>2, <2>3 DEF ReadBack
    <3>2. dec(q, b, i, Zero(q)) = [g EXCEPT !.x = IF kind = "array" THEN UpTo(q.length, @) ELSE @]
      BY <1>1 DEF dec, Became
    <3>3. (IF kind = "array" THEN UpTo(q.length, x) ELSE x) = x
      BY AllOf DEF Fits
    <3> HIDE DEF g, v
    <3>4. dec(q, b, i, Zero(q)) = Read(IF kind = "array" THEN UpTo(q.length, x) ELSE x, i + Len(v))
      BY <3>1, <3>2
    <3> QED
      BY <3>3, <3>4
  <2>4. ReadsAs(q, v, Zero(q), x)
    BY <2>3 DEF ReadsAs
  <2> QED
    BY <1>2, <2>1, <2>2, <2>4, OneItem
<1> QED
  BY <1>3, <1>4

-----------------------------------------------------------------------------
(* slices and arrays with an item for each element *)

LEMMA OneMore ==
  ASSUME NEW S, NEW x \in Seq(S), NEW k \in 1..Len(x)
  PROVE  /\ Append(SubSeq(x, 1, k - 1), x[k]) = SubSeq(x, 1, k)
         /\ UpTo(Len(x), SubSeq(x, 1, k)) = SubSeq(x, 1, k)
<1> DEFINE s == SubSeq(x, 1, k - 1)
           t == SubSeq(x, 1, k)
<1>0. k \in Nat /\ k >= 1 /\ k <= Len(x) /\ Len(x) \in Nat
  OBVIOUS
<1>1. s \in Seq(S) /\ Len(s) = k - 1 /\ \A j \in 1..(k - 1) : s[j] = x[j]
  BY <1>0
<1>2. t \in Seq(S) /\ Len(t) = k /\ \A j \in 1..k : t[j] = x[j]
  BY <1>0
<1> HIDE DEF s, t
<1>3. x[k] \in S
  OBVIOUS
<1>4. Append(s, x[k]) \in Seq(S) /\ Len(Append(s, x[k])) = k /\ \A j \in 1..k : Append(s, x[k])[j] = x[j]
  <2>1. Append(s, x[k]) \in Seq(S) /\ Len(Append(s, x[k])) = k
    BY <1>0, <1>1, <1>3
  <2>2. ASSUME NEW j \in 1..k PROVE Append(s, x[k])[j] = x[j]
    <3>1. CASE j = k
      BY <1>0, <1>1, <1>3, <3>1
    <3>2. CASE j # k
      <4>1. j \in 1..(k - 1)
        BY <1>0, <3>2
      <4> QED
        BY <1>1, <1>3, <4>1
    <3> QED
      BY <3>1, <3>2
  <2> QED
    BY <2>1, <2>2
<1> DEFINE u == Append(s, x[k])
<1>5. u = t
  <2> HIDE DEF u
  <2>1. \A j \in 1..k : u[j] = t[j]
    BY <1>2, <1>4 DEF u
  <2>2. u \in Seq(S) /\ Len(u) = Len(t)
    BY <1>2, <1>4 DEF u
  <2> QED
    BY <1>2, <2>1, <2>2
<1>6. UpTo(Len(x), t) = t
  <2>1. (IF Len(t) < Len(x) THEN Len(t) ELSE Len(x)) = Len(t)
    BY <1>0, <1>2
  <2>2. SubSeq(t, 1, Len(t)) = t
    BY <1>2
  <2> QED
    BY <2>1, <2>2 DEF UpTo
<1> QED
  BY <1>5, <1>6 DEF s, t

LEMMA EachTold ==
  ASSUME NEW q, q.tagcode \in Seq(Bytes), NEW kind \in {"slice", "array"}, NEW e, NEW d, Codec(q, kind, e, d),
         e \notin {"nothing", "byte"}, d \notin {"nothing", "byte"}, NEW S, NEW x \in Seq(S), Fits(q, kind, x),
         \A y \in S : Written(q, e, y) \in Seq(Bytes),
         \A k \in 1..Len(x) : ReadBack(q, e, d, x[k])
  PROVE  \E w, a : Told(q, x, w, a)
<1> DEFINE n == Len(x)
           w == [k \in 1..n |-> Written(q, e, x[k])]
           a == [k \in 1..(n + 1) |-> SubSeq(x, 1, k - 1)]
<1>0. n \in Nat /\ (\A k \in 1..n : x[k] \in S) /\ DOMAIN x = 1..n
  OBVIOUS
<1>1. q.enc[1] = kind /\ q.enc[2] = e /\ q.dec[1] = kind /\ q.dec[2] = d
  BY CodecParts
<1>2. Zero(q) = <<>> /\ Wanted(q, x) = x /\ Filled(q, x) = x
  <2>1. Zero(q) = <<>>
    BY <1>1 DEF Zero
  <2>2. q.enc[1] # "ptr"
    BY <1>1
  <2>3. q.dec[1] \in {"array", "array_packed"} => q.length = Len(x)
    BY <1>1 DEF Fits
  <2> QED
    BY <2>1, <2>2, <2>3, NotPointers, FullArray
<1>3. w \in Seq(Seq(Bytes)) /\ Len(w) = n /\ \A k \in 1..n : w[k] = Written(q, e, x[k])
  <2>1. w \in [1..n -> Seq(Bytes)]
    BY <1>0
  <2>2. n \in Nat /\ DOMAIN w = 1..n
    BY <1>0
  <2> HIDE DEF n
  <2>3. w \in Seq(Seq(Bytes)) /\ Len(w) = n
    BY <2>1, <2>2
  <2> QED
    BY <2>3
<1>4. a[1] = <<>> /\ a[n + 1] = x
  <2>1. 1 \in 1..(n + 1) /\ n + 1 \in 1..(n + 1) /\ (n + 1) - 1 = n /\ 1 - 1 = 0
    BY <1>0
  <2>2. a[1] = SubSeq(x, 1, 0) /\ a[n + 1] = SubSeq(x, 1, n)
    <3> HIDE DEF n
    <3> QED
      BY <2>1
  <2>3. SubSeq(x, 1, 0) = <<>> /\ SubSeq(x, 1, n) = x
    OBVIOUS
  <2> QED
    BY <2>2, <2>3
<1>5. enc(q, x) = Concat([k \in 1..Len(w) |-> q.tagcode \o w[k]])
  <2>1. enc(q, x) = Each(q, e, x)
    BY <1>1 DEF enc
  <2>2. Each(q, e, x) = Concat([k \in 1..n |-> q.tagcode \o Written(q, e, x[k])])
    BY <1>0 DEF Each, One
  <2>3. [k \in 1..n |-> q.tagcode \o Written(q, e, x[k])] = [k \in 1..Len(w) |-> q.tagcode \o w[k]]
    <3> HIDE DEF n, w
    <3> QED
      BY <1>3
  <2> QED
    BY <2>1, <2>2, <2>3
<1>6. ASSUME NEW k \in 1..n, NEW b \in Seq(Bytes), NEW i \in Nat, Len(b) < Word, StandsAt(b, i, Written(q, e, x[k]))
      PROVE  dec(q, b, i, SubSeq(x, 1, k - 1)) = Read(SubSeq(x, 1, k), i + Len(Written(q, e, x[k])))
  <2> DEFINE g == Got(q, b, d, i)
             v == Written(q, e, x[k])
             s == SubSeq(x, 1, k - 1)
             t == SubSeq(x, 1, k)
             y == x[k]
  <2>1. g = Read(y, i + Len(v))
    BY <1>6 DEF ReadBack
  <2>2. dec(q, b, i, s) = [g EXCEPT !.x = Merge(q, s, @)]
    BY <1>1 DEF dec, Became
  <2>3. Merge(q, s, y) = t
    <3>1. Append(s, y) = t /\ UpTo(Len(x), t) = t
      BY OneMore
    <3> HIDE DEF s, t, y
    <3>2. kind = "slice" \/ (kind = "array" /\ q.length = Len(x))
      BY DEF Fits
    <3> QED
      BY <1>1, <3>1, <3>2 DEF Merge
  <2> HIDE DEF g, v, s, t, y
  <2>4. dec(q, b, i, s) = Read(Merge(q, s, y), i + Len(v))
    BY <2>1, <2>2
  <2>5. dec(q, b, i, s) = Read(t, i + Len(v))
    BY <2>3, <2>4
  <2> QED
    BY <2>5 DEF s, t, v
<1>7. ASSUME NEW k \in 1..n PROVE ReadsAs(q, w[k], a[k], a[k + 1])
  <2>1. k \in 1..(n + 1) /\ k + 1 \in 1..(n + 1) /\ (k + 1) - 1 = k
    BY <1>0
  <2>2. a[k] = SubSeq(x, 1, k - 1) /\ a[k + 1] = SubSeq(x, 1, k)
    <3> HIDE DEF n
    <3> QED
      BY <2>1
  <2>3. w[k] = Written(q, e, x[k])
    BY <1>3
  <2> HIDE DEF n, w, a
  <2> QED
    BY <1>6, <2>2, <2>3 DEF ReadsAs
<1> HIDE DEF n, w, a
<1>8. Told(q, x, w, a)
  <2>1. a[1] = Zero(q) /\ Filled(q, a[Len(w) + 1]) = Wanted(q, x)
    BY <1>2, <1>3, <1>4
  <2>2. \A k \in 1..Len(w) : ReadsAs(q, w[k], a[k], a[k + 1])
    BY <1>3, <1>7
  <2> QED
    BY <1>3, <1>5, <2>1, <2>2 DEF Told
<1> QED
  BY <1>8

-----------------------------------------------------------------------------
(* numbers in a row *)

\* What is read of a number is a record, and the position moves ahead unless that fails.
IsAhead(b, i, r) ==
  /\ r = [x |-> r.x, index |-> r.index, err |-> r.err]
  /\ r.index \in Ahead(b, i) /\ (r.err = None => r.index > i)

LEMMA VarintAhead ==
  ASSUME NEW b \in Seq(Bytes), NEW i \in Nat, i <= Len(b)
  PROVE  IsAhead(b, i, DecodeVarint(b, i))
<1>1. LET r == DecodeVarint(b, i) IN r = [x |-> r.x, index |-> r.index, err |-> r.err]
  BY DEF DecodeVarint, decodeVarintSlow, decodeVarintFast
<1> QED
  BY <1>1, DecodeVarintFacts DEF IsAhead

LEMMA FixedAhead ==
  ASSUME NEW b \in Seq(Bytes), NEW i \in Nat, i <= Len(b), Len(b) < Word, NEW n \in {4, 8}
  PROVE  IsAhead(b, i, DecodeFixed(b, i, n))
<1> DEFINE r == DecodeFixed(b, i, n)
           end == (i + n) % Word
<1>0. Word \in Nat /\ Word > 8 /\ Len(b) \in Nat /\ n \in Nat /\ n > 0 /\ n <= 8
  BY WireAssumption
<1>1. i \in Ahead(b, i)
  BY DEF Ahead
<1>2. CASE end < n \/ end > Len(b)
  <2>1. r = Fail(EOF, i)
    BY <1>2 DEF DecodeFixed
  <2> HIDE DEF r
  <2>2. IsAhead(b, i, r)
    BY <1>1, <2>1 DEF IsAhead
  <2> QED
    BY <2>2 DEF r
<1>3. CASE ~(end < n \/ end > Len(b))
  <2> DEFINE x == LittleEndian(b, i, n)
  <2>1. r = Read(x, end)
    BY <1>3 DEF DecodeFixed
  <2>2. i + n < Word
    <3>1. \A w, y \in Nat : w > 0 /\ w <= y /\ y < 2 * w => y % w = y - w
      OBVIOUS
    <3>2. i + n >= Word => end = (i + n) - Word
      BY <1>0, <3>1
    <3>3. i + n >= Word => end < n
      BY <1>0, <3>2
    <3> QED
      BY <1>0, <1>3, <3>3
  <2>3. end = i + n
    BY <1>0, <2>2, ModSmall
  <2>4. end \in Ahead(b, i) /\ end > i
    BY <1>0, <1>3, <2>3 DEF Ahead
  <2> HIDE DEF r, x, end
  <2>5. IsAhead(b, i, r)
    BY <2>1, <2>4 DEF IsAhead
  <2> QED
    BY <2>5 DEF r
<1> QED
  BY <1>2, <1>3

\* only the number is another
LEMMA AheadToo ==
  ASSUME NEW b, NEW i, NEW r, IsAhead(b, i, r), NEW y
  PROVE  IsAhead(b, i, [r EXCEPT !.x = y])
<1> DEFINE s == [r EXCEPT !.x = y]
<1>1. s = [x |-> y, index |-> r.index, err |-> r.err]
  BY DEF IsAhead
<1> HIDE DEF s
<1>2. IsAhead(b, i, s)
  BY <1>1 DEF IsAhead
<1> QED
  BY <1>2 DEF s

LEMMA NumberAhead ==
  ASSUME NEW q, q.valEnc \in Vals, NEW d \in NumberKinds, NEW b \in Seq(Bytes), Len(b) < Word, NEW i \in Nat, i <= Len(b)
  PROVE  IsAhead(b, i, Got(q, b, d, i))
<1> DEFINE n == valDec(q.valEnc, b, i)
           v == DecodeVarint(b, i)
           z == Stored(n.x, WordOf(d))
<1>0. d \notin {"string", "byte", "slice_byte"} /\ d # "struct_message" /\ d # "time_Time" /\ d # "time_Duration"
  BY NotNumbers
<1>1. Got(q, b, d, i) = [n EXCEPT !.x = z]
  BY <1>0 DEF Got
<1>2. IsAhead(b, i, v)
  BY VarintAhead
<1>3. IsAhead(b, i, n)
  <2>1. CASE q.valEnc = "varint"
    <3>1. n = v
      BY <2>1 DEF valDec
    <3> QED
      BY <1>2, <3>1
  <2>2. CASE q.valEnc = "zigzag32"
    <3> DEFINE y == IF v.err = None THEN SignExtended(Zigzag(v.x % Word32, Word32)) ELSE 0
    <3>1. n = [v EXCEPT !.x = y]
      BY <2>2 DEF valDec, DecodeZigzag32
    <3> HIDE DEF n, v, y
    <3> QED
      BY <1>2, <3>1, AheadToo
  <2>3. CASE q.valEnc = "zigzag64"
    <3> DEFINE y == IF v.err = None THEN Zigzag(v.x, Word) ELSE 0
    <3>1. n = [v EXCEPT !.x = y]
      BY <2>3 DEF valDec, DecodeZigzag64
    <3> HIDE DEF n, v, y
    <3> QED
      BY <1>2, <3>1, AheadToo
  <2>4. CASE q.valEnc = "fixed32"
    BY <2>4, FixedAhead DEF valDec
  <2>5. CASE q.valEnc = "fixed64"
    BY <2>5, FixedAhead DEF valDec
  <2> QED
    BY <2>1, <2>2, <2>3, <2>4, <2>5 DEF Vals
<1> HIDE DEF n, z
<1>4. IsAhead(b, i, [n EXCEPT !.x = z])
  BY <1>3, AheadToo
<1> QED
  BY <1>1, <1>4

\* what is read from j on, with f what is read from what is ahead on
RunAt(q, b, d, fin, f, j) ==
  LET n == Got(q, b, d, j)
  IN  IF j >= fin THEN [x |-> <<>>, index |-> j, err |-> None]
      ELSE IF n.err # None THEN [x |-> <<>>, index |-> n.index, err |-> n.err]
      ELSE [f[n.index] EXCEPT !.x = <<n.x>> \o @]

IsRun(q, b, d, i, fin, f) == f = [j \in i..Len(b) |-> RunAt(q, b, d, fin, f, j)]

RunOf(q, b, d, i, fin, f) ==
  /\ IsRun(q, b, d, i, fin, f) /\ NumbersUpTo(q, b, d, i, fin) = f[i]
  /\ \A j \in i..Len(b) : f[j].index \in i..Len(b) /\ f[j] = [x |-> f[j].x, index |-> f[j].index, err |-> f[j].err]

\* NumbersUpTo is the start of a function that is defined by recursion.
LEMMA RunExists ==
  ASSUME NEW q, q.valEnc \in Vals, NEW d \in NumberKinds, NEW b \in Seq(Bytes), Len(b) < Word, NEW i \in Nat, i <= Len(b), NEW fin \in Nat
  PROVE  \E f : RunOf(q, b, d, i, fin, f)
<1> DEFINE S == i..Len(b)
           V == {Got(q, b, d, j).x : j \in S}
           E == {Got(q, b, d, j).err : j \in S} \cup {None}
           R == [x : Seq(V), index : S, err : E]
           h == [j \in S |-> j]
           step == [f \in [S -> R] |-> [j \in S |-> RunAt(q, b, d, fin, f, j)]]
           F == CHOOSE f : IsRun(q, b, d, i, fin, f)
<1>0. Len(b) \in Nat /\ S \subseteq Nat /\ \A j \in S : j \in Nat /\ i <= j /\ j <= Len(b)
  OBVIOUS
<1>1. \A j \in S : LET n == Got(q, b, d, j) IN n.x \in V /\ n.err \in E /\ n.index \in S /\ (n.err = None => n.index > j)
  <2> TAKE j \in S
  <2> DEFINE n == Got(q, b, d, j)
  <2>1. j \in Nat /\ i <= j /\ j <= Len(b)
    BY <1>0
  <2>2. IsAhead(b, j, n)
    BY <2>1, NumberAhead
  <2>3. n.x \in V /\ n.err \in E
    OBVIOUS
  <2> HIDE DEF n, V, E
  <2>4. n.index \in Ahead(b, j) /\ (n.err = None => n.index > j)
    BY <2>2 DEF IsAhead
  <2>5. n.index \in S
    BY <1>0, <2>1, <2>4 DEF Ahead
  <2> QED
    BY <2>3, <2>4, <2>5 DEF n
<1>2. None \in E
  OBVIOUS
<1> HIDE DEF V, E
<1>3. ASSUME NEW f \in [S -> R], NEW j \in S PROVE RunAt(q, b, d, fin, f, j) \in R
  <2> DEFINE n == Got(q, b, d, j)
             g == RunAt(q, b, d, fin, f, j)
  <2>1. n.x \in V /\ n.err \in E /\ n.index \in S
    BY <1>1
  <2>2. CASE j >= fin
    <3>1. g = [x |-> <<>>, index |-> j, err |-> None]
      BY <2>2 DEF RunAt
    <3>2. <<>> \in Seq(V)
      OBVIOUS
    <3> HIDE DEF g
    <3>3. g \in R
      BY <1>2, <3>1, <3>2
    <3> QED
      BY <3>3 DEF g
  <2>3. CASE ~(j >= fin) /\ n.err # None
    <3>1. g = [x |-> <<>>, index |-> n.index, err |-> n.err]
      BY <2>3 DEF RunAt
    <3>2. <<>> \in Seq(V)
      OBVIOUS
    <3> HIDE DEF g, n
    <3>3. g \in R
      BY <2>1, <3>1, <3>2
    <3> QED
      BY <3>3 DEF g
  <2>4. CASE ~(j >= fin) /\ ~(n.err # None)
    <3> DEFINE o == f[n.index]
               s == <<n.x>> \o o.x
    <3>1. g = [o EXCEPT !.x = s]
      BY <2>4 DEF RunAt
    <3>2. o \in R
      BY <2>1
    <3>3. s \in Seq(V)
      <4>1. o.x \in Seq(V) /\ <<n.x>> \in Seq(V)
        BY <2>1, <3>2
      <4> HIDE DEF o
      <4> QED
        BY <4>1
    <3> HIDE DEF g, o, s
    <3>4. g \in R
      BY <3>1, <3>2, <3>3
    <3> QED
      BY <3>4 DEF g
  <2> QED
    BY <2>2, <2>3, <2>4
<1>4. step \in [[S -> R] -> [S -> R]]
  <2> HIDE DEF R, S
  <2> QED
    BY <1>3
<1>5. \A f \in [S -> R] : step[f] = [j \in S |-> RunAt(q, b, d, fin, f, j)]
  OBVIOUS
<1>6. ASSUME NEW f \in [S -> R], NEW g \in [S -> R], NEW j \in S, \A k \in S : h[j] < h[k] => f[k] = g[k]
      PROVE  step[f][j] = step[g][j]
  <2> DEFINE n == Got(q, b, d, j)
  <2>1. step[f][j] = RunAt(q, b, d, fin, f, j) /\ step[g][j] = RunAt(q, b, d, fin, g, j)
    BY <1>5
  <2>2. n.index \in S /\ (n.err = None => n.index > j)
    BY <1>1
  <2>3. n.err = None => f[n.index] = g[n.index]
    <3>1. n.err = None => h[n.index] = n.index /\ h[j] = j
      BY <2>2
    <3>2. n.err = None => h[j] < h[n.index]
      BY <1>0, <2>2, <3>1
    <3> QED
      BY <1>6, <2>2, <3>2
  <2>4. RunAt(q, b, d, fin, f, j) = RunAt(q, b, d, fin, g, j)
    BY <2>3 DEF RunAt
  <2> QED
    BY <2>1, <2>4
<1>7. h \in [S -> 0..Len(b)]
  BY <1>0
<1>8. R # {}
  <2>1. <<>> \in Seq(V) /\ i \in S
    BY <1>0
  <2>2. [x |-> <<>>, index |-> i, err |-> None] \in R
    BY <1>2, <2>1
  <2> QED
    BY <2>2
<1>9. FromAbove(S, R, Len(b), h, step)
  <2> HIDE DEF S, R, h, step
  <2> QED
    BY <1>0, <1>4, <1>6, <1>7, <1>8 DEF FromAbove
<1>10. \E f \in [S -> R] : f = step[f]
  <2> HIDE DEF S, R, h, step
  <2> QED
    BY <1>9, Recursion
<1>11. \E f : IsRun(q, b, d, i, fin, f)
  <2>1. PICK f \in [S -> R] : f = step[f]
    BY <1>10
  <2>2. f = [j \in S |-> RunAt(q, b, d, fin, f, j)]
    BY <1>5, <2>1
  <2> QED
    BY <2>2 DEF IsRun
<1>12. IsRun(q, b, d, i, fin, F)
  BY <1>11
<1>13. NumbersUpTo(q, b, d, i, fin) = F[i]
  BY DEF NumbersUpTo, IsRun, RunAt
<1> HIDE DEF F
<1>14. \A j \in S : F[j] = RunAt(q, b, d, fin, F, j)
  BY <1>12 DEF IsRun
<1> DEFINE Good(j) == F[j].index \in S /\ F[j] = [x |-> F[j].x, index |-> F[j].index, err |-> F[j].err]
           T == {j \in 0..Len(b) : \A k \in S : k >= j => Good(k)}
<1>15. ASSUME NEW j \in S, \A k \in S : k > j => Good(k) PROVE Good(j)
  <2> DEFINE n == Got(q, b, d, j)
             g == F[j]
             o == F[n.index]
             s == <<n.x>> \o o.x
  <2>1. n.index \in S /\ (n.err = None => n.index > j) /\ g = RunAt(q, b, d, fin, F, j)
    BY <1>1, <1>14
  <2>2. \/ g = [x |-> <<>>, index |-> j, err |-> None]
        \/ g = [x |-> <<>>, index |-> n.index, err |-> n.err]
        \/ n.err = None /\ g = [o EXCEPT !.x = s]
    BY <2>1 DEF RunAt
  <2>3. n.err = None => o.index \in S /\ o = [x |-> o.x, index |-> o.index, err |-> o.err]
    BY <1>15, <2>1
  <2> HIDE DEF g, n, o, s, S
  <2>4. g.index \in S /\ g = [x |-> g.x, index |-> g.index, err |-> g.err]
    <3>1. CASE g = [x |-> <<>>, index |-> j, err |-> None]
      BY <3>1
    <3>2. CASE g = [x |-> <<>>, index |-> n.index, err |-> n.err]
      BY <2>1, <3>2
    <3>3. CASE n.err = None /\ g = [o EXCEPT !.x = s]
      BY <2>3, <3>3
    <3> QED
      BY <2>2, <3>1, <3>2, <3>3
  <2> QED
    BY <2>4 DEF g
<1> HIDE DEF Good
<1>16. Len(b) \in T
  <2>1. ASSUME NEW k \in S, k >= Len(b) PROVE Good(k)
    <3>1. \A m \in S : ~(m > k)
      BY <1>0, <2>1
    <3> HIDE DEF S
    <3> QED
      BY <1>15, <3>1
  <2> QED
    BY <1>0, <2>1
<1>17. ASSUME NEW j \in 0..(Len(b) - 1), j + 1 \in T PROVE j \in T
  <2>1. ASSUME NEW k \in S, k >= j PROVE Good(k)
    <3>1. CASE k >= j + 1
      BY <1>17, <3>1
    <3>2. CASE ~(k >= j + 1)
      <4>1. \A m \in S : m > k => m >= j + 1
        BY <1>0, <1>17, <2>1, <3>2
      <4>2. \A m \in S : m > k => Good(m)
        BY <1>17, <4>1
      <4> HIDE DEF S
      <4> QED
        BY <1>15, <4>2
    <3> QED
      BY <3>1, <3>2
  <2>2. j \in 0..Len(b)
    BY <1>0
  <2> HIDE DEF S
  <2> QED
    BY <2>1, <2>2
<1>18. \A j \in S : Good(j)
  <2>1. 0..Len(b) \subseteq T
    <3> HIDE DEF T
    <3> QED
      BY <1>0, <1>16, <1>17, Downwards
  <2>2. 0 \in T
    BY <1>0, <2>1
  <2> QED
    BY <1>0, <2>2
<1> QED
  BY <1>12, <1>13, <1>18 DEF Good, RunOf

\* Sequences that are written one after the other stand one after the other.
LEMMA RowStands ==
  ASSUME NEW b \in Seq(Bytes), NEW i \in Nat, NEW ss \in Seq(Seq(Bytes)), NEW r, Suffixes(Bytes, ss, r), StandsAt(b, i, r[1]),
         NEW k \in 1..(Len(ss) + 1)
  PROVE  LET at == (i + Len(r[1])) - Len(r[k]) IN at \in Nat /\ at >= i /\ at <= Len(b) /\ StandsAt(b, at, r[k])
<1> DEFINE n == Len(ss)
           At(m) == (i + Len(r[1])) - Len(r[m])
           Good(m) == At(m) \in Nat /\ At(m) >= i /\ StandsAt(b, At(m), r[m])
           S == {m \in Nat : m + 1 <= n + 1 => Good(m + 1)}
<1>0. n \in Nat /\ r \in [1..(n + 1) -> Seq(Bytes)] /\ (\A m \in 1..n : r[m] = ss[m] \o r[m + 1] /\ ss[m] \in Seq(Bytes))
  <2>1. r \in [1..(n + 1) -> Seq(Bytes)] /\ \A m \in 1..n : r[m] = ss[m] \o r[m + 1]
    BY DEF Suffixes
  <2>2. n \in Nat /\ \A m \in 1..n : ss[m] \in Seq(Bytes)
    OBVIOUS
  <2> QED
    BY <2>1, <2>2
<1> HIDE DEF n
<1>1. \A m \in 1..(n + 1) : r[m] \in Seq(Bytes) /\ Len(r[m]) \in Nat
  <2> TAKE m \in 1..(n + 1)
  <2>1. r[m] \in Seq(Bytes)
    BY <1>0
  <2> DEFINE t == r[m]
  <2> HIDE DEF t
  <2>2. t \in Seq(Bytes) => Len(t) \in Nat
    OBVIOUS
  <2> QED
    BY <2>1, <2>2 DEF t
<1>2. Good(1)
  <2>1. At(1) = i
    BY <1>0, <1>1
  <2> QED
    BY <2>1
<1>3. ASSUME NEW m \in Nat, m + 1 <= n, Good(m + 1) PROVE Good((m + 1) + 1)
  <2>1. m + 1 \in 1..n /\ m + 1 \in 1..(n + 1) /\ (m + 1) + 1 \in 1..(n + 1) /\ 1 \in 1..(n + 1)
    BY <1>0, <1>3
  <2> DEFINE a == ss[m + 1]
             c == r[(m + 1) + 1]
             d == At(m + 1)
             e == At((m + 1) + 1)
             z == r[1]
  <2>2. r[m + 1] = a \o c /\ a \in Seq(Bytes) /\ c \in Seq(Bytes) /\ Len(z) \in Nat
    BY <1>0, <1>1, <2>1
  <2>3. d \in Nat /\ d >= i /\ StandsAt(b, d, a \o c) /\ d = (i + Len(z)) - Len(a \o c) /\ e = (i + Len(z)) - Len(c)
    BY <1>3, <2>2
  <2> HIDE DEF a, c, d, e, z
  <2>4. StandsAt(b, d + Len(a), c) /\ d + Len(a) \in Nat /\ Len(a \o c) = Len(a) + Len(c) /\ Len(a) \in Nat /\ Len(c) \in Nat
    BY <2>2, <2>3, StandsApart
  <2>5. e = d + Len(a)
    BY <2>2, <2>3, <2>4
  <2>6. e \in Nat /\ e >= i /\ StandsAt(b, e, c)
    BY <2>3, <2>4, <2>5
  <2> QED
    BY <2>6 DEF e, c
<1> HIDE DEF Good
<1>4. 0 \in S
  BY <1>2
<1>5. ASSUME NEW m \in Nat, m \in S PROVE m + 1 \in S
  BY <1>0, <1>3, <1>5
<1> HIDE DEF S
<1>6. Nat \subseteq S
  BY <1>4, <1>5, SetInduction
<1>7. k - 1 \in Nat /\ (k - 1) + 1 = k /\ k \in 1..(n + 1)
  BY <1>0 DEF n
<1>8. Good(k)
  <2>1. k - 1 \in S
    BY <1>6, <1>7
  <2>2. (k - 1) + 1 <= n + 1
    BY <1>7
  <2>3. Good((k - 1) + 1)
    BY <2>1, <2>2 DEF S
  <2> QED
    BY <1>7, <2>3
<1>9. At(k) + Len(r[k]) <= Len(b) /\ Len(r[k]) \in Nat /\ Len(b) \in Nat /\ At(k) \in Nat
  BY <1>1, <1>7, <1>8 DEF Good, StandsAt
<1>10. At(k) <= Len(b)
  <2> HIDE DEF At
  <2> QED
    BY <1>9
<1> QED
  BY <1>8, <1>10 DEF Good

LEMMA Ahead1 ==
  ASSUME NEW S, NEW y \in S, NEW s \in Seq(S)
  PROVE  /\ <<y>> \o s \in Seq(S) /\ Len(<<y>> \o s) = Len(s) + 1 /\ (<<y>> \o s)[1] = y
         /\ \A j \in 2..(Len(s) + 1) : (<<y>> \o s)[j] = s[j - 1]
OBVIOUS

\* the elements from k on, and one before them
LEMMA OneBefore ==
  ASSUME NEW S, NEW x \in Seq(S), NEW k \in 1..Len(x)
  PROVE  <<x[k]>> \o SubSeq(x, k + 1, Len(x)) = SubSeq(x, k, Len(x))
<1> DEFINE n == Len(x)
           s == SubSeq(x, k + 1, n)
           t == SubSeq(x, k, n)
           u == <<x[k]>>
<1>0. k \in Nat /\ k >= 1 /\ k <= n /\ n \in Nat
  OBVIOUS
<1>1. s \in Seq(S) /\ Len(s) = n - k /\ \A j \in 1..(n - k) : s[j] = x[k + j]
  BY <1>0
<1>2. t \in Seq(S) /\ Len(t) = (n - k) + 1 /\ \A j \in 1..((n - k) + 1) : t[j] = x[(k + j) - 1]
  BY <1>0
<1>3. x[k] \in S
  OBVIOUS
<1> DEFINE y == x[k]
<1>4. /\ u \o s \in Seq(S) /\ Len(u \o s) = (n - k) + 1 /\ (u \o s)[1] = y
      /\ \A j \in 2..((n - k) + 1) : (u \o s)[j] = s[j - 1]
  <2> HIDE DEF s, n, y
  <2>1. y \in S
    BY <1>3 DEF y
  <2>2. Len(<<y>> \o s) = Len(s) + 1 /\ <<y>> \o s \in Seq(S) /\ (<<y>> \o s)[1] = y
    BY <1>1, <2>1, Ahead1
  <2>3. \A j \in 2..(Len(s) + 1) : (<<y>> \o s)[j] = s[j - 1]
    BY <1>1, <2>1, Ahead1
  <2>4. u = <<y>>
    BY DEF y
  <2> HIDE DEF u
  <2> QED
    BY <1>0, <1>1, <2>2, <2>3, <2>4
<1> HIDE DEF s, t, u, n
<1>5. ASSUME NEW j \in 1..((n - k) + 1) PROVE (u \o s)[j] = t[j]
  <2>1. CASE j = 1
    <3>1. (k + j) - 1 = k
      BY <1>0, <2>1
    <3> QED
      BY <1>2, <1>4, <2>1, <3>1
  <2>2. CASE j # 1
    <3>1. j - 1 \in 1..(n - k) /\ k + (j - 1) = (k + j) - 1 /\ j \in 2..((n - k) + 1)
      BY <1>0, <2>2
    <3>2. (u \o s)[j] = s[j - 1]
      BY <1>4, <3>1
    <3> QED
      BY <1>1, <1>2, <3>1, <3>2
  <2> QED
    BY <2>1, <2>2
<1> DEFINE v == u \o s
<1>6. v = t
  <2>1. v \in Seq(S) /\ Len(v) = (n - k) + 1 /\ \A j \in 1..((n - k) + 1) : v[j] = t[j]
    BY <1>4, <1>5
  <2> HIDE DEF v
  <2> QED
    BY <1>0, <1>2, <2>1
<1> QED
  BY <1>6 DEF u, s, t, n

\* the numbers of a sequence as they are encoded
AllWritten(q, e, x) == [k \in 1..Len(x) |-> Written(q, e, x[k])]

\* each of them is written as bytes and read back alone
AllBack(q, e, d, S, x) ==
  /\ q.valEnc \in Vals /\ d \in NumberKinds /\ x \in Seq(S)
  /\ \A y \in S : Written(q, e, y) \in Seq(Bytes) /\ Len(Written(q, e, y)) >= 1
  /\ \A k \in 1..Len(x) : ReadBack(q, e, d, x[k])

\* Numbers that are written one after the other are read back.
LEMMA RowBack ==
  ASSUME NEW q, NEW e, NEW d, NEW S, NEW x, AllBack(q, e, d, S, x),
         NEW b \in Seq(Bytes), Len(b) < Word, NEW i \in Nat, NEW s, s = Concat(AllWritten(q, e, x)), StandsAt(b, i, s)
  PROVE  NumbersUpTo(q, b, d, i, i + Len(s)) = Read(x, i + Len(s))
<1> SUFFICES ASSUME q.valEnc \in Vals, d \in NumberKinds, x \in Seq(S),
                    \A y \in S : Written(q, e, y) \in Seq(Bytes) /\ Len(Written(q, e, y)) >= 1,
                    \A k \in 1..Len(x) : ReadBack(q, e, d, x[k])
             PROVE  NumbersUpTo(q, b, d, i, i + Len(s)) = Read(x, i + Len(s))
  BY DEF AllBack
<1> DEFINE n == Len(x)
           ss == AllWritten(q, e, x)
           fin == i + Len(s)
<1>0. n \in Nat /\ (\A k \in 1..n : x[k] \in S) /\ DOMAIN x = 1..n
  OBVIOUS
<1>1. ss \in Seq(Seq(Bytes)) /\ Len(ss) = n /\ \A k \in 1..n : ss[k] = Written(q, e, x[k])
  <2>1. ss = [k \in 1..n |-> Written(q, e, x[k])]
    BY DEF AllWritten
  <2>2. ss \in [1..n -> Seq(Bytes)] /\ DOMAIN ss = 1..n
    BY <1>0, <2>1
  <2> HIDE DEF ss, n
  <2>3. ss \in Seq(Seq(Bytes)) /\ Len(ss) = n
    BY <1>0, <2>2
  <2> QED
    BY <2>1, <2>3
<1> HIDE DEF ss
<1>2. PICK r : Suffixes(Bytes, ss, r)
  BY <1>1, ConcatSuffixes
<1>3. r \in [1..(n + 1) -> Seq(Bytes)] /\ r[1] = s /\ r[n + 1] = <<>> /\ \A k \in 1..n : r[k] = ss[k] \o r[k + 1]
  BY <1>1, <1>2 DEF Suffixes, ss
<1>4. s \in Seq(Bytes) /\ fin \in Nat /\ i <= fin /\ fin <= Len(b) /\ Len(b) \in Nat
  <2>1. 1 \in 1..(n + 1)
    BY <1>0
  <2>2. s \in Seq(Bytes)
    BY <1>3, <2>1
  <2>3. Len(s) \in Nat /\ i + Len(s) <= Len(b)
    BY <2>2 DEF StandsAt
  <2> QED
    BY <2>2, <2>3
<1> DEFINE At(k) == fin - Len(r[k])
<1>5. ASSUME NEW k \in 1..(n + 1) PROVE At(k) \in Nat /\ At(k) \in i..Len(b) /\ StandsAt(b, At(k), r[k])
  <2>1. StandsAt(b, i, r[1])
    BY <1>3
  <2>2. k \in 1..(Len(ss) + 1)
    BY <1>1
  <2>3. LET at == (i + Len(r[1])) - Len(r[k]) IN at \in Nat /\ at >= i /\ at <= Len(b) /\ StandsAt(b, at, r[k])
    BY <1>1, <1>2, <2>1, <2>2, RowStands
  <2> QED
    BY <1>3, <1>4, <2>3
<1>6. i <= Len(b)
  BY <1>4
<1>7. PICK f : RunOf(q, b, d, i, fin, f)
  <2>1. fin \in Nat
    BY <1>4
  <2> HIDE DEF fin
  <2> QED
    BY <1>6, <2>1, RunExists
<1>8. \A j \in i..Len(b) : f[j] = RunAt(q, b, d, fin, f, j)
  BY <1>7 DEF RunOf, IsRun
<1> DEFINE Rest(k) == SubSeq(x, k, n)
           Good(k) == f[At(k)] = Read(Rest(k), fin)
           T == {m \in 0..n : Good(m + 1)}
<1>9. Good(n + 1)
  <2>1. n + 1 \in 1..(n + 1) /\ Len(r[n + 1]) = 0
    BY <1>0, <1>3
  <2>2. At(n + 1) = fin
    BY <1>4, <2>1
  <2>3. RunAt(q, b, d, fin, f, fin) = Read(<<>>, fin)
    BY <1>4 DEF RunAt
  <2>4. Rest(n + 1) = <<>>
    BY <1>0
  <2>5. fin \in i..Len(b)
    BY <1>4
  <2> HIDE DEF n, Rest, At
  <2> QED
    BY <1>8, <2>2, <2>3, <2>4, <2>5
<1>10. ASSUME NEW m \in 0..(n - 1), Good((m + 1) + 1) PROVE Good(m + 1)
  <2> DEFINE k == m + 1
             y == x[k]
             a == ss[k]
             c == r[k + 1]
             at == At(k)
             next == At(k + 1)
             g == Got(q, b, d, at)
             o == f[next]
             t == Rest(k + 1)
  <2>1. k \in 1..n /\ k \in 1..(n + 1) /\ k + 1 \in 1..(n + 1)
    BY <1>0
  <2>2. r[k] = a \o c /\ a \in Seq(Bytes) /\ c \in Seq(Bytes) /\ a = Written(q, e, y) /\ y \in S
    BY <1>0, <1>1, <1>3, <2>1
  <2>3. Len(a) >= 1
    BY <2>2
  <2>4. at \in Nat /\ at \in i..Len(b) /\ StandsAt(b, at, a \o c) /\ at = fin - Len(a \o c) /\ next = fin - Len(c)
    BY <1>5, <2>1, <2>2
  <2>5. ReadBack(q, e, d, y)
    BY <2>1
  <2>6. f[at] = RunAt(q, b, d, fin, f, at)
    BY <1>8, <2>4
  <2>7. o = Read(t, fin)
    BY <1>10
  <2>8. <<y>> \o t = Rest(k)
    BY <2>1, OneBefore
  <2> HIDE DEF y, a, c, at, next, g, o, t, Rest, k, At, fin
  <2>9. Len(a \o c) = Len(a) + Len(c) /\ Len(a) \in Nat /\ Len(c) \in Nat /\ StandsAt(b, at, a)
    BY <2>2, <2>4, StandsApart
  <2>10. at < fin /\ at + Len(a) = next /\ at \in Nat
    BY <1>4, <2>3, <2>4, <2>9
  <2>11. g = Read(y, next)
    BY <2>2, <2>4, <2>5, <2>9, <2>10 DEF ReadBack, g
  <2>12. RunAt(q, b, d, fin, f, at) = [o EXCEPT !.x = <<y>> \o @]
    <3>1. g.err = None /\ g.index = next /\ g.x = y
      BY <2>11
    <3>2. RunAt(q, b, d, fin, f, at) = [f[g.index] EXCEPT !.x = <<g.x>> \o @]
      <4>1. ~(at >= fin)
        BY <1>4, <2>10
      <4> QED
        BY <3>1, <4>1 DEF RunAt, g
    <3> QED
      BY <3>1, <3>2 DEF o
  <2>13. f[at] = Read(<<y>> \o t, fin)
    BY <2>6, <2>7, <2>12
  <2> QED
    BY <2>8, <2>13 DEF k, at
<1> HIDE DEF Good
<1>11. Good(1)
  <2>1. n \in T
    BY <1>0, <1>9
  <2>2. \A m \in 0..(n - 1) : m + 1 \in T => m \in T
    BY <1>0, <1>10
  <2> HIDE DEF T
  <2>3. 0..n \subseteq T
    BY <1>0, <2>1, <2>2, Downwards
  <2>4. 0 \in T
    BY <1>0, <2>3
  <2> QED
    BY <2>4 DEF T
<1>12. At(1) = i
  BY <1>3, <1>4
<1>13. Rest(1) = x
  OBVIOUS
<1> QED
  BY <1>7, <1>11, <1>12, <1>13 DEF Good, RunOf

-----------------------------------------------------------------------------
(* packed numbers *)

\* sequences of one element each are as many as their elements
LEMMA ConcatOfOnes ==
  ASSUME NEW S, NEW ss \in Seq(Seq(S)), \A k \in 1..Len(ss) : Len(ss[k]) = 1
  PROVE  Len(Concat(ss)) = Len(ss)
<1> DEFINE n == Len(ss)
<1>1. n \in Nat /\ \A k \in 1..n : ss[k] \in Seq(S)
  OBVIOUS
<1>2. PICK r : Suffixes(S, ss, r)
  BY ConcatSuffixes
<1>3. r \in [1..(n + 1) -> Seq(S)] /\ r[1] = Concat(ss) /\ r[n + 1] = <<>> /\ \A k \in 1..n : r[k] = ss[k] \o r[k + 1]
  BY <1>2 DEF Suffixes
<1>4. \A k \in 1..n : Len(ss[k]) = 1
  OBVIOUS
<1> DEFINE R == {m \in 0..n : Len(r[m + 1]) = n - m}
<1> HIDE DEF n
<1>5. n \in R
  <2>1. n - n = 0 /\ n \in 0..n
    BY <1>1
  <2>2. Len(r[n + 1]) = 0
    BY <1>3
  <2> QED
    BY <2>1, <2>2
<1>6. ASSUME NEW m \in 0..(n - 1), m + 1 \in R PROVE m \in R
  <2>1. m + 1 \in 1..n /\ m \in 0..n /\ m + 1 \in 1..(n + 1) /\ (m + 1) + 1 \in 1..(n + 1) /\ m \in Nat
    BY <1>1
  <2> DEFINE a == ss[m + 1]
             c == r[(m + 1) + 1]
  <2>2. r[m + 1] = a \o c /\ a \in Seq(S) /\ c \in Seq(S)
    BY <1>1, <1>3, <2>1
  <2>3. Len(a) = 1 /\ Len(c) = n - (m + 1)
    BY <1>4, <1>6, <2>1
  <2> HIDE DEF a, c
  <2>4. Len(r[m + 1]) = Len(a) + Len(c)
    BY <2>2
  <2>5. Len(r[m + 1]) = n - m
    BY <1>1, <2>1, <2>3, <2>4
  <2> QED
    BY <2>1, <2>5
<1> HIDE DEF R
<1>7. 0 \in R
  <2>1. 0..n \subseteq R
    BY <1>1, <1>5, <1>6, Downwards
  <2> QED
    BY <1>1, <2>1
<1>8. Len(r[1]) = n
  <2>1. Len(r[0 + 1]) = n - 0 /\ 0 + 1 = 1 /\ n - 0 = n
    BY <1>1, <1>7 DEF R
  <2> QED
    BY <2>1
<1> QED
  BY <1>3, <1>8 DEF n

LEMMA OneByte ==
  ASSUME NEW x \in 0..127, x < Word
  PROVE  Len(EncodeVarint(x)) = 1
<1>1. x \in Nat
  OBVIOUS
<1>2. PICK m \in 1..VarintLen : (\A j \in 1..(m - 1) : x >= Weight[j]) /\ SizeVarint(x) = m
  BY <1>1, VarintShape
<1>3. VarintLen \in Nat /\ VarintLen >= 3
  BY WireAssumption
<1>4. Weight[1] = 128
  <2>1. 1 \in 1..VarintLen /\ 1 - 1 = 0
    BY <1>3
  <2>2. Weight[1] = 128 * Weight[0] /\ Weight[0] = 1
    BY <2>1, WeightFacts
  <2> QED
    BY <2>2
<1>5. m = 1
  <2>1. m > 1 => 1 \in 1..(m - 1)
    BY <1>3
  <2>2. m > 1 => x >= 128
    BY <1>2, <1>4, <2>1
  <2> QED
    BY <1>3, <2>2
<1> QED
  BY <1>1, <1>2, <1>5, VarintSizes

\* The uint64 of a bool has one byte, unless bools have a fixed size.
LEMMA BoolByte ==
  ASSUME NEW val \in {"varint", "zigzag32", "zigzag64"}, NEW y \in 0..1
  PROVE  Len(valEnc(val, y)) = 1
<1>0. Word32 \in Nat /\ Word \in Nat /\ 4 < Word32 /\ Word32 < Word
  BY WordsFit
<1>1. PICK h \in Nat : Word32 = 2 * h /\ Word32 \div 2 = h /\ h >= 2 /\ h < Word32
  BY Word32Half
<1>2. y < Word /\ y % Word32 = y /\ y \in 0..127 /\ 2 * y \in 0..127 /\ 2 * y < Word
  BY <1>0, ModSmall
<1>3. Unzigzag(y, Word32) = 2 * y
  BY <1>1 DEF Unzigzag
<1>4. Unzigzag(y, Word) = 2 * y
  <2>1. PICK g \in Nat : Word = 2 * g /\ Word \div 2 = g /\ g > 0
    BY SecondFacts
  <2> QED
    BY <1>0, <2>1 DEF Unzigzag
<1>5. CASE val = "varint"
  BY <1>2, <1>5, OneByte DEF valEnc
<1>6. CASE val = "zigzag32"
  BY <1>2, <1>3, <1>6, OneByte DEF valEnc
<1>7. CASE val = "zigzag64"
  BY <1>2, <1>4, <1>7, OneByte DEF valEnc
<1> QED
  BY <1>5, <1>6, <1>7

LEMMA Bools ==
  ASSUME NEW k \in NumberKinds
  PROVE  (NumberEncoder(k) = "bool" <=> k = "bool") /\ (k = "bool" => \A y \in 0..1 : UintOf(k, y) = y) /\ WordOf("bool") = 2
<1>1. k \in {"int", "int8", "int16", "int32", "uint", "uint8", "uint16", "uint32", "bool", "int64", "uint64", "float32", "float64"}
  BY DEF NumberKinds, Signed32, Unsigned32
<1>2. NumberEncoder(k) = "bool" <=> k = "bool"
  BY <1>1 DEF NumberEncoder
<1>3. ~HasSign("bool")
  BY DEF HasSign, Signed32
<1> QED
  BY <1>2, <1>3 DEF UintOf, AsUint64, WordOf

LEMMA Extensional ==
  ASSUME NEW S, NEW u \in Seq(S), NEW v \in Seq(S), Len(u) = Len(v), \A k \in 1..Len(u) : u[k] = v[k]
  PROVE  u = v
OBVIOUS

LEMMA Associative ==
  ASSUME NEW a \in Seq(Bytes), NEW b \in Seq(Bytes), NEW c \in Seq(Bytes)
  PROVE  (a \o b) \o c = a \o (b \o c)
<1> DEFINE u == (a \o b) \o c
           v == a \o (b \o c)
<1>1. u \in Seq(Bytes) /\ v \in Seq(Bytes) /\ Len(u) = Len(v) /\ \A k \in 1..Len(u) : u[k] = v[k]
  OBVIOUS
<1> HIDE DEF u, v
<1>2. u = v
  BY <1>1, Extensional
<1> QED
  BY <1>2 DEF u, v

-----------------------------------------------------------------------------

\* the length that is written of a block of numbers
BlockLength(e, x, s) == IF e = "bool" THEN Len(x) ELSE Len(s)

\* A block of numbers is read back, if its length is right.
LEMMA BlockBack ==
  ASSUME NEW q, NEW e, NEW d, NEW S, NEW x, AllBack(q, e, d, S, x),
         NEW s \in Seq(Bytes), s = Concat(AllWritten(q, e, x)), Len(s) < Word,
         NEW b \in Seq(Bytes), Len(b) < Word, NEW i \in Nat, StandsAt(b, i, Raw(s))
  PROVE  GotBlock(q, b, d, i) = Read(x, i + Len(Raw(s)))
<1> DEFINE v == EncodeVarint(Len(s))
           n == DecodeVarint(b, i)
           j == i + Len(v)
<1>1. v \in Seq(Bytes) /\ Len(v) \in Nat /\ Raw(s) = v \o s /\ Len(Raw(s)) = Len(v) + Len(s) /\ Len(s) \in Nat
  BY RawBytes DEF Raw
<1>2. n = Read(Len(s), j) /\ i + Len(Raw(s)) <= Len(b)
  BY RawReadBack
<1> HIDE DEF v, n
<1>3. StandsAt(b, j, s) /\ j \in Nat
  BY <1>1, StandsApart
<1>4. NumbersUpTo(q, b, d, j, j + Len(s)) = Read(x, j + Len(s))
  <2> HIDE DEF j
  <2> QED
    BY <1>3, RowBack
<1>5. j + Len(s) = i + Len(Raw(s)) /\ j + Len(s) \in Nat /\ j + Len(s) <= Len(b) /\ j <= j + Len(s) /\ Len(b) \in Nat /\ Word \in Nat /\ Word > 0
  BY <1>1, <1>2, <1>3, WireAssumption
<1> DEFINE fin == j + Len(s)
<1>6. fin % Word = fin
  <2>1. fin \in Nat /\ fin < Word
    BY <1>5
  <2> HIDE DEF fin
  <2> QED
    BY <1>5, <2>1, ModSmall
<1> HIDE DEF j
<1>7. BlockOf(q, b, d, n) = NumbersUpTo(q, b, d, j, fin)
  <2>1. n.err = None /\ n.index = j /\ n.x = Len(s)
    BY <1>2
  <2> HIDE DEF fin
  <2>2. (n.index + n.x) % Word = fin
    BY <1>6, <2>1 DEF fin
  <2>3. ~(fin < n.index) /\ ~(fin > Len(b))
    BY <1>5, <1>3, <2>1 DEF fin
  <2> QED
    BY <2>1, <2>2, <2>3 DEF BlockOf
<1> QED
  BY <1>4, <1>5, <1>7 DEF GotBlock, n

\* The length of a block of bools is their number, which is right unless they have a fixed size.
FixedSize(q, e) == e = "bool" /\ q.valEnc \in {"fixed32", "fixed64"}

\* the numbers of a block, and how they are written
LEMMA PackedNumbers ==
  ASSUME NEW q, NEW t, NEW e, NEW d, IsNumber(q, t, e, d), NEW x \in Seq(OfType(t)), (VarintLen + 8) * Len(x) < Word
  PROVE  LET s == Concat(AllWritten(q, e, x)) IN
         /\ AllWritten(q, e, x) \in Seq(Seq(Bytes)) /\ s \in Seq(Bytes) /\ Len(s) < Word
         /\ \A y \in OfType(t) : Written(q, e, y) \in Seq(Bytes) /\ Len(Written(q, e, y)) >= 1
         /\ ~FixedSize(q, e) => BlockLength(e, x, s) = Len(s)
         /\ (\A k \in 1..Len(x) : Lasts(q, t, x[k])) => AllBack(q, e, d, OfType(t), x)
<1> DEFINE n == Len(x)
           S == OfType(t)
           ss == AllWritten(q, e, x)
           s == Concat(ss)
           l == VarintLen + 8
<1>0. t.kind \in NumberKinds /\ e = NumberEncoder(t.kind) /\ d = NumberDecoder(t.kind) /\ q.valEnc \in Vals /\ d \in NumberKinds
  BY KindWords DEF IsNumber
<1>1. S = 0..(WordOf(t.kind) - 1)
  BY <1>0, OfNumbers
<1>2. ASSUME NEW y \in S
      PROVE  /\ Written(q, e, y) = valEnc(q.valEnc, UintOf(t.kind, y))
             /\ Written(q, e, y) \in Seq(Bytes) /\ Len(Written(q, e, y)) \in 1..l
             /\ Survives(q.valEnc, t.kind, y) => ReadBack(q, e, d, y)
  <2>1. y \in 0..(WordOf(t.kind) - 1)
    BY <1>1
  <2> QED
    BY <1>0, <2>1, NumberBack
<1>3. n \in Nat /\ l \in Nat /\ l \in Int /\ \A k \in 1..n : x[k] \in S
  BY WireAssumption
<1>4. \A y \in S : Written(q, e, y) \in Seq(Bytes) /\ Len(Written(q, e, y)) >= 1 /\ Len(Written(q, e, y)) <= l
  <2> TAKE y \in S
  <2>1. Written(q, e, y) \in Seq(Bytes) /\ Len(Written(q, e, y)) \in 1..l
    BY <1>2
  <2> HIDE DEF l
  <2> QED
    BY <1>3, <2>1
<1> HIDE DEF S, l
<1>5. ss \in Seq(Seq(Bytes)) /\ Len(ss) = n /\ \A k \in 1..n : ss[k] = Written(q, e, x[k])
  <2>1. ss = [k \in 1..n |-> Written(q, e, x[k])]
    BY DEF AllWritten
  <2>2. ss \in [1..n -> Seq(Bytes)] /\ DOMAIN ss = 1..n
    BY <1>3, <1>4, <2>1
  <2> HIDE DEF ss, n
  <2>3. ss \in Seq(Seq(Bytes)) /\ Len(ss) = n
    BY <1>3, <2>2
  <2> QED
    BY <2>1, <2>3
<1> HIDE DEF ss
<1>6. s \in Seq(Bytes)
  BY <1>5, ConcatSeq
<1>7. Len(s) < Word
  <2>1. \A k \in 1..Len(ss) : Len(ss[k]) <= l
    BY <1>3, <1>4, <1>5
  <2>2. Len(s) <= l * Len(ss)
    BY <1>3, <1>5, <2>1, ConcatLength
  <2>3. l * Len(ss) < Word
    BY <1>5 DEF l
  <2>4. l * n \in Int
    <3> HIDE DEF n
    <3> QED
      BY <1>3
  <2>5. Len(s) \in Nat /\ Word \in Nat
    BY <1>6, WireAssumption
  <2> HIDE DEF s, n
  <2> QED
    BY <1>5, <2>2, <2>3, <2>4, <2>5
<1>8. ASSUME ~FixedSize(q, e) PROVE BlockLength(e, x, s) = Len(s)
  <2>1. CASE e # "bool"
    BY <2>1 DEF BlockLength
  <2>2. CASE e = "bool"
    <3>1. t.kind = "bool" /\ q.valEnc \in {"varint", "zigzag32", "zigzag64"} /\ S = 0..1
      <4>1. t.kind = "bool" /\ WordOf("bool") = 2
        BY <1>0, <2>2, Bools
      <4>2. q.valEnc \in {"varint", "zigzag32", "zigzag64"}
        BY <1>0, <1>8, <2>2 DEF FixedSize, Vals
      <4> QED
        BY <1>1, <4>1, <4>2
    <3>2. ASSUME NEW k \in 1..Len(ss) PROVE Len(ss[k]) = 1
      <4>1. x[k] \in 0..1 /\ x[k] \in S
        BY <1>3, <1>5, <3>1
      <4>2. UintOf(t.kind, x[k]) = x[k]
        BY <1>0, <3>1, <4>1, Bools
      <4>3. ss[k] = valEnc(q.valEnc, x[k])
        BY <1>2, <1>5, <4>1, <4>2
      <4> QED
        BY <3>1, <4>1, <4>3, BoolByte
    <3>3. Len(s) = Len(ss)
      BY <1>5, <3>2, ConcatOfOnes
    <3> QED
      BY <1>5, <2>2, <3>3 DEF BlockLength
  <2> QED
    BY <2>1, <2>2
<1>9. ASSUME \A k \in 1..n : Lasts(q, t, x[k]) PROVE AllBack(q, e, d, S, x)
  <2>1. ASSUME NEW k \in 1..n PROVE ReadBack(q, e, d, x[k])
    <3>1. Survives(q.valEnc, t.kind, x[k])
      BY <1>0, <1>9 DEF Lasts
    <3> QED
      BY <1>2, <1>3, <3>1
  <2>2. x \in Seq(S)
    BY DEF S
  <2> QED
    BY <1>0, <1>4, <2>1, <2>2 DEF AllBack
<1> QED
  BY <1>4, <1>5, <1>6, <1>7, <1>8, <1>9 DEF S, ss

\* a block as it is written
LEMMA BlockIs ==
  ASSUME NEW q, q.tagcode \in Seq(Bytes), NEW e, NEW S, NEW x \in Seq(S),
         NEW s \in Seq(Bytes), s = Concat(AllWritten(q, e, x)), Len(s) < Word, BlockLength(e, x, s) = Len(s)
  PROVE  Block(q, e, x) = q.tagcode \o Raw(s) /\ Raw(s) \in Seq(Bytes)
<1> DEFINE l == EncodeVarint(BlockLength(e, x, s))
<1>1. DOMAIN x = 1..Len(x)
  OBVIOUS
<1>2. [k \in DOMAIN x |-> Written(q, e, x[k])] = AllWritten(q, e, x)
  BY <1>1 DEF AllWritten
<1>3. Block(q, e, x) = (q.tagcode \o l) \o s
  BY <1>2 DEF Block, BlockLength
<1>4. l = EncodeVarint(Len(s)) /\ l \in Seq(Bytes) /\ Raw(s) = l \o s /\ Raw(s) \in Seq(Bytes)
  BY RawBytes DEF Raw
<1> HIDE DEF l
<1>5. (q.tagcode \o l) \o s = q.tagcode \o (l \o s)
  <2> DEFINE c == q.tagcode
  <2>1. c \in Seq(Bytes)
    OBVIOUS
  <2> HIDE DEF c
  <2>2. (c \o l) \o s = c \o (l \o s)
    BY <1>4, <2>1, Associative
  <2> QED
    BY <2>2 DEF c
<1> QED
  BY <1>3, <1>4, <1>5

LEMMA PackedTold ==
  ASSUME NEW q, q.tagcode \in Seq(Bytes), NEW kind \in {"slice", "array"}, NEW t, NEW e, NEW d, Codec(q, PackedShape(kind), e, d),
         IsNumber(q, t, e, d), ~FixedSize(q, e), NEW x \in Seq(OfType(t)), Fits(q, kind, x), (VarintLen + 8) * Len(x) < Word,
         \A k \in 1..Len(x) : Lasts(q, t, x[k])
  PROVE  \E w, a : Told(q, x, w, a)
<1> DEFINE s == Concat(AllWritten(q, e, x))
           S == OfType(t)
           shape == PackedShape(kind)
<1>0. d \in NumberKinds /\ e \in NumberKinds
  BY KindWords DEF IsNumber
<1>00. d \notin {"nothing", "byte"} /\ e \notin {"nothing", "byte"}
  BY <1>0, NotNumbers
<1>1. q.enc[1] = shape /\ q.enc[2] = e /\ q.dec[1] = shape /\ q.dec[2] = d
  BY CodecParts
<1>2. s \in Seq(Bytes) /\ Len(s) < Word /\ BlockLength(e, x, s) = Len(s) /\ AllBack(q, e, d, S, x)
  BY PackedNumbers
<1> HIDE DEF S
<1>3. shape \in {"slice_packed", "array_packed"} /\ (shape = "slice_packed" <=> kind = "slice")
  BY DEF PackedShape
<1> HIDE DEF shape
<1>4. x \in Seq(S)
  BY DEF S
<1>5. Zero(q) = <<>> /\ Wanted(q, x) = x /\ Filled(q, x) = x
  <2>1. Zero(q) = <<>>
    BY <1>1, <1>3 DEF Zero
  <2>2. q.enc[1] # "ptr"
    BY <1>1, <1>3
  <2>3. q.dec[1] \in {"array", "array_packed"} => q.length = Len(x)
    BY <1>1, <1>3 DEF Fits
  <2> QED
    BY <1>4, <2>1, <2>2, <2>3, NotPointers, FullArray
<1>6. CASE shape = "slice_packed" /\ x = <<>>
  <2>1. enc(q, x) = <<>>
    BY <1>00, <1>1, <1>6 DEF enc
  <2> QED
    BY <1>5, <1>6, <2>1, NoItems
<1>7. CASE ~(shape = "slice_packed" /\ x = <<>>)
  <2>1. enc(q, x) = Block(q, e, x)
    BY <1>00, <1>1, <1>3, <1>7 DEF enc
  <2>2. Block(q, e, x) = q.tagcode \o Raw(s) /\ Raw(s) \in Seq(Bytes)
    BY <1>2, <1>4, BlockIs
  <2>3. ASSUME NEW b \in Seq(Bytes), NEW i \in Nat, Len(b) < Word, StandsAt(b, i, Raw(s))
        PROVE  dec(q, b, i, Zero(q)) = Read(x, i + Len(Raw(s)))
    <3> DEFINE g == GotBlock(q, b, d, i)
               end == i + Len(Raw(s))
    <3>1. g = Read(x, end)
      <4> HIDE DEF s, g
      <4>1. s = Concat(AllWritten(q, e, x))
        BY DEF s
      <4> QED
        BY <1>2, <2>3, <4>1, BlockBack DEF g
    <3>2. dec(q, b, i, Zero(q)) = Became(q, g, <<>>)
      BY <1>00, <1>1, <1>3, <1>5 DEF dec
    <3>3. <<>> \o x = x /\ UpTo(Len(x), x) = x
      <4>1. <<>> \o x = x
        BY <1>4
      <4> QED
        BY <1>4, <4>1, AllOf
    <3> HIDE DEF g, end
    <3>4. CASE shape = "slice_packed"
      <4>1. Became(q, g, <<>>) = [g EXCEPT !.x = <<>> \o @]
        BY <1>00, <1>1, <3>4 DEF Became
      <4> QED
        BY <3>1, <3>2, <3>3, <4>1 DEF end
    <3>5. CASE shape = "array_packed"
      <4>1. Became(q, g, <<>>) = [g EXCEPT !.x = UpTo(q.length, @)]
        BY <1>00, <1>1, <3>5 DEF Became
      <4>2. q.length = Len(x)
        BY <1>3, <3>5 DEF Fits
      <4>3. Became(q, g, <<>>) = [g EXCEPT !.x = UpTo(Len(x), @)]
        BY <4>1, <4>2
      <4> QED
        BY <3>1, <3>2, <3>3, <4>3 DEF end
    <3> QED
      BY <1>3, <3>4, <3>5
  <2>4. ReadsAs(q, Raw(s), Zero(q), x)
    BY <2>3 DEF ReadsAs
  <2>5. enc(q, x) = q.tagcode \o Raw(s)
    BY <2>1, <2>2
  <2>6. Filled(q, x) = Wanted(q, x)
    BY <1>5
  <2> DEFINE v == Raw(s)
  <2> HIDE DEF v
  <2> QED
    BY <2>2, <2>4, <2>5, <2>6, OneItem DEF v
<1> QED
  BY <1>6, <1>7

-----------------------------------------------------------------------------
(* the value of a field *)

IsSingle(t) == t.kind \notin {"ptr", "slice", "array"}

\* Kind and Elements, of a type and a value
KindOf(t) ==
  LET e == IF IsSingle(t) THEN t ELSE Elem(t)
  IN  IF e.kind = "ptr" THEN Elem(e).kind ELSE e.kind

ElementsOf(t, x) ==
  IF IsSingle(t) THEN {x}
  ELSE IF t.kind = "ptr" THEN x
  ELSE IF KindOf(t) = "uint8" THEN {} ELSE {x[k] : k \in DOMAIN x}

AllSurvive(q, t, x) ==
  q.enc[2] \in NumberKinds \cup {"time_Duration"} => \A u \in ElementsOf(t, x) : Survives(q.valEnc, KindOf(t), u)

\* what setEncAndDec keeps to
Sound(q) ==
  /\ ~(q.enc[1] \in {"slice_packed", "array_packed"} /\ FixedSize(q, q.enc[2]))
  /\ q.dec[2] # "struct_message"

LEMMA UnitNumbers ==
  ASSUME NEW q, NEW t, NEW e, NEW d, Unit(q, t, e, d)
  PROVE  t.kind # "ptr" /\ (t.kind \in NumberKinds => e \in NumberKinds \cup {"time_Duration"})
<1>1. CASE IsNumber(q, t, e, d)
  BY <1>1, Kinds, KindWords DEF IsNumber
<1>2. CASE IsADuration(t, e, d)
  BY <1>2, Kinds DEF IsADuration
<1>3. CASE IsString(t, e, d)
  BY <1>3, Kinds DEF IsString
<1>4. CASE IsStruct(q, t, e, d)
  BY <1>4, Kinds DEF IsStruct
<1> QED
  BY <1>1, <1>2, <1>3, <1>4 DEF Unit

LEMMA UnitLasts ==
  ASSUME NEW q, NEW shape, NEW t, UnitCodec(q, shape, t), NEW y,
         q.enc[2] \in NumberKinds \cup {"time_Duration"} => Survives(q.valEnc, t.kind, y)
  PROVE  t.kind # "ptr" /\ Lasts(q, t, y)
<1>1. PICK e, d : Codec(q, shape, e, d) /\ Unit(q, t, e, d)
  BY DEF UnitCodec
<1>2. q.enc[2] = e
  BY <1>1, CodecParts
<1> QED
  BY <1>1, <1>2, UnitNumbers DEF Lasts

LEMMA NothingTold ==
  ASSUME NEW q, NoElements(q)
  PROVE  \E w, a : Told(q, <<>>, w, a)
<1>1. q.enc[1] = "" /\ q.enc[2] = "nothing" /\ q.dec[1] = "" /\ q.dec[2] = "nothing"
  BY CodecParts DEF NoElements
<1>2. enc(q, <<>>) = <<>>
  BY <1>1 DEF enc
<1>3. Zero(q) = <<>>
  BY <1>1 DEF Zero
<1>4. Filled(q, <<>>) = <<>> /\ Wanted(q, <<>>) = <<>>
  BY <1>1, NotPointers, NotArrays
<1> QED
  BY <1>2, <1>3, <1>4, NoItems

\* a slice or an array, but of pointers
IsList(t, x) ==
  /\ t.kind \in {"slice", "array"} /\ Elem(t).kind # "ptr"
  /\ x \in Seq(OfType(Elem(t))) /\ (VarintLen + 8) * Len(x) < Word /\ (t.kind = "array" => Len(x) = t.len)

LEMMA ListValue ==
  ASSUME NEW t, t.kind \in {"slice", "array"}, Elem(t).kind # "ptr", NEW x, IsValue(t, x)
  PROVE  IsList(t, x) /\ Len(x) < Word
<1>1. IsList(t, x)
  BY DEF IsValue, IsList
<1>2. Len(x) \in Nat /\ VarintLen \in Nat /\ (VarintLen + 8) * Len(x) < Word /\ Word \in Nat
  BY <1>1, WireAssumption DEF IsList
<1>3. \A v, l, w \in Nat : (v + 8) * l < w => l < w
  <2> TAKE v, l, w \in Nat
  <2>1. (v + 8) * l = v * l + 8 * l /\ v * l \in Nat
    OBVIOUS
  <2> QED
    BY <2>1
<1> QED
  BY <1>1, <1>2, <1>3

LEMMA ListSurvives ==
  ASSUME NEW q, NEW t, NEW x, IsList(t, x), AllSurvive(q, t, x), Elem(t).kind # "uint8", NEW k \in 1..Len(x),
         q.enc[2] \in NumberKinds \cup {"time_Duration"}
  PROVE  Survives(q.valEnc, Elem(t).kind, x[k])
<1>1. KindOf(t) = Elem(t).kind /\ ElementsOf(t, x) = {x[j] : j \in DOMAIN x}
  BY DEF KindOf, ElementsOf, IsSingle, IsList
<1>2. k \in DOMAIN x
  BY DEF IsList
<1>3. x[k] \in ElementsOf(t, x)
  BY <1>1, <1>2
<1> QED
  BY <1>1, <1>3 DEF AllSurvive

LEMMA EachListTold ==
  ASSUME NEW q, q.tagcode \in Seq(Bytes), NEW t, NEW x, IsList(t, x), Fits(q, t.kind, x),
         EachCodec(q, t.kind, Elem(t)) \/ ListsCodec(q, t.kind, Elem(t))
  PROVE  \E w, a : Told(q, x, w, a)
<1> DEFINE s == Elem(t)
           S == OfType(s)
<1>1. t.kind \in {"slice", "array"} /\ x \in Seq(S)
  BY DEF IsList
<1>2. \A k \in 1..Len(x) : x[k] \in S
  BY <1>1
<1>3. PICK e, d : /\ Codec(q, t.kind, e, d) /\ e = d /\ e \in {"time_Duration", "string", "slice_byte"}
                  /\ IF e = "time_Duration" THEN s = Duration ELSE s.kind \in {"string", "slice"}
  BY DEF EachCodec, ListsCodec, IsADuration, IsString
<1>4. ASSUME NEW y \in S PROVE Written(q, e, y) \in Seq(Bytes) /\ ReadBack(q, e, d, y)
  <2>1. CASE e = "time_Duration"
    <3>1. y \in 0..(Word - 1)
      BY <1>3, <2>1, OfDurations
    <3> QED
      BY <1>3, <2>1, <3>1, DurationReadBack
  <2>2. CASE e # "time_Duration"
    <3>1. s.kind \in {"string", "slice"}
      BY <1>3, <2>2
    <3>2. s.kind \notin NumberKinds /\ s # Time
      <4>1. "string" \notin NumberKinds /\ "slice" \notin NumberKinds
        BY DEF NumberKinds, Signed32, Unsigned32
      <4> QED
        BY <3>1, <4>1, Kinds
    <3>3. y \in Seq(Bytes) /\ Len(y) < Word
      BY <3>2, OfStrings
    <3> QED
      BY <1>3, <2>2, <3>3, StringBack
  <2> QED
    BY <2>1, <2>2
<1>5. e \notin {"nothing", "byte"} /\ d \notin {"nothing", "byte"}
  BY <1>3
<1>6. \A k \in 1..Len(x) : ReadBack(q, e, d, x[k])
  BY <1>2, <1>4
<1>7. \A y \in S : Written(q, e, y) \in Seq(Bytes)
  BY <1>4
<1> HIDE DEF s, S
<1> QED
  BY <1>1, <1>3, <1>5, <1>6, <1>7, EachTold

LEMMA ListTold ==
  ASSUME NEW q, OnlyTimes(q), Sound(q), q.tagcode \in Seq(Bytes), NEW t, t.kind \in {"slice", "array"}, ListCodec(q, t.kind, Elem(t)),
         t.kind = "array" => q.length = t.len, NEW x, IsValue(t, x), AllSurvive(q, t, x)
  PROVE  \E w, a : Told(q, x, w, a)
<1>1. ~TimesCodec(q, t.kind, Elem(t))
  <2>1. \A s : Codec(q, s, "struct_message", "struct_message") => q.dec[2] = "struct_message"
    BY CodecParts
  <2> QED
    BY <2>1 DEF TimesCodec, Sound
<1>2. Elem(t).kind # "ptr"
  <2>1. "ptr" # "uint8" /\ "ptr" \notin NumberKinds /\ Duration.kind # "ptr"
    BY Kinds
  <2> QED
    BY <1>1, <2>1 DEF ListCodec, BytesCodec, PackedCodec, IsNumber, EachCodec, IsADuration, IsString, ListsCodec
<1>3. IsList(t, x) /\ Len(x) < Word
  BY <1>2, ListValue
<1>4. Fits(q, t.kind, x) /\ x \in Seq(OfType(Elem(t))) /\ (VarintLen + 8) * Len(x) < Word
  BY <1>3 DEF Fits, IsList
<1>5. CASE BytesCodec(q, t.kind, Elem(t))
  <2>1. OfType(Elem(t)) = 0..(Word8 - 1)
    <3>1. "uint8" \in NumberKinds /\ WordOf("uint8") = Word8
      BY DEF NumberKinds, Unsigned32, WordOf
    <3> QED
      BY <1>5, <3>1, OfNumbers DEF BytesCodec
  <2>2. 0..(Word8 - 1) \subseteq Bytes
    BY WordsFit DEF Bytes
  <2>3. x \in Seq(Bytes)
    <3> DEFINE S == OfType(Elem(t))
    <3>1. x \in Seq(S) /\ S \subseteq Bytes
      BY <1>4, <2>1, <2>2
    <3> HIDE DEF S
    <3> QED
      BY <3>1
  <2>4. Codec(q, t.kind, "byte", "byte")
    BY <1>5 DEF BytesCodec
  <2> QED
    BY <1>3, <1>4, <2>3, <2>4, BytesTold
<1>6. CASE PackedCodec(q, t.kind, Elem(t)) /\ ~BytesCodec(q, t.kind, Elem(t))
  <2>1. PICK e, d : Codec(q, PackedShape(t.kind), e, d) /\ IsNumber(q, Elem(t), e, d)
    BY <1>6 DEF PackedCodec
  <2>2. q.enc[1] = PackedShape(t.kind) /\ q.enc[2] = e
    BY <2>1, CodecParts
  <2>3. ~FixedSize(q, e)
    BY <2>2 DEF Sound, PackedShape
  <2>4. CASE Elem(t).kind # "uint8"
    <3>1. \A k \in 1..Len(x) : Lasts(q, Elem(t), x[k])
      <4>1. e \in NumberKinds
        BY <2>1, KindWords DEF IsNumber
      <4> QED
        BY <1>3, <2>2, <2>4, <4>1, ListSurvives DEF Lasts
    <3> DEFINE s == Elem(t)
    <3> HIDE DEF s
    <3> QED
      BY <1>4, <2>1, <2>3, <3>1, PackedTold DEF s
  <2>5. CASE Elem(t).kind = "uint8"
    <3>1. \A k \in 1..Len(x) : Lasts(q, Elem(t), x[k])
      BY <2>5, WordsFit DEF Lasts, Survives, WordOf
    <3> DEFINE s == Elem(t)
    <3> HIDE DEF s
    <3> QED
      BY <1>4, <2>1, <2>3, <3>1, PackedTold DEF s
  <2> QED
    BY <2>4, <2>5
<1>7. CASE EachCodec(q, t.kind, Elem(t)) \/ ListsCodec(q, t.kind, Elem(t))
  BY <1>3, <1>4, <1>7, EachListTold
<1> QED
  BY <1>1, <1>5, <1>6, <1>7 DEF ListCodec

\* The value of a field is written as items, and one after the other they make it again.
LEMMA FieldTold ==
  ASSUME NEW q, OnlyTimes(q), Sound(q), q.tagcode \in Seq(Bytes), NEW t, FieldCodec(q, t), NEW x, IsValue(t, x), AllSurvive(q, t, x)
  PROVE  \E w, a : Told(q, x, w, a)
<1>1. CASE t.kind = "array" /\ t.len = 0 /\ NoElements(q)
  <2>1. x = <<>>
    <3>1. \A S : x \in Seq(S) /\ Len(x) = 0 => x = <<>>
      OBVIOUS
    <3> QED
      BY <1>1, <3>1 DEF IsValue
  <2> QED
    BY <1>1, <2>1, NothingTold
<1>2. CASE t.kind \notin {"ptr", "slice", "array"} /\ UnitCodec(q, "", t)
  <2>1. x \in OfType(t)
    BY <1>2 DEF IsValue
  <2>2. IsSingle(t) /\ ElementsOf(t, x) = {x}
    BY <1>2 DEF IsSingle, ElementsOf
  <2>3. KindOf(t) = t.kind
    BY <1>2, <2>2 DEF KindOf
  <2>4. Lasts(q, t, x)
    BY <1>2, <2>2, <2>3, UnitLasts DEF AllSurvive
  <2> QED
    BY <1>2, <2>1, <2>4, SingleTold
<1>3. CASE t.kind = "ptr" /\ UnitCodec(q, "ptr", Elem(t))
  <2> DEFINE s == Elem(t)
  <2>1. x = {} \/ \E y \in x : y \in OfType(s) /\ x = {y}
    BY <1>3 DEF IsValue
  <2>2. ~IsSingle(t) /\ ElementsOf(t, x) = x
    BY <1>3 DEF IsSingle, ElementsOf
  <2>3. s.kind # "ptr"
    <3>1. PICK e, d : Unit(q, s, e, d)
      BY <1>3 DEF UnitCodec
    <3> QED
      BY <3>1, UnitNumbers
  <2>4. KindOf(t) = s.kind
    BY <1>3, <2>2, <2>3 DEF KindOf
  <2>5. \A y \in x : Lasts(q, s, y)
    BY <1>3, <2>2, <2>4, UnitLasts DEF AllSurvive
  <2> HIDE DEF s
  <2>6. UnitCodec(q, "ptr", s)
    BY <1>3 DEF s
  <2> QED
    BY <2>1, <2>5, <2>6, PtrTold
<1>4. CASE t.kind = "slice" /\ ListCodec(q, "slice", Elem(t))
  BY <1>4, ListTold
<1>5. CASE t.kind = "array" /\ t.len # 0 /\ q.length = t.len /\ ListCodec(q, "array", Elem(t))
  BY <1>5, ListTold
<1> QED
  BY <1>1, <1>2, <1>3, <1>4, <1>5 DEF FieldCodec

-----------------------------------------------------------------------------
(* messages are bytes *)

LEMMA OneBytes ==
  ASSUME NEW q, q.tagcode \in Seq(Bytes), NEW e, NEW y, Written(q, e, y) \in Seq(Bytes)
  PROVE  One(q, e, y) \in Seq(Bytes)
<1> DEFINE c == q.tagcode
           v == Written(q, e, y)
<1>1. c \in Seq(Bytes) /\ v \in Seq(Bytes)
  OBVIOUS
<1>2. One(q, e, y) = c \o v
  BY DEF One
<1> HIDE DEF c, v
<1> QED
  BY <1>1, <1>2

LEMMA EachBytes ==
  ASSUME NEW q, q.tagcode \in Seq(Bytes), NEW e, NEW S, \A y \in S : Written(q, e, y) \in Seq(Bytes), NEW x \in Seq(S)
  PROVE  Each(q, e, x) \in Seq(Bytes)
<1> DEFINE n == Len(x)
           ss == [k \in 1..n |-> One(q, e, x[k])]
<1>1. n \in Nat /\ DOMAIN x = 1..n /\ \A k \in 1..n : x[k] \in S
  OBVIOUS
<1>2. \A k \in 1..n : One(q, e, x[k]) \in Seq(Bytes)
  BY <1>1, OneBytes
<1>3. ss \in Seq(Seq(Bytes))
  <2> HIDE DEF n
  <2> QED
    BY <1>1, <1>2
<1>4. Each(q, e, x) = Concat(ss)
  BY <1>1 DEF Each
<1> HIDE DEF ss
<1> QED
  BY <1>3, <1>4, ConcatSeq

LEMMA NoBytes == <<>> \in Seq(Bytes)
OBVIOUS

LEMMA UnitBytes ==
  ASSUME NEW q, OnlyTimes(q), q.tagcode \in Seq(Bytes), NEW t, NEW shape \in {"", "ptr"}, UnitCodec(q, shape, t), NEW x,
         IF shape = "" THEN x \in OfType(t) ELSE x = {} \/ \E y \in x : y \in OfType(t) /\ x = {y}
  PROVE  enc(q, x) \in Seq(Bytes)
<1>1. PICK e, d : Codec(q, shape, e, d) /\ Unit(q, t, e, d)
  BY DEF UnitCodec
<1>2. e \notin {"nothing", "byte"}
  BY <1>1, UnitNames
<1>3. q.enc[1] = shape /\ q.enc[2] = e
  BY <1>1, CodecParts
<1>4. \A y \in OfType(t) : One(q, e, y) \in Seq(Bytes)
  <2> TAKE y \in OfType(t)
  <2>1. Written(q, e, y) \in Seq(Bytes)
    BY <1>1, UnitBack
  <2> QED
    BY <2>1, OneBytes
<1>5. CASE shape = ""
  <2>1. enc(q, x) = IF IsEmpty(e, x) THEN <<>> ELSE One(q, e, x)
    BY <1>2, <1>3, <1>5 DEF enc
  <2> QED
    BY <1>4, <1>5, <2>1, NoBytes
<1>6. CASE shape = "ptr"
  <2>1. enc(q, x) \in {<<>>, One(q, e, The(x))}
    BY <1>2, <1>3, <1>6 DEF enc
  <2>2. CASE x = {}
    <3>1. enc(q, x) = <<>>
      BY <1>2, <1>3, <1>6, <2>2 DEF enc
    <3> QED
      BY <3>1, NoBytes
  <2>3. CASE x # {}
    <3>1. PICK y \in OfType(t) : x = {y}
      BY <1>6, <2>3
    <3>2. The(x) = y
      BY <3>1 DEF The
    <3> QED
      BY <1>4, <2>1, <3>1, <3>2, NoBytes
  <2> QED
    BY <2>2, <2>3
<1> QED
  BY <1>5, <1>6

LEMMA BlockBytes ==
  ASSUME NEW q, q.tagcode \in Seq(Bytes), NEW t, NEW e, NEW d, IsNumber(q, t, e, d), NEW x \in Seq(OfType(t)), (VarintLen + 8) * Len(x) < Word,
         Len(x) < Word
  PROVE  Block(q, e, x) \in Seq(Bytes)
<1> DEFINE s == Concat(AllWritten(q, e, x))
           n == IF e = "bool" THEN Len(x) ELSE Len(s)
           v == EncodeVarint(n)
           c == q.tagcode
<1>1. s \in Seq(Bytes) /\ Len(s) < Word
  BY PackedNumbers
<1>2. n \in Nat /\ n < Word
  <2>1. Len(x) \in Nat /\ Len(s) \in Nat
    BY <1>1
  <2> QED
    BY <1>1, <2>1
<1>3. [k \in DOMAIN x |-> Written(q, e, x[k])] = AllWritten(q, e, x)
  <2>1. DOMAIN x = 1..Len(x)
    OBVIOUS
  <2> QED
    BY <2>1 DEF AllWritten
<1>4. Block(q, e, x) = (c \o v) \o s
  BY <1>3 DEF Block
<1> HIDE DEF n
<1>5. v \in Seq(Bytes)
  BY <1>2, VarintSizes
<1>6. c \in Seq(Bytes)
  OBVIOUS
<1> HIDE DEF c, v, s
<1> QED
  BY <1>1, <1>4, <1>5, <1>6

\* a list of times
LEMMA TimesBytes ==
  ASSUME NEW q, OnlyTimes(q), q.tagcode \in Seq(Bytes), NEW t, t.kind \in {"slice", "array"}, TimesCodec(q, t.kind, Elem(t)), NEW x, IsValue(t, x)
  PROVE  enc(q, x) \in Seq(Bytes)
<1> DEFINE S == OfType(Time)
           e == "struct_message"
<1>1. \A y \in S : Written(q, e, y) \in Seq(Bytes)
  BY TimeBack
<1>2. \A s : s.kind = "struct" /\ s \in q.stype => s = Time
  <2>1. \A s \in q.stype : s = Time \/ s = Duration
    BY DEF OnlyTimes
  <2> QED
    BY <2>1, Kinds
<1>3. CASE Elem(t).kind = "struct" /\ Elem(t) \in q.stype /\ Codec(q, t.kind, e, e)
  <2>1. Elem(t) = Time
    BY <1>2, <1>3
  <2>2. Elem(t).kind # "ptr"
    BY <1>3
  <2>3. x \in Seq(S)
    BY <2>1, <2>2, ListValue DEF IsList
  <2>4. q.enc[1] = t.kind /\ q.enc[2] = e
    BY <1>3, CodecParts
  <2>5. enc(q, x) = Each(q, e, x)
    BY <2>4 DEF enc
  <2> HIDE DEF S
  <2> QED
    BY <1>1, <2>3, <2>5, EachBytes
<1>4. CASE Elem(t).kind = "ptr" /\ Elem(Elem(t)).kind = "struct" /\ Elem(Elem(t)) \in q.stype /\ Codec(q, PtrShape(t.kind), e, e)
  <2> DEFINE u == [k \in DOMAIN x |-> The(x[k])]
             n == Len(x)
  <2>1. Elem(Elem(t)) = Time
    BY <1>2, <1>4
  <2>2. x \in Seq(SUBSET S) /\ \A k \in DOMAIN x : \E y \in x[k] : x[k] = {y}
    BY <1>4, <2>1 DEF IsValue
  <2>3. q.enc[1] = PtrShape(t.kind) /\ q.enc[2] = e
    BY <1>4, CodecParts
  <2>4. enc(q, x) = Each(q, e, u)
    BY <2>3 DEF enc, PtrShape
  <2> HIDE DEF S
  <2>5. n \in Nat /\ DOMAIN x = 1..n /\ \A k \in 1..n : x[k] \subseteq S
    BY <2>2
  <2>6. \A k \in 1..n : The(x[k]) \in S
    <3> TAKE k \in 1..n
    <3>1. PICK y \in x[k] : x[k] = {y}
      BY <2>2, <2>5
    <3>2. The(x[k]) = y
      BY <3>1 DEF The
    <3> QED
      BY <2>5, <3>1, <3>2
  <2>7. u \in Seq(S)
    <3>1. u = [k \in 1..n |-> The(x[k])]
      BY <2>5
    <3> HIDE DEF n, u
    <3> QED
      BY <2>5, <2>6, <3>1
  <2> HIDE DEF u
  <2> QED
    BY <1>1, <2>4, <2>7, EachBytes
<1> QED
  BY <1>3, <1>4 DEF TimesCodec

LEMMA ListBytes ==
  ASSUME NEW q, OnlyTimes(q), q.tagcode \in Seq(Bytes), NEW t, t.kind \in {"slice", "array"}, ListCodec(q, t.kind, Elem(t)),
         NEW x, IsValue(t, x)
  PROVE  enc(q, x) \in Seq(Bytes)
<1> DEFINE s == Elem(t)
           S == OfType(s)
<1>1. CASE TimesCodec(q, t.kind, Elem(t))
  BY <1>1, TimesBytes
<1>2. CASE ~TimesCodec(q, t.kind, Elem(t))
  <2>1. Elem(t).kind # "ptr"
    <3>1. "ptr" # "uint8" /\ "ptr" \notin NumberKinds /\ Duration.kind # "ptr"
      BY Kinds
    <3> QED
      BY <1>2, <3>1 DEF ListCodec, BytesCodec, PackedCodec, IsNumber, EachCodec, IsADuration, IsString, ListsCodec
  <2>2. x \in Seq(S) /\ (VarintLen + 8) * Len(x) < Word /\ Len(x) < Word
    BY <2>1, ListValue DEF IsList
  <2>3. CASE BytesCodec(q, t.kind, s)
    <3>1. s.kind = "uint8" /\ Codec(q, t.kind, "byte", "byte")
      BY <2>3 DEF BytesCodec
    <3>2. q.enc[1] = t.kind /\ q.enc[2] = "byte"
      BY <3>1, CodecParts
    <3>3. enc(q, x) \in {<<>>, One(q, "byte", x)}
      BY <3>2 DEF enc
    <3>4. S \subseteq Bytes
      <4>1. "uint8" \in NumberKinds /\ WordOf("uint8") = Word8
        BY DEF NumberKinds, Unsigned32, WordOf
      <4>2. S = 0..(Word8 - 1)
        BY <3>1, <4>1, OfNumbers
      <4> QED
        BY <4>2, WordsFit DEF Bytes
    <3> HIDE DEF S
    <3>5. x \in Seq(Bytes)
      BY <2>2, <3>4
    <3>6. Written(q, "byte", x) \in Seq(Bytes)
      BY <2>2, <3>5, StringBack
    <3> QED
      BY <3>3, <3>6, OneBytes, NoBytes
  <2>4. CASE PackedCodec(q, t.kind, s)
    <3>1. PICK e, d : Codec(q, PackedShape(t.kind), e, d) /\ IsNumber(q, s, e, d)
      BY <2>4 DEF PackedCodec
    <3>2. q.enc[1] = PackedShape(t.kind) /\ q.enc[2] = e
      BY <3>1, CodecParts
    <3>3. e \notin {"nothing", "byte"}
      BY <3>1, KindWords, NotNumbers DEF IsNumber
    <3>4. enc(q, x) \in {<<>>, Block(q, e, x)}
      BY <3>2, <3>3 DEF enc, PackedShape
    <3> HIDE DEF s
    <3>5. Block(q, e, x) \in Seq(Bytes)
      BY <2>2, <3>1, BlockBytes
    <3> QED
      BY <3>4, <3>5, NoBytes
  <2>5. CASE EachCodec(q, t.kind, s) \/ ListsCodec(q, t.kind, s)
    <3>1. PICK e, d : /\ Codec(q, t.kind, e, d) /\ e \in {"time_Duration", "string", "slice_byte"}
                      /\ IF e = "time_Duration" THEN s = Duration ELSE s.kind \in {"string", "slice"}
      BY <2>5 DEF EachCodec, ListsCodec, IsADuration, IsString
    <3>2. q.enc[1] = t.kind /\ q.enc[2] = e
      BY <3>1, CodecParts
    <3>3. enc(q, x) = Each(q, e, x)
      BY <3>1, <3>2 DEF enc
    <3>4. ASSUME NEW y \in S PROVE Written(q, e, y) \in Seq(Bytes)
      <4>1. CASE e = "time_Duration"
        <5>1. y \in 0..(Word - 1)
          BY <3>1, <4>1, OfDurations
        <5> QED
          BY <4>1, <5>1, DurationReadBack
      <4>2. CASE e # "time_Duration"
        <5>1. s.kind \notin NumberKinds /\ s # Time
          BY <3>1, <4>2, Kinds
        <5>2. y \in Seq(Bytes) /\ Len(y) < Word
          BY <5>1, OfStrings
        <5> QED
          BY <3>1, <4>2, <5>2, StringBack
      <4> QED
        BY <4>1, <4>2
    <3> HIDE DEF S
    <3> QED
      BY <2>2, <3>3, <3>4, EachBytes
  <2> QED
    BY <1>2, <2>3, <2>4, <2>5 DEF ListCodec
<1> QED
  BY <1>1, <1>2

\* What a field is encoded as are bytes.
LEMMA FieldBytes ==
  ASSUME NEW q, OnlyTimes(q), q.tagcode \in Seq(Bytes), NEW t, FieldCodec(q, t), NEW x, IsValue(t, x)
  PROVE  enc(q, x) \in Seq(Bytes)
<1>1. CASE t.kind = "array" /\ t.len = 0 /\ NoElements(q)
  <2>0. Codec(q, "", "nothing", "nothing")
    BY <1>1 DEF NoElements
  <2>1. q.enc[1] = "" /\ q.enc[2] = "nothing"
    BY <2>0, CodecParts
  <2>2. enc(q, x) = <<>>
    BY <2>1 DEF enc
  <2> QED
    BY <2>2, NoBytes
<1>2. CASE t.kind \notin {"ptr", "slice", "array"} /\ UnitCodec(q, "", t)
  <2>1. x \in OfType(t)
    BY <1>2 DEF IsValue
  <2> QED
    BY <1>2, <2>1, UnitBytes
<1>3. CASE t.kind = "ptr" /\ UnitCodec(q, "ptr", Elem(t))
  <2> DEFINE s == Elem(t)
  <2>1. x = {} \/ \E y \in x : y \in OfType(s) /\ x = {y}
    BY <1>3 DEF IsValue
  <2> HIDE DEF s
  <2>2. UnitCodec(q, "ptr", s)
    BY <1>3 DEF s
  <2> QED
    BY <2>1, <2>2, UnitBytes
<1>4. CASE t.kind = "slice" /\ ListCodec(q, "slice", Elem(t))
  BY <1>4, ListBytes
<1>5. CASE t.kind = "array" /\ t.len # 0 /\ q.length = t.len /\ ListCodec(q, "array", Elem(t))
  BY <1>5, ListBytes
<1> QED
  BY <1>1, <1>2, <1>3, <1>4, <1>5 DEF FieldCodec

-----------------------------------------------------------------------------
(* where an item ends *)

\* a record with what was read up to a position that is still in the message
EndsIn(b, i, r) == r = [x |-> r.x, index |-> r.index, err |-> r.err] /\ r.index \in Ahead(b, i)

\* only what was read is another
LEMMA EndsToo ==
  ASSUME NEW b, NEW i, NEW r, EndsIn(b, i, r), NEW y
  PROVE  EndsIn(b, i, [r EXCEPT !.x = y])
<1> DEFINE s == [r EXCEPT !.x = y]
<1>1. s = [x |-> y, index |-> r.index, err |-> r.err]
  BY DEF EndsIn
<1> HIDE DEF s
<1>2. EndsIn(b, i, s)
  BY <1>1 DEF EndsIn
<1> QED
  BY <1>2 DEF s

LEMMA Further ==
  ASSUME NEW b, NEW i \in Nat, NEW j \in Ahead(b, i), NEW r, EndsIn(b, j, r)
  PROVE  EndsIn(b, i, r)
<1>1. r.index \in Ahead(b, i)
  BY DEF EndsIn, Ahead
<1> QED
  BY <1>1 DEF EndsIn

LEMMA RawEnds ==
  ASSUME NEW b \in Seq(Bytes), NEW i \in Nat, i <= Len(b)
  PROVE  EndsIn(b, i, DecodeRawBytes(b, i))
BY RawRecord, DecodeRawBytesFacts DEF EndsIn

LEMMA VarintEnds ==
  ASSUME NEW b \in Seq(Bytes), NEW i \in Nat, i <= Len(b)
  PROVE  EndsIn(b, i, DecodeVarint(b, i))
BY VarintAhead DEF EndsIn, IsAhead

LEMMA SkipEnds ==
  ASSUME NEW b \in Seq(Bytes), NEW i \in Nat, i <= Len(b), NEW wire
  PROVE  EndsIn(b, i, skip(b, i, wire))
<1> DEFINE r == skip(b, i, wire)
<1>1. r = [x |-> r.x, index |-> r.index, err |-> r.err]
  <2>1. CASE wire = WireVarint
    <3>1. r = SkipVarint(b, i)
      BY <2>1 DEF skip, WireVarint, WireBytes, WireFixed64, WireFixed32
    <3>2. LET s == SkipVarint(b, i) IN s = [x |-> s.x, index |-> s.index, err |-> s.err]
      BY DEF SkipVarint
    <3> QED
      BY <3>1, <3>2
  <2>2. CASE wire = WireBytes
    <3>1. r = DecodeRawBytes(b, i)
      BY <2>2 DEF skip, WireVarint, WireBytes, WireFixed64, WireFixed32
    <3> HIDE DEF r
    <3> QED
      BY <3>1, RawRecord
  <2>3. CASE wire \in {WireFixed64, WireFixed32}
    <3>1. r = SkipFixed(b, i, 8) \/ r = SkipFixed(b, i, 4)
      <4>1. CASE wire = WireFixed64
        BY <4>1 DEF skip, WireVarint, WireBytes, WireFixed64, WireFixed32
      <4>2. CASE wire = WireFixed32
        BY <4>2 DEF skip, WireVarint, WireBytes, WireFixed64, WireFixed32
      <4> QED
        BY <2>3, <4>1, <4>2
    <3>2. \A n : LET s == SkipFixed(b, i, n) IN s = [x |-> s.x, index |-> s.index, err |-> s.err]
      BY DEF SkipFixed
    <3> HIDE DEF r
    <3> QED
      BY <3>1, <3>2
  <2>4. CASE wire \notin {WireVarint, WireBytes, WireFixed64, WireFixed32}
    <3>1. r = Fail(BadWire, i)
      BY <2>4 DEF skip
    <3> HIDE DEF r
    <3> QED
      BY <3>1
  <2> QED
    BY <2>1, <2>2, <2>3, <2>4
<1> HIDE DEF r
<1>2. r.index \in Ahead(b, i)
  BY SkipFacts DEF r
<1>3. EndsIn(b, i, r)
  BY <1>1, <1>2 DEF EndsIn
<1> QED
  BY <1>3 DEF r

LEMMA TimeEnds ==
  ASSUME NEW b \in Seq(Bytes), NEW i \in Nat, i <= Len(b)
  PROVE  EndsIn(b, i, decode_time_Time(b, i))
<1> DEFINE raw == DecodeRawBytes(b, i)
           t == DecodeTimestamp(Inner(b, raw.x, raw.index))
           r == TimeIn(b, raw)
<1>1. EndsIn(b, i, raw)
  BY RawEnds
<1>2. r = raw \/ r = [x |-> t.ns, index |-> raw.index, err |-> t.err]
  BY DEF TimeIn
<1> HIDE DEF raw, t, r
<1>3. EndsIn(b, i, r)
  BY <1>1, <1>2 DEF EndsIn
<1> QED
  BY <1>3 DEF decode_time_Time, r, raw

LEMMA DurationEnds ==
  ASSUME NEW b \in Seq(Bytes), NEW i \in Nat, i <= Len(b)
  PROVE  EndsIn(b, i, dec_Duration(b, i))
<1> DEFINE n == DecodeVarint(b, i)
           end == (n.index + n.x) % Word
           d == DecodeNSecTimestamp(Inner(b, n.index, end))
           r == DurationIn(b, n)
<1>1. EndsIn(b, i, n) /\ n.x \in Nat
  BY VarintEnds, DecodeVarintNat
<1>2. \/ r = n
      \/ r = Fail(EOF, n.index)
      \/ r = Fail(d.err, n.index)
      \/ r = Read(d.ns, end) /\ SliceEnds(b, n.index, end)
  BY DEF DurationIn
<1> HIDE DEF d, r, n
<1>3. n.index \in Nat /\ i <= n.index /\ n.index <= Len(b) /\ n.index \in Ahead(b, i)
  BY <1>1 DEF EndsIn, Ahead
<1>4. end \in Nat
  BY <1>1, <1>3, WireAssumption
<1> HIDE DEF end
<1>5. SliceEnds(b, n.index, end) => end \in Ahead(b, i)
  BY <1>3, <1>4 DEF SliceEnds, Ahead
<1>6. EndsIn(b, i, r)
  <2>1. CASE r = n
    BY <1>1, <2>1
  <2>2. CASE r = Fail(EOF, n.index)
    BY <1>3, <2>2 DEF EndsIn
  <2>3. CASE r = Fail(d.err, n.index)
    BY <1>3, <2>3 DEF EndsIn
  <2>4. CASE r = Read(d.ns, end) /\ SliceEnds(b, n.index, end)
    BY <1>5, <2>4 DEF EndsIn
  <2> QED
    BY <1>2, <2>1, <2>2, <2>3, <2>4
<1> QED
  BY <1>6 DEF dec_Duration, r, n

\* the decoders there are
IsDecoder(q, d) ==
  \/ d \in NumberKinds /\ q.valEnc \in Vals
  \/ d \in {"string", "byte", "slice_byte", "time_Time", "struct_message", "time_Duration"}

LEMMA GotEnds ==
  ASSUME NEW q, NEW d, IsDecoder(q, d), NEW b \in Seq(Bytes), Len(b) < Word, NEW i \in Nat, i <= Len(b)
  PROVE  EndsIn(b, i, Got(q, b, d, i))
<1> DEFINE raw == DecodeRawBytes(b, i)
           s == Inner(b, raw.x, raw.index)
           o == dec_Duration(b, i)
           w == o.x % Word
<1>1. CASE d \in NumberKinds /\ q.valEnc \in Vals
  BY <1>1, NumberAhead DEF EndsIn, IsAhead
<1>2. EndsIn(b, i, raw) /\ EndsIn(b, i, o)
  BY RawEnds, DurationEnds
<1>3. CASE d \in {"string", "byte", "slice_byte"}
  <2>1. Got(q, b, d, i) = [raw EXCEPT !.x = s]
    BY <1>3, NotNumbers DEF Got
  <2> HIDE DEF raw, s
  <2>2. EndsIn(b, i, [raw EXCEPT !.x = s])
    BY <1>2, EndsToo
  <2> QED
    BY <2>1, <2>2
<1>4. CASE d = "time_Time"
  BY <1>4, NotNumbers, TimeEnds DEF Got
<1>5. CASE d = "struct_message"
  <2>1. Got(q, b, d, i) = [raw EXCEPT !.x = ZeroTime]
    BY <1>5, NotNumbers DEF Got
  <2> HIDE DEF raw
  <2>2. EndsIn(b, i, [raw EXCEPT !.x = ZeroTime])
    BY <1>2, EndsToo
  <2> QED
    BY <2>1, <2>2
<1>6. CASE d = "time_Duration"
  <2>1. Got(q, b, d, i) = [o EXCEPT !.x = w]
    BY <1>6, NotNumbers DEF Got
  <2> HIDE DEF o, w
  <2>2. EndsIn(b, i, [o EXCEPT !.x = w])
    BY <1>2, EndsToo
  <2> QED
    BY <2>1, <2>2
<1> QED
  BY <1>1, <1>3, <1>4, <1>5, <1>6 DEF IsDecoder

LEMMA BlockEnds ==
  ASSUME NEW q, NEW d \in NumberKinds, q.valEnc \in Vals, NEW b \in Seq(Bytes), Len(b) < Word, NEW i \in Nat, i <= Len(b)
  PROVE  EndsIn(b, i, GotBlock(q, b, d, i))
<1> DEFINE n == DecodeVarint(b, i)
           fin == (n.index + n.x) % Word
           s == NumbersUpTo(q, b, d, n.index, fin)
           r == BlockOf(q, b, d, n)
<1>1. EndsIn(b, i, n) /\ n.x \in Nat
  BY VarintEnds, DecodeVarintNat
<1> HIDE DEF n
<1>2. n.index \in Nat /\ i <= n.index /\ n.index <= Len(b) /\ n.index \in Ahead(b, i) /\ Len(b) \in Nat
  BY <1>1 DEF EndsIn, Ahead
<1>3. fin \in Nat
  BY <1>1, <1>2, WireAssumption
<1>4. \/ r = n
      \/ r = Fail(Overflow, n.index)
      \/ r = Fail(EOF, n.index)
      \/ r = s
  BY DEF BlockOf
<1>5. EndsIn(b, i, s)
  <2> DEFINE j == n.index
  <2>1. j \in Nat /\ j <= Len(b)
    BY <1>2
  <2> HIDE DEF fin, j
  <2>2. PICK f : RunOf(q, b, d, j, fin, f)
    BY <1>3, <2>1, RunExists
  <2>3. j \in j..Len(b)
    BY <1>2, <2>1
  <2>4. NumbersUpTo(q, b, d, j, fin) = f[j] /\ f[j].index \in j..Len(b) /\ f[j] = [x |-> f[j].x, index |-> f[j].index, err |-> f[j].err]
    BY <2>2, <2>3 DEF RunOf
  <2> DEFINE g == f[j]
  <2> HIDE DEF g
  <2>5. g.index \in Ahead(b, j)
    BY <1>2, <2>1, <2>4 DEF Ahead, g
  <2>6. EndsIn(b, j, g)
    BY <2>4, <2>5 DEF EndsIn, g
  <2>7. EndsIn(b, i, g)
    BY <1>2, <2>6, Further DEF j
  <2> QED
    BY <2>4, <2>7 DEF j, g
<1> HIDE DEF fin, s, r
<1>6. EndsIn(b, i, r)
  <2>1. CASE r = Fail(Overflow, n.index)
    BY <1>2, <2>1 DEF EndsIn
  <2>2. CASE r = Fail(EOF, n.index)
    BY <1>2, <2>2 DEF EndsIn
  <2> QED
    BY <1>1, <1>4, <1>5, <2>1, <2>2
<1> QED
  BY <1>6 DEF GotBlock, r, n

Shapes == {"", "ptr", "slice", "array", "slice_packed", "array_packed", "slice_ptr", "array_ptr"}

\* the decoder of a field
HasDecoder(q) ==
  /\ q.dec[1] \in Shapes
  /\ q.dec[2] = "nothing" \/ IsDecoder(q, q.dec[2])
  /\ q.dec[2] = "byte" => q.dec[1] \in {"slice", "array"}
  /\ q.dec[1] \in {"slice_packed", "array_packed"} => q.dec[2] \in NumberKinds /\ q.valEnc \in Vals

LEMMA UnitDecodes ==
  ASSUME NEW q, NEW t, NEW e, NEW d, Unit(q, t, e, d)
  PROVE  IsDecoder(q, d)
<1>1. CASE IsNumber(q, t, e, d)
  BY <1>1, KindWords DEF IsNumber, IsDecoder
<1>2. CASE IsADuration(t, e, d)
  BY <1>2 DEF IsADuration, IsDecoder
<1>3. CASE IsString(t, e, d)
  BY <1>3 DEF IsString, IsDecoder
<1>4. CASE IsStruct(q, t, e, d)
  BY <1>4 DEF IsStruct, IsDecoder
<1> QED
  BY <1>1, <1>2, <1>3, <1>4 DEF Unit

LEMMA DecoderIs ==
  ASSUME NEW q, NEW s \in Shapes, NEW e, NEW d, Codec(q, s, e, d), d = "nothing" \/ IsDecoder(q, d),
         d = "byte" => s \in {"slice", "array"},
         s \in {"slice_packed", "array_packed"} => d \in NumberKinds /\ q.valEnc \in Vals
  PROVE  HasDecoder(q)
BY CodecParts DEF HasDecoder

LEMMA ListDecodes ==
  ASSUME NEW q, NEW kind \in {"slice", "array"}, NEW t, ListCodec(q, kind, t)
  PROVE  HasDecoder(q)
<1>0. kind \in Shapes /\ PackedShape(kind) \in Shapes /\ PtrShape(kind) \in Shapes /\ kind \notin {"slice_packed", "array_packed"}
      /\ PtrShape(kind) \notin {"slice_packed", "array_packed"}
  BY DEF Shapes, PackedShape, PtrShape
<1>00. \A d \in {"string", "byte", "slice_byte", "time_Time", "struct_message", "time_Duration"} : IsDecoder(q, d)
  BY DEF IsDecoder
<1>1. CASE BytesCodec(q, kind, t)
  <2>1. Codec(q, kind, "byte", "byte")
    BY <1>1 DEF BytesCodec
  <2> QED
    BY <1>0, <1>00, <2>1, DecoderIs
<1>2. CASE PackedCodec(q, kind, t)
  <2>1. PICK e, d : Codec(q, PackedShape(kind), e, d) /\ IsNumber(q, t, e, d)
    BY <1>2 DEF PackedCodec
  <2>2. d \in NumberKinds /\ q.valEnc \in Vals
    BY <2>1, KindWords DEF IsNumber
  <2>3. IsDecoder(q, d) /\ d # "byte"
    BY <2>2, NotNumbers DEF IsDecoder
  <2> QED
    BY <1>0, <2>1, <2>2, <2>3, DecoderIs
<1>3. CASE EachCodec(q, kind, t)
  <2>1. PICK e, d : Codec(q, kind, e, d) /\ d \in {"time_Duration", "string"}
    BY <1>3 DEF EachCodec, IsADuration, IsString
  <2>2. IsDecoder(q, d)
    BY <1>00, <2>1
  <2> QED
    BY <1>0, <2>1, <2>2, DecoderIs
<1>4. CASE ListsCodec(q, kind, t)
  <2>1. Codec(q, kind, "slice_byte", "slice_byte")
    BY <1>4 DEF ListsCodec
  <2> QED
    BY <1>0, <1>00, <2>1, DecoderIs
<1>5. CASE TimesCodec(q, kind, t)
  <2>1. Codec(q, kind, "struct_message", "struct_message") \/ Codec(q, PtrShape(kind), "struct_message", "struct_message")
    BY <1>5 DEF TimesCodec
  <2> QED
    BY <1>0, <1>00, <2>1, DecoderIs
<1> QED
  BY <1>1, <1>2, <1>3, <1>4, <1>5 DEF ListCodec

LEMMA FieldDecodes ==
  ASSUME NEW q, NEW t, FieldCodec(q, t)
  PROVE  HasDecoder(q)
<1>0. {"", "ptr"} \subseteq Shapes /\ "" \notin {"slice_packed", "array_packed"} /\ "ptr" \notin {"slice_packed", "array_packed"}
  BY DEF Shapes
<1>1. ASSUME NEW s \in {"", "ptr"}, NEW u, UnitCodec(q, s, u) PROVE HasDecoder(q)
  <2>1. PICK e, d : Codec(q, s, e, d) /\ Unit(q, u, e, d)
    BY <1>1 DEF UnitCodec
  <2>2. IsDecoder(q, d) /\ d # "byte"
    BY <2>1, UnitDecodes, UnitNames
  <2> QED
    BY <1>0, <2>1, <2>2, DecoderIs
<1>2. NoElements(q) => HasDecoder(q)
  BY <1>0, DecoderIs DEF NoElements
<1> QED
  BY <1>1, <1>2, ListDecodes DEF FieldCodec

\* Decoding ends in the message.
LEMMA DecEnds ==
  ASSUME NEW q, HasDecoder(q), NEW b \in Seq(Bytes), Len(b) < Word, NEW i \in Nat, i <= Len(b), NEW x
  PROVE  EndsIn(b, i, dec(q, b, i, x))
<1> DEFINE shape == q.dec[1]
           of == q.dec[2]
           g == IF shape \in {"slice_packed", "array_packed"} THEN GotBlock(q, b, of, i) ELSE Got(q, b, of, i)
           r == Became(q, g, x)
<1>1. CASE of = "nothing"
  <2> DEFINE s == dec(q, b, i, x)
  <2>1. s = [x |-> x, index |-> i, err |-> None]
    BY <1>1 DEF dec
  <2>2. i \in Ahead(b, i)
    BY DEF Ahead
  <2> HIDE DEF s
  <2>3. EndsIn(b, i, s)
    BY <2>1, <2>2 DEF EndsIn
  <2> QED
    BY <2>3 DEF s
<1>2. CASE of # "nothing"
  <2>1. EndsIn(b, i, g)
    <3>1. CASE shape \in {"slice_packed", "array_packed"}
      BY <3>1, BlockEnds DEF HasDecoder
    <3>2. CASE shape \notin {"slice_packed", "array_packed"}
      BY <1>2, <3>2, GotEnds DEF HasDecoder
    <3> QED
      BY <3>1, <3>2
  <2>2. dec(q, b, i, x) = r
    BY <1>2 DEF dec
  <2> HIDE DEF g
  <2>3. r = g \/ \E y : r = [g EXCEPT !.x = y]
    <3>1. shape \in Shapes /\ (of = "byte" => shape \in {"slice", "array"})
      BY DEF HasDecoder
    <3>2. CASE shape = ""
      <4>1. r = g
        BY <3>1, <3>2 DEF Became
      <4> QED
        BY <4>1
    <3>3. CASE shape = "ptr"
      <4>1. r = [g EXCEPT !.x = {@}]
        BY <3>1, <3>3 DEF Became
      <4> QED
        BY <4>1
    <3>4. CASE of = "byte"
      <4>1. r = [g EXCEPT !.x = IF shape = "array" THEN UpTo(q.length, @) ELSE @]
        BY <3>1, <3>4 DEF Became
      <4> QED
        BY <4>1
    <3>5. CASE shape = "slice_packed"
      <4>1. r = [g EXCEPT !.x = x \o @]
        BY <3>1, <3>5 DEF Became
      <4> QED
        BY <4>1
    <3>6. CASE shape = "array_packed"
      <4>1. r = [g EXCEPT !.x = UpTo(q.length, @)]
        BY <3>1, <3>6 DEF Became
      <4> QED
        BY <4>1
    <3>7. CASE of # "byte" /\ shape \in {"slice", "array"}
      <4>1. r = [g EXCEPT !.x = Merge(q, x, @)]
        BY <3>1, <3>7 DEF Became
      <4> QED
        BY <4>1
    <3>8. CASE shape \in {"slice_ptr", "array_ptr"}
      <4>1. r = [g EXCEPT !.x = Merge(q, x, {@})]
        BY <3>1, <3>8 DEF Became
      <4> QED
        BY <4>1
    <3> QED
      BY <3>1, <3>2, <3>3, <3>4, <3>5, <3>6, <3>7, <3>8 DEF Shapes
  <2> HIDE DEF r
  <2>4. EndsIn(b, i, r)
    <3>1. ASSUME NEW y, r = [g EXCEPT !.x = y] PROVE EndsIn(b, i, r)
      <4>1. EndsIn(b, i, [g EXCEPT !.x = y])
        BY <2>1, EndsToo
      <4> QED
        BY <3>1, <4>1
    <3> QED
      BY <2>1, <2>3, <3>1
  <2> QED
    BY <2>2, <2>4
<1> QED
  BY <1>1, <1>2

\* So does an item.
LEMMA ItemEnds ==
  ASSUME NEW q, HasDecoder(q), NEW b \in Seq(Bytes), Len(b) < Word, NEW i \in Nat, i <= Len(b), NEW x
  PROVE  EndsIn(b, i, ItemOf(q, b, DecodeVarint(b, i), x))
<1> DEFINE key == DecodeVarint(b, i)
           r == ItemOf(q, b, key, x)
           j == key.index
           s == skip(b, j, KeyWire(key.x))
           t == dec(q, b, j, x)
<1>1. EndsIn(b, i, key)
  BY VarintEnds
<1> HIDE DEF key
<1>2. j \in Nat /\ j <= Len(b) /\ j \in Ahead(b, i)
  BY <1>1 DEF EndsIn, Ahead
<1>3. EndsIn(b, i, s)
  <2>1. EndsIn(b, j, s)
    BY <1>2, SkipEnds
  <2> HIDE DEF s, j
  <2> QED
    BY <1>2, <2>1, Further
<1>4. EndsIn(b, i, t)
  <2>1. EndsIn(b, j, t)
    BY <1>2, DecEnds
  <2> HIDE DEF t, j
  <2> QED
    BY <1>2, <2>1, Further
<1>5. EndsIn(b, i, [s EXCEPT !.x = x])
  BY <1>3, EndsToo
<1>6. \/ r = [x |-> x, index |-> j, err |-> key.err]
      \/ r = [s EXCEPT !.x = x]
      \/ r = [x |-> x, index |-> j, err |-> BadWire]
      \/ r = t
  BY DEF ItemOf
<1> HIDE DEF r, s, t, j
<1>7. EndsIn(b, i, r)
  <2>1. CASE r = [x |-> x, index |-> j, err |-> key.err]
    BY <1>2, <2>1 DEF EndsIn
  <2>2. CASE r = [x |-> x, index |-> j, err |-> BadWire]
    BY <1>2, <2>2 DEF EndsIn
  <2> QED
    BY <1>4, <1>5, <1>6, <2>1, <2>2
<1> QED
  BY <1>7 DEF r, key

-----------------------------------------------------------------------------
(* time stamps *)

\* what the client encoded is still in the buffer, and what it read is what it encoded
StampKept ==
  phase \in {"stamped", "stamp read"} /\ call # "none" =>
    value \in Int64s /\ buf \in {EncodeTimestamp(value), EncodeNSecTimestamp(value)}

LEMMA StampKeptInvariant == Spec => []StampKept
<1>1. Init => StampKept
  BY DEF Init, StampKept
<1>2. StampKept /\ [Next]_vars => StampKept'
  <2> SUFFICES ASSUME StampKept, [Next]_vars PROVE StampKept'
    OBVIOUS
  <2>1. CASE Describe
    BY <2>1 DEF Describe, StampKept
  <2>2. CASE Write
    BY <2>2 DEF Write, StampKept
  <2>3. CASE ReadItem
    BY <2>3 DEF ReadItem, StampKept
  <2>4. CASE Stamp
    BY <2>4, StampsAssumption DEF Stamp, StampKept
  <2>5. CASE Receive
    BY <2>5 DEF Receive, StampKept
  <2>6. CASE ReadStamp
    <3>1. phase = "stamped" /\ UNCHANGED <<call, value, buf>>
      BY <2>6 DEF ReadStamp
    <3> QED
      BY <3>1 DEF StampKept
  <2>7. CASE Again
    BY <2>7 DEF Again, StampKept
  <2>8. CASE UNCHANGED vars
    BY <2>8 DEF vars, StampKept
  <2> QED
    BY <2>1, <2>2, <2>3, <2>4, <2>5, <2>6, <2>7, <2>8 DEF Next
<1> QED
  BY <1>1, <1>2, PTL DEF Spec

\* A time that is encoded in either way is the same time after it is decoded in either way.
THEOREM StampsComeBack == Spec => []StampComesBack
<1>1. Init => StampComesBack
  BY DEF Init, StampComesBack
<1>2. StampKept /\ StampComesBack /\ [Next]_vars => StampComesBack'
  <2> SUFFICES ASSUME StampKept, StampComesBack, [Next]_vars PROVE StampComesBack'
    OBVIOUS
  <2>1. CASE Describe
    BY <2>1 DEF Describe, StampComesBack
  <2>2. CASE Write
    BY <2>2 DEF Write, StampComesBack
  <2>3. CASE ReadItem
    BY <2>3 DEF ReadItem, StampComesBack
  <2>4. CASE Stamp
    BY <2>4 DEF Stamp, StampComesBack
  <2>5. CASE Receive
    BY <2>5 DEF Receive, StampComesBack
  <2>6. CASE ReadStamp
    <3>1. PICK with \in {"DecodeTimestamp", "DecodeNSecTimestamp"} :
            \E got \in {IF with = "DecodeTimestamp" THEN DecodeTimestamp(buf) ELSE DecodeNSecTimestamp(buf)} :
              /\ decoded' = [with |-> with, ns |-> got.ns]
              /\ err' = got.err
      BY <2>6 DEF ReadStamp
    <3>2. phase = "stamped" /\ UNCHANGED <<call, value, buf>>
      BY <2>6 DEF ReadStamp
    <3>3. SUFFICES ASSUME call # "none" PROVE err' = None /\ decoded'.ns = value'
      BY <3>2 DEF StampComesBack
    <3>4. DecodeTimestamp(buf) = [err |-> None, ns |-> value] /\ DecodeNSecTimestamp(buf) = [err |-> None, ns |-> value]
      BY <3>2, <3>3, StampReadsBack DEF StampKept
    <3> QED
      BY <3>1, <3>2, <3>4
  <2>7. CASE Again
    BY <2>7 DEF Again, StampComesBack
  <2>8. CASE UNCHANGED vars
    BY <2>8 DEF vars, StampComesBack
  <2> QED
    BY <2>1, <2>2, <2>3, <2>4, <2>5, <2>6, <2>7, <2>8 DEF Next
<1> QED
  BY <1>1, <1>2, StampKeptInvariant, PTL DEF Spec

-----------------------------------------------------------------------------
(* the struct and its field *)

\* a Go slice is not longer than an int can say
BufFits == Len(buf) < Word

LEMMA KeyWord ==
  ASSUME NEW tag \in Nat, NEW wire \in 0..7
  PROVE  (8 * tag + wire) % Word32 \in Nat /\ (8 * tag + wire) % Word32 < Word
<1>1. Word32 \in Nat /\ 0 < Word32 /\ Word32 < Word /\ Word \in Nat
  BY WireAssumption, Word32Assumption
<1>2. 8 * tag + wire \in Nat
  OBVIOUS
<1>3. \A y, u, v \in Nat : 0 < u /\ u < v => y % u \in Nat /\ y % u < v
  OBVIOUS
<1> QED
  BY <1>1, <1>2, <1>3

LEMMA CodableField ==
  ASSUME NEW f \in GoFields, p = init(f, {}), Codable
  PROVE  /\ FieldCodec(p, f.type) /\ OnlyTimes(p)
         /\ p.tagcode = EncodeVarint((8 * p.tag + p.wire) % Word32) /\ p.tagcode \in Seq(Bytes) /\ Len(p.tagcode) >= 1
         /\ p.tag \in Nat /\ p.wire \in 0..7
<1> DEFINE r == init(f, {})
<1>1. f.tag.id \in Int
  BY ValuesAssumption
<1>2. ~r.skip /\ Simple(r) => Described(r) /\ (IsMap(r) \/ FieldCodec(r, f.type))
  BY <1>1, FieldDescribed
<1> HIDE DEF r
<1>3. p = r
  BY DEF r
<1>4. ~p.skip /\ Simple(p) /\ ~IsMap(p) /\ p.err = None
  BY DEF Codable, Simple, IsMap
<1>5. Described(p) /\ FieldCodec(p, f.type)
  BY <1>2, <1>3, <1>4
<1> DEFINE x == (8 * p.tag + p.wire) % Word32
<1>6. p.tag \in Nat /\ p.wire \in 0..7
  BY <1>5, WireAssumption, Word32Assumption DEF Described, WireVarint, WireFixed64, WireBytes, WireFixed32
<1>7. x \in Nat /\ x < Word
  BY <1>6, KeyWord
<1>8. p.tagcode = EncodeVarint(x)
  BY <1>4, <1>5 DEF Described
<1> HIDE DEF x
<1>9. EncodeVarint(x) \in Seq(Bytes) /\ Len(EncodeVarint(x)) >= 1
  <2>1. EncodeVarint(x) \in Seq(Bytes) /\ Len(EncodeVarint(x)) = SizeVarint(x) /\ SizeVarint(x) \in 1..VarintLen
    BY <1>7, VarintSizes
  <2> QED
    BY <2>1
<1>10. OnlyTimes(p)
  BY DEF Codable, OnlyTimes
<1> QED
  BY <1>5, <1>6, <1>8, <1>9, <1>10 DEF x

\* The tag code of every field is bytes.
LEMMA TagCodes ==
  ASSUME NEW f \in GoFields
  PROVE  LET r == init(f, {}) IN
         /\ r.tagcode # <<>> => r.err = None /\ r.tag \in 0..(Word32 - 1) /\ r.enc # <<>> /\ r.tagcode \in Seq(Bytes)
         /\ r.enc # <<>> => r.enc[1] = r.dec[1]
<1> DEFINE r == init(f, {})
           x == (8 * r.tag + r.wire) % Word32
<1>1. f.tag.id \in Int
  BY ValuesAssumption
<1>2. /\ r.tag \in 0..(Word32 - 1) /\ (r.enc # <<>> => r.enc[1] = r.dec[1])
      /\ r.wire \in {WireVarint, WireFixed64, WireBytes, WireFixed32}
      /\ r.tagcode # <<>> => r.err = None /\ r.enc # <<>> /\ r.tagcode = EncodeVarint(x)
  BY <1>1, FieldDescribed
<1> HIDE DEF r
<1>3. r.tag \in Nat /\ r.wire \in 0..7
  BY <1>2, WireAssumption, Word32Assumption DEF WireVarint, WireFixed64, WireBytes, WireFixed32
<1>4. x \in Nat /\ x < Word
  BY <1>3, KeyWord
<1> HIDE DEF x
<1>5. EncodeVarint(x) \in Seq(Bytes)
  BY <1>4, VarintSizes
<1> QED
  BY <1>2, <1>5 DEF r, x

-----------------------------------------------------------------------------
(* types *)

Phases == {"start", "described", "written", "reading", "stamped", "stamp read"}
Coded  == phase \in {"written", "reading"}

\* what TypeOK rests on: where the properties, the value and the message come from
Kept ==
  /\ phase \in Phases /\ buf \in Seq(Bytes) /\ index \in 0..Len(buf)
  /\ Coded \/ phase = "described" => field \in GoFields /\ p = init(field, {})
  /\ ~(Coded \/ phase = "described") => p = NoProperties
  /\ Coded => Codable /\ value \in ValuesOf(field.type) /\ buf = enc(p, value)
  /\ ~Coded => call # "Marshal" /\ index = 0
  /\ phase \in {"start", "described", "written"} => err = None
  /\ err # None => buf # <<>>

LEMMA KeptTypes == Kept => TypeOK
<1> SUFFICES ASSUME Kept PROVE TypeOK
  OBVIOUS
<1>1. /\ p.tagcode # <<>> => p.err = None /\ p.tag \in 0..(Word32 - 1) /\ p.enc # <<>> /\ p.tagcode \in Seq(Bytes)
      /\ p.enc # <<>> => p.enc[1] = p.dec[1]
  <2>1. CASE Coded \/ phase = "described"
    <3>1. field \in GoFields /\ p = init(field, {})
      BY <2>1 DEF Kept
    <3> QED
      BY <3>1, TagCodes
  <2>2. CASE ~(Coded \/ phase = "described")
    BY <2>2 DEF Kept, NoProperties
  <2> QED
    BY <2>1, <2>2
<1> QED
  BY <1>1 DEF Kept, TypeOK, Phases

\* a client's empty message has no time, and no error
LEMMA NothingReceived == DecodeTimestamp(<<>>).err = None /\ DecodeNSecTimestamp(<<>>).err = None
<1> DEFINE b == <<>>
           at == <<0, 0, 0>>
<1>1. b \in Seq(Bytes) /\ Len(b) = 0
  OBVIOUS
<1>2. PICK f : IsLoop(b, f) /\ Parts(b) = f[at]
  BY <1>1, PartsLoop
<1>3. at \in Places(b) /\ at[1] = 0
  BY <1>1, WireAssumption DEF Places, Words
<1> HIDE DEF b, at
<1>4. f[at] = PartsFrom(b, f, at)
  BY <1>2, <1>3 DEF IsLoop
<1>5. Parts(b).err = None
  BY <1>1, <1>2, <1>3, <1>4 DEF PartsFrom
<1>6. DecodeTimestamp(b).err = None
  BY <1>5 DEF DecodeTimestamp, TimeOf
<1>7. DecodeNSecTimestamp(b).err = None
  <2> DEFINE r == DecodeTimestamp(b)
  <2>1. r = [err |-> r.err, ns |-> r.ns]
    BY DEF DecodeTimestamp, TimeOf
  <2>2. DecodeNSecTimestamp(b) = [r EXCEPT !.ns = Int64(@ % Word)]
    BY DEF DecodeNSecTimestamp
  <2>3. r.err = None
    BY <1>6
  <2> HIDE DEF r
  <2> QED
    BY <2>1, <2>2, <2>3
<1> QED
  BY <1>6, <1>7 DEF b

LEMMA KeptInit == Init => Kept
BY WireAssumption DEF Init, Kept, Coded, Phases, NoProperties

LEMMA KeptNext == Kept /\ BufFits /\ [Next]_vars => Kept'
<1> SUFFICES ASSUME Kept, BufFits, [Next]_vars PROVE Kept'
  OBVIOUS
<1> USE DEF Coded
<1>1. CASE Describe
  <2>1. PICK f \in GoFields : field' = f /\ p' = init(f, {})
    BY <1>1 DEF Describe
  <2>2. phase = "start" /\ phase' = "described" /\ UNCHANGED <<call, value, buf, index, decoded, err>>
    BY <1>1 DEF Describe
  <2> QED
    BY <2>1, <2>2 DEF Kept, Phases
<1>2. CASE Write
  <2>1. /\ phase = "described" /\ Codable /\ UNCHANGED <<field, p, err>>
        /\ phase' = "written" /\ value' \in ValuesOf(field.type) /\ buf' = enc(p, value') /\ index' = 0
    BY <1>2 DEF Write
  <2>2. field \in GoFields /\ p = init(field, {}) /\ err = None
    BY <2>1 DEF Kept
  <2>3. FieldCodec(p, field.type) /\ OnlyTimes(p) /\ p.tagcode \in Seq(Bytes)
    BY <2>1, <2>2, CodableField
  <2>4. IsValue(field.type, value')
    BY <2>1, <2>2, ValuesAssumption
  <2>5. buf' \in Seq(Bytes)
    BY <2>1, <2>3, <2>4, FieldBytes
  <2>6. Codable'
    BY <2>1 DEF Codable
  <2>7. 0 \in 0..Len(buf')
    BY <2>5
  <2> QED
    BY <2>1, <2>2, <2>5, <2>6, <2>7 DEF Kept, Phases
<1>3. CASE ReadItem
  <2> DEFINE got == ItemOf(p, buf, DecodeVarint(buf, index), decoded)
  <2>1. /\ Coded /\ err = None /\ index < Len(buf) /\ UNCHANGED <<call, field, p, value, buf>>
        /\ phase' = "reading" /\ index' = got.index
    BY <1>3 DEF ReadItem
  <2>2. field \in GoFields /\ p = init(field, {}) /\ Codable /\ value \in ValuesOf(field.type) /\ buf = enc(p, value)
        /\ buf \in Seq(Bytes) /\ index \in 0..Len(buf)
    BY <2>1 DEF Kept
  <2>3. HasDecoder(p)
    <3>1. FieldCodec(p, field.type)
      BY <2>2, CodableField
    <3> QED
      BY <3>1, FieldDecodes
  <2>4. EndsIn(buf, index, got)
    BY <2>2, <2>3, ItemEnds DEF BufFits
  <2> HIDE DEF got
  <2>5. index' \in 0..Len(buf')
    BY <2>1, <2>2, <2>4 DEF EndsIn, Ahead
  <2>6. Codable'
    BY <2>1, <2>2 DEF Codable
  <2>7. buf # <<>>
    BY <2>1, <2>2
  <2> QED
    BY <2>1, <2>2, <2>5, <2>6, <2>7 DEF Kept, Phases
<1>4. CASE Stamp
  <2>1. /\ phase = "start" /\ phase' = "stamped" /\ UNCHANGED <<field, p, index, decoded, err>>
        /\ value' \in Stamps /\ call' \in {"EncodeTimestamp", "EncodeNSecTimestamp"}
        /\ buf' \in {EncodeTimestamp(value'), EncodeNSecTimestamp(value')}
    BY <1>4 DEF Stamp
  <2>2. value' \in Int64s
    BY <2>1, StampsAssumption
  <2>3. buf' \in Seq(Bytes)
    BY <2>1, <2>2, StampReadsBack
  <2>4. 0 \in 0..Len(buf')
    BY <2>3
  <2> QED
    BY <2>1, <2>3, <2>4 DEF Kept, Phases
<1>5. CASE Receive
  <2>1. /\ phase = "start" /\ phase' = "stamped" /\ UNCHANGED <<field, p, value, index, decoded, err>>
        /\ buf' \in Seq(Bytes) /\ call' = "none"
    BY <1>5, StampsAssumption DEF Receive
  <2>2. 0 \in 0..Len(buf')
    BY <2>1
  <2> QED
    BY <2>1, <2>2 DEF Kept, Phases
<1>6. CASE ReadStamp
  <2>1. /\ phase = "stamped" /\ phase' = "stamp read" /\ UNCHANGED <<call, field, p, value, buf, index>>
        /\ err' = DecodeTimestamp(buf).err \/ err' = DecodeNSecTimestamp(buf).err
    BY <1>6 DEF ReadStamp
  <2>2. err' # None => buf' # <<>>
    BY <2>1, NothingReceived
  <2> QED
    BY <2>1, <2>2 DEF Kept, Phases
<1>7. CASE Again
  <2>1. /\ phase' = "start" /\ call' = "none" /\ p' = NoProperties /\ buf' = <<>> /\ index' = 0 /\ err' = None
    BY <1>7 DEF Again
  <2>2. <<>> \in Seq(Bytes) /\ 0 \in 0..Len(<<>>)
    OBVIOUS
  <2> QED
    BY <2>1, <2>2 DEF Kept, Phases
<1>8. CASE UNCHANGED vars
  BY <1>8 DEF vars, Kept, Codable
<1> QED
  BY <1>1, <1>2, <1>3, <1>4, <1>5, <1>6, <1>7, <1>8 DEF Next

\* As long as messages fit in memory, the properties, the message and how much of it is decoded are
\* as TypeOK says.
THEOREM TypeCorrect == Spec /\ []BufFits => []TypeOK
<1>1. Kept /\ BufFits /\ [Next]_vars => Kept'
  BY KeptNext
<1> QED
  BY <1>1, KeptInit, KeptTypes, PTL DEF Spec

-----------------------------------------------------------------------------
(* one item after another *)

\* the items w that x is written as, and what comes from each on
Items(q, w) == [j \in 1..Len(w) |-> q.tagcode \o w[j]]

\* all items before the k-th have been read: what remains are the others
ReadTo(q, x, b, i, d, w, a, r, k) ==
  /\ Told(q, x, w, a) /\ Suffixes(Bytes, Items(q, w), r)
  /\ k \in 1..(Len(w) + 1) /\ d = a[k]
  /\ StandsAt(b, i, r[k]) /\ i + Len(r[k]) = Len(b)

ReadSoFar(q, x, b, i, d) == \E w, a, r, k : ReadTo(q, x, b, i, d, w, a, r, k)

LEMMA ItemsAre ==
  ASSUME NEW q, q.tagcode \in Seq(Bytes), NEW w \in Seq(Seq(Bytes))
  PROVE  /\ Items(q, w) \in Seq(Seq(Bytes)) /\ Len(Items(q, w)) = Len(w) /\ Len(w) \in Nat
         /\ \A k \in 1..Len(w) : w[k] \in Seq(Bytes) /\ Items(q, w)[k] = q.tagcode \o w[k]
<1> DEFINE c == q.tagcode
           n == Len(w)
<1>1. c \in Seq(Bytes) /\ n \in Nat
  OBVIOUS
<1> HIDE DEF c
<1>2. \A k \in 1..n : w[k] \in Seq(Bytes) /\ c \o w[k] \in Seq(Bytes)
  BY <1>1
<1> DEFINE s == [j \in 1..n |-> c \o w[j]]
<1> HIDE DEF n
<1>3. s \in [1..n -> Seq(Bytes)]
  BY <1>2
<1>4. s \in Seq(Seq(Bytes)) /\ Len(s) = n
  BY <1>1, <1>3
<1>5. Items(q, w) = s
  BY DEF Items, c, n
<1> QED
  BY <1>1, <1>2, <1>4, <1>5 DEF c, n

LEMMA NothingReadYet ==
  ASSUME NEW q, q.tagcode \in Seq(Bytes), NEW x, enc(q, x) \in Seq(Bytes), NEW w, NEW a, Told(q, x, w, a)
  PROVE  ReadSoFar(q, x, enc(q, x), 0, Zero(q))
<1>1. w \in Seq(Seq(Bytes)) /\ enc(q, x) = Concat(Items(q, w)) /\ a[1] = Zero(q)
  BY DEF Told, Items
<1>2. Items(q, w) \in Seq(Seq(Bytes)) /\ Len(Items(q, w)) = Len(w) /\ Len(w) \in Nat
  BY <1>1, ItemsAre
<1>3. PICK r : Suffixes(Bytes, Items(q, w), r)
  BY <1>2, ConcatSuffixes
<1> DEFINE b == enc(q, x)
<1>4. r[1] = b
  BY <1>1, <1>3 DEF Suffixes
<1>5. b \in Seq(Bytes)
  OBVIOUS
<1> HIDE DEF b
<1>6. StandsAt(b, 0, b) /\ 0 + Len(b) = Len(b)
  BY <1>5, StandsAlone
<1>7. ReadTo(q, x, b, 0, Zero(q), w, a, r, 1)
  BY <1>1, <1>2, <1>3, <1>4, <1>6 DEF ReadTo
<1> QED
  BY <1>7 DEF ReadSoFar, b

IsKeyAt(b, i, tag, wire) ==
  LET key == DecodeVarint(b, i)
  IN  /\ key.err = None /\ KeyId(key.x) = tag /\ KeyWire(key.x) = wire
      /\ key.index = i + Len(EncodeVarint((8 * tag + wire) % Word32))

LEMMA KeyRead ==
  ASSUME NEW b \in Seq(Bytes), NEW i \in Nat
  PROVE  \A tag \in Nat, wire \in 0..7 :
           tag < Word32 \div 8 /\ StandsAt(b, i, EncodeVarint((8 * tag + wire) % Word32)) => IsKeyAt(b, i, tag, wire)
<1> SUFFICES ASSUME NEW tag \in Nat, NEW wire \in 0..7, tag < Word32 \div 8,
                    StandsAt(b, i, EncodeVarint((8 * tag + wire) % Word32))
             PROVE  IsKeyAt(b, i, tag, wire)
  OBVIOUS
<1> QED
  BY KeyBack DEF IsKeyAt

\* The next item is read, and the one after it is next.
LEMMA NextRead ==
  ASSUME NEW q, q.tag \in Nat, q.tag < Word32 \div 8, q.wire \in 0..7,
         q.tagcode = EncodeVarint((8 * q.tag + q.wire) % Word32), q.tagcode \in Seq(Bytes), Len(q.tagcode) >= 1,
         NEW x, NEW b \in Seq(Bytes), Len(b) < Word, NEW i \in Nat, i < Len(b), NEW d, ReadSoFar(q, x, b, i, d)
  PROVE  LET got == ItemOf(q, b, DecodeVarint(b, i), d)
         IN  got.err = None /\ ReadSoFar(q, x, b, got.index, got.x)
<1>1. PICK w, a, r, k : ReadTo(q, x, b, i, d, w, a, r, k)
  BY DEF ReadSoFar
<1>2. /\ Told(q, x, w, a) /\ Suffixes(Bytes, Items(q, w), r)
      /\ k \in 1..(Len(w) + 1) /\ d = a[k] /\ StandsAt(b, i, r[k]) /\ i + Len(r[k]) = Len(b)
  BY <1>1 DEF ReadTo
<1>3. w \in Seq(Seq(Bytes)) /\ \A j \in 1..Len(w) : ReadsAs(q, w[j], a[j], a[j + 1])
  BY <1>2 DEF Told
<1>4. /\ Len(Items(q, w)) = Len(w) /\ Len(w) \in Nat
      /\ \A j \in 1..Len(w) : w[j] \in Seq(Bytes) /\ Items(q, w)[j] = q.tagcode \o w[j]
  BY <1>3, ItemsAre
<1>5. /\ r \in [1..(Len(w) + 1) -> Seq(Bytes)] /\ r[Len(w) + 1] = <<>>
      /\ \A j \in 1..Len(w) : r[j] = Items(q, w)[j] \o r[j + 1]
  BY <1>2, <1>4 DEF Suffixes
<1>6. k \in 1..Len(w) /\ k + 1 \in 1..(Len(w) + 1)
  <2>1. k # Len(w) + 1
    <3>1. ASSUME k = Len(w) + 1 PROVE FALSE
      <4>1. r[k] = <<>>
        BY <1>5, <3>1
      <4> QED
        BY <1>2, <4>1
    <3> QED
      BY <3>1
  <2> QED
    BY <1>2, <1>4, <2>1
<1> DEFINE c == q.tagcode
           v == w[k]
           s == r[k + 1]
<1>7. c \in Seq(Bytes) /\ v \in Seq(Bytes) /\ s \in Seq(Bytes) /\ r[k] = (c \o v) \o s
  BY <1>4, <1>5, <1>6
<1>8. ReadsAs(q, v, d, a[k + 1])
  BY <1>2, <1>3, <1>6
<1>9. StandsAt(b, i, (c \o v) \o s) /\ i + Len((c \o v) \o s) = Len(b)
  BY <1>2, <1>7
<1>10. c = EncodeVarint((8 * q.tag + q.wire) % Word32)
  OBVIOUS
<1> HIDE DEF c, v, s
<1>11. c \o v \in Seq(Bytes) /\ Len(c \o v) = Len(c) + Len(v) /\ Len(c) \in Nat /\ Len(v) \in Nat
  BY <1>7, Joined
<1>12. Len((c \o v) \o s) = Len(c \o v) + Len(s) /\ Len(s) \in Nat
  BY <1>7, <1>11, Joined
<1>13. StandsAt(b, i, c \o v) /\ StandsAt(b, i + Len(c \o v), s)
  BY <1>7, <1>9, <1>11, StandsApart
<1>14. StandsAt(b, i, c) /\ StandsAt(b, i + Len(c), v) /\ i + Len(c) \in Nat
  BY <1>7, <1>13, StandsApart
<1> DEFINE key == DecodeVarint(b, i)
           got == ItemOf(q, b, key, d)
           j == i + Len(c)
<1>15. key.err = None /\ KeyId(key.x) = q.tag /\ KeyWire(key.x) = q.wire /\ key.index = j
  <2>1. StandsAt(b, i, EncodeVarint((8 * q.tag + q.wire) % Word32))
    BY <1>10, <1>14
  <2>2. IsKeyAt(b, i, q.tag, q.wire)
    BY <2>1, KeyRead
  <2> QED
    BY <1>10, <2>2 DEF IsKeyAt
<1>16. dec(q, b, j, d) = Read(a[k + 1], j + Len(v))
  BY <1>8, <1>14 DEF ReadsAs
<1> HIDE DEF key, j
<1>17. got = dec(q, b, j, d)
  BY <1>15 DEF ItemOf
<1> HIDE DEF got
<1>18. got.err = None /\ got.x = a[k + 1] /\ got.index = j + Len(v)
  BY <1>16, <1>17
<1>19. got.index = i + Len(c \o v) /\ got.index + Len(s) = Len(b)
  BY <1>9, <1>11, <1>12, <1>18 DEF j
<1>20. ReadTo(q, x, b, got.index, got.x, w, a, r, k + 1)
  BY <1>2, <1>6, <1>13, <1>18, <1>19 DEF ReadTo, s
<1> QED
  BY <1>18, <1>20 DEF ReadSoFar, got, key

\* Where no item is left, the field is what was written.
LEMMA AllRead ==
  ASSUME NEW q, q.tagcode \in Seq(Bytes), Len(q.tagcode) >= 1, NEW x, NEW b \in Seq(Bytes), NEW d, ReadSoFar(q, x, b, Len(b), d)
  PROVE  Filled(q, d) = Wanted(q, x)
<1>1. PICK w, a, r, k : ReadTo(q, x, b, Len(b), d, w, a, r, k)
  BY DEF ReadSoFar
<1>2. /\ Told(q, x, w, a) /\ Suffixes(Bytes, Items(q, w), r)
      /\ k \in 1..(Len(w) + 1) /\ d = a[k] /\ Len(b) + Len(r[k]) = Len(b)
  BY <1>1 DEF ReadTo
<1>3. w \in Seq(Seq(Bytes)) /\ Filled(q, a[Len(w) + 1]) = Wanted(q, x)
  BY <1>2 DEF Told
<1>4. /\ Len(Items(q, w)) = Len(w) /\ Len(w) \in Nat
      /\ \A j \in 1..Len(w) : w[j] \in Seq(Bytes) /\ Items(q, w)[j] = q.tagcode \o w[j]
  BY <1>3, ItemsAre
<1>5. r \in [1..(Len(w) + 1) -> Seq(Bytes)] /\ \A j \in 1..Len(w) : r[j] = Items(q, w)[j] \o r[j + 1]
  BY <1>2, <1>4 DEF Suffixes
<1>6. ASSUME k \in 1..Len(w) PROVE FALSE
  <2> DEFINE c == q.tagcode
             v == w[k]
             s == r[k + 1]
  <2>1. k + 1 \in 1..(Len(w) + 1)
    BY <1>4, <1>6
  <2>2. c \in Seq(Bytes) /\ v \in Seq(Bytes) /\ s \in Seq(Bytes) /\ r[k] = (c \o v) \o s /\ Len(c) >= 1
    BY <1>4, <1>5, <1>6, <2>1
  <2> HIDE DEF c, v, s
  <2>3. Len(r[k]) >= 1 /\ Len(r[k]) \in Nat
    BY <2>2
  <2> QED
    BY <1>2, <2>3
<1> QED
  BY <1>2, <1>3, <1>4, <1>6

-----------------------------------------------------------------------------
(* what was written comes back *)

\* what ComesBack asks of the field and its value
Lossless == KeyFits /\ Sound(p) /\ AllSurvive(p, field.type, value)

\* all items up to the index have been read, and each is one that was written
OnTheWay ==
  Coded => /\ call = "Marshal"
           /\ Lossless => err = None /\ ReadSoFar(p, value, buf, index, decoded)

LEMMA OnTheWayInit == Init => OnTheWay
BY DEF Init, OnTheWay, Coded

LEMMA LosslessStays == ASSUME UNCHANGED <<field, p, value>> PROVE Lossless' = Lossless
BY DEF Lossless, KeyFits, Sound, AllSurvive, ElementsOf, KindOf, IsSingle

LEMMA OnTheWayNext == Kept /\ BufFits /\ OnTheWay /\ [Next]_vars => OnTheWay'
<1> SUFFICES ASSUME Kept, BufFits, OnTheWay, [Next]_vars PROVE OnTheWay'
  OBVIOUS
<1>1. ASSUME phase' \notin {"written", "reading"} PROVE OnTheWay'
  BY <1>1 DEF OnTheWay, Coded
<1>2. CASE Write
  <2>1. /\ phase = "described" /\ Codable /\ UNCHANGED <<field, p, err>>
        /\ value' \in ValuesOf(field.type) /\ buf' = enc(p, value') /\ index' = 0 /\ decoded' = Zero(p) /\ call' = "Marshal"
    BY <1>2 DEF Write
  <2>2. field \in GoFields /\ p = init(field, {}) /\ err = None
    BY <2>1 DEF Kept, Coded
  <2>3. FieldCodec(p, field.type) /\ OnlyTimes(p) /\ p.tagcode \in Seq(Bytes)
    BY <2>1, <2>2, CodableField
  <2>4. IsValue(field.type, value')
    BY <2>1, <2>2, ValuesAssumption
  <2>5. enc(p, value') \in Seq(Bytes)
    BY <2>3, <2>4, FieldBytes
  <2>6. ASSUME Lossless' PROVE ReadSoFar(p, value, buf, index, decoded)'
    <3>1. Sound(p) /\ AllSurvive(p, field.type, value')
      BY <2>1, <2>6 DEF Lossless
    <3>2. PICK w, a : Told(p, value', w, a)
      BY <2>3, <2>4, <3>1, FieldTold
    <3>3. ReadSoFar(p, value', enc(p, value'), 0, Zero(p))
      BY <2>3, <2>5, <3>2, NothingReadYet
    <3> QED
      BY <2>1, <3>3
  <2> QED
    BY <2>1, <2>2, <2>6 DEF OnTheWay
<1>3. CASE ReadItem
  <2> DEFINE got == ItemOf(p, buf, DecodeVarint(buf, index), decoded)
  <2>1. /\ Coded /\ index < Len(buf) /\ UNCHANGED <<call, field, p, value, buf>>
        /\ decoded' = (IF got.err = None THEN got.x ELSE decoded) /\ index' = got.index /\ err' = got.err
    BY <1>3 DEF ReadItem, Coded
  <2>2. field \in GoFields /\ p = init(field, {}) /\ Codable /\ buf \in Seq(Bytes) /\ index \in 0..Len(buf)
    BY <2>1 DEF Kept
  <2>3. /\ p.tagcode = EncodeVarint((8 * p.tag + p.wire) % Word32) /\ p.tagcode \in Seq(Bytes) /\ Len(p.tagcode) >= 1
        /\ p.tag \in Nat /\ p.wire \in 0..7
    BY <2>2, CodableField
  <2>4. ASSUME Lossless PROVE got.err = None /\ ReadSoFar(p, value, buf, got.index, got.x)
    <3>1. ReadSoFar(p, value, buf, index, decoded) /\ p.tag < Word32 \div 8
      BY <2>1, <2>4 DEF OnTheWay, Lossless, KeyFits
    <3>2. index \in Nat /\ Len(buf) < Word
      BY <2>2 DEF BufFits
    <3> QED
      BY <2>1, <2>2, <2>3, <3>1, <3>2, NextRead
  <2>5. Lossless' = Lossless
    BY <2>1, LosslessStays
  <2> HIDE DEF got
  <2> QED
    BY <2>1, <2>4, <2>5 DEF OnTheWay
<1>4. CASE Describe
  BY <1>1, <1>4 DEF Describe
<1>5. CASE Stamp
  BY <1>1, <1>5 DEF Stamp
<1>6. CASE Receive
  BY <1>1, <1>6 DEF Receive
<1>7. CASE ReadStamp
  BY <1>1, <1>7 DEF ReadStamp
<1>8. CASE Again
  BY <1>1, <1>8 DEF Again
<1>9. CASE UNCHANGED vars
  <2>1. UNCHANGED <<phase, call, field, p, value, buf, index, decoded, err>>
    BY <1>9 DEF vars
  <2>2. Lossless' = Lossless
    BY <2>1, LosslessStays
  <2> QED
    BY <2>1, <2>2 DEF OnTheWay, Coded
<1> QED
  BY <1>2, <1>3, <1>4, <1>5, <1>6, <1>7, <1>8, <1>9 DEF Next

\* In the end nothing is left of the message, and all items have been read.
LEMMA OnTheWayBack == Kept /\ OnTheWay => ComesBack
<1> SUFFICES ASSUME Kept, OnTheWay,
                    Wired, KeyFits, ~FixedBools, ~ManyTimes, InNumbers => \A u \in Elements : Survives(p.valEnc, Kind, u)
             PROVE  err = None /\ Filled(p, decoded) = IF p.enc = <<"ptr", "time_Duration">> /\ value = {0} THEN {} ELSE value
  BY DEF ComesBack
<1>1. Coded /\ (err # None \/ index = Len(buf))
  BY DEF Wired, Done, Coded
<1>2. field \in GoFields /\ p = init(field, {}) /\ Codable /\ buf \in Seq(Bytes)
  BY <1>1 DEF Kept
<1>3. p.tagcode \in Seq(Bytes) /\ Len(p.tagcode) >= 1
  BY <1>2, CodableField
<1>4. Sound(p)
  BY DEF Sound, FixedSize, FixedBools, ManyTimes
<1>5. AllSurvive(p, field.type, value)
  <2>1. Elements = ElementsOf(field.type, value) /\ Kind = KindOf(field.type)
    BY DEF Elements, ElementsOf, Kind, KindOf, Single, IsSingle, ElemOf
  <2>2. InNumbers <=> p.enc[2] \in NumberKinds \cup {"time_Duration"}
    BY DEF InNumbers
  <2> QED
    BY <2>1, <2>2 DEF AllSurvive
<1>6. err = None /\ ReadSoFar(p, value, buf, index, decoded)
  BY <1>1, <1>4, <1>5 DEF OnTheWay, Lossless
<1>7. ReadSoFar(p, value, buf, Len(buf), decoded)
  BY <1>1, <1>6
<1>8. Filled(p, decoded) = Wanted(p, value)
  BY <1>2, <1>3, <1>7, AllRead
<1> QED
  BY <1>6, <1>8 DEF Wanted

\* What Marshal writes of a field, Unmarshal reads back into a new struct: for every kind of field that
\* a tag can describe, every value that fits in its encoding, and numbers, words and keys of any size.
THEOREM FieldsComeBack == Spec /\ []BufFits => []ComesBack
<1>1. Init => Kept /\ OnTheWay
  BY KeptInit, OnTheWayInit
<1>2. Kept /\ OnTheWay /\ BufFits /\ [Next]_vars => Kept' /\ OnTheWay'
  BY KeptNext, OnTheWayNext
<1>3. Kept /\ OnTheWay => ComesBack
  BY OnTheWayBack
<1> QED
  BY <1>1, <1>2, <1>3, PTL DEF Spec
=================================================================================
