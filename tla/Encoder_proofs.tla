----------------------------- MODULE Encoder_proofs -----------------------------
(***************************************************************************)
(* Proofs about Encoder, for words and varints of any length and any room  *)
(* reserved: enc_len_thing leaves the tag, the length and the content of a *)
(* message.                                                                *)
(* For all types and values: the errors that come up in a value, at any    *)
(* depth, are the errors of the fields that are left to be encoded, so none*)
(* is lost; what is written are bytes, and open messages lie in each other.*)
(***************************************************************************)
EXTENDS Encoder, Wire_proofs, SequenceTheorems, FiniteSetTheorems

-----------------------------------------------------------------------------
(* enc_len_thing *)

LEMMA OverwriteFacts ==
  ASSUME NEW S, NEW b \in Seq(S), NEW s \in Seq(S), NEW at \in Nat, at + Len(s) <= Len(b)
  PROVE  LET o == Overwrite(b, at, s)
         IN  /\ o \in Seq(S) /\ Len(o) = Len(b)
             /\ \A k \in 1..Len(b) : o[k] = IF k \in (at + 1)..(at + Len(s)) THEN s[k - at] ELSE b[k]
<1> DEFINE v(k) == IF k \in (at + 1)..(at + Len(s)) THEN s[k - at] ELSE b[k]
<1>1. Len(b) \in Nat /\ Len(s) \in Nat
  OBVIOUS
<1>2. ASSUME NEW k \in 1..Len(b) PROVE v(k) \in S
  <2>1. CASE k \in (at + 1)..(at + Len(s))
    <3>1. k - at \in 1..Len(s)
      BY <1>1, <2>1
    <3> QED
      BY <2>1, <3>1
  <2>2. CASE k \notin (at + 1)..(at + Len(s))
    BY <2>2
  <2> QED
    BY <2>1, <2>2
<1>3. Overwrite(b, at, s) = [k \in 1..Len(b) |-> v(k)]
  BY DEF Overwrite
<1> HIDE DEF v
<1>4. /\ Overwrite(b, at, s) \in Seq(S) /\ Len(Overwrite(b, at, s)) = Len(b)
      /\ \A k \in 1..Len(b) : Overwrite(b, at, s)[k] = v(k)
  BY <1>1, <1>2, <1>3
<1> QED
  BY <1>4 DEF v

\* Whatever room enc_len_thing has reserved, more or less than it turns out to need: it leaves what was
\* before the room, then the length of the message, then the message, and nothing else.
THEOREM LengthPutRight ==
  ASSUME NEW b \in Seq(Bytes), NEW iLen \in Nat, NEW iMsg \in Nat, iLen <= iMsg, iMsg <= Len(b),
         Len(b) - iMsg < Word
  PROVE  LET message == SubSeq(b, iMsg + 1, Len(b))
         IN  WithLength(b, iLen, iMsg) = SubSeq(b, 1, iLen) \o EncodeVarint(Len(message)) \o message
<1> DEFINE lMsg == Len(b) - iMsg
           message == SubSeq(b, iMsg + 1, Len(b))
           length == EncodeVarint(lMsg)
           lLen == SizeVarint(lMsg)
           more == [k \in 1..VarintLen |-> 0]
           moved == Overwrite(b \o more, iLen + lLen, message)
           both == Overwrite(moved, iLen, length)
           before == SubSeq(b, 1, iLen)
           end == iLen + Len(length) + lMsg
<1>1. Len(b) \in Nat /\ lMsg \in Nat /\ VarintLen \in Nat
  BY WireAssumption
<1>2. lLen \in 1..VarintLen /\ lLen \in Nat /\ length \in Seq(Bytes) /\ Len(length) = lLen
  BY <1>1, VarintSizes
<1>3. /\ message \in Seq(Bytes) /\ Len(message) = lMsg
      /\ \A k \in 1..lMsg : message[k] = b[iMsg + k]
  <2>1. iMsg + 1 \in Int /\ Len(b) \in Int /\ \A k \in (iMsg + 1)..Len(b) : b[k] \in Bytes
    BY <1>1
  <2>2. /\ message \in Seq(Bytes)
        /\ Len(message) = IF iMsg + 1 <= Len(b) THEN Len(b) - (iMsg + 1) + 1 ELSE 0
        /\ \A k \in 1..(Len(b) - (iMsg + 1) + 1) : message[k] = b[(iMsg + 1) + k - 1]
    BY <2>1, SubSeqProperties
  <2> HIDE DEF message
  <2>3. Len(message) = lMsg /\ Len(b) - (iMsg + 1) + 1 = lMsg
    BY <1>1, <2>2
  <2> QED
    BY <1>1, <2>2, <2>3
<1>4. /\ before \in Seq(Bytes) /\ Len(before) = iLen
      /\ \A k \in 1..iLen : before[k] = b[k]
  <2>1. 1 \in Int /\ iLen \in Int /\ \A k \in 1..iLen : b[k] \in Bytes
    BY <1>1
  <2>2. /\ before \in Seq(Bytes)
        /\ Len(before) = IF 1 <= iLen THEN iLen - 1 + 1 ELSE 0
        /\ \A k \in 1..(iLen - 1 + 1) : before[k] = b[1 + k - 1]
    BY <2>1, SubSeqProperties
  <2> HIDE DEF before
  <2> QED
    BY <1>1, <2>2
<1>5. /\ b \o more \in Seq(Bytes) /\ Len(b \o more) = Len(b) + VarintLen
      /\ \A k \in 1..Len(b) : (b \o more)[k] = b[k]
  <2>1. more \in Seq(Bytes) /\ Len(more) = VarintLen
    BY <1>1 DEF Bytes
  <2> HIDE DEF more
  <2> QED
    BY <1>1, <2>1, ConcatProperties
<1>6. WithLength(b, iLen, iMsg) = SubSeq(both, 1, end)
  BY DEF WithLength
<1> HIDE DEF length, lLen, message, before, more
<1>7. /\ moved \in Seq(Bytes) /\ Len(moved) = Len(b) + VarintLen
      /\ \A k \in 1..Len(moved) :
           moved[k] = IF k \in (iLen + lLen + 1)..(iLen + lLen + lMsg) THEN message[k - (iLen + lLen)] ELSE (b \o more)[k]
  <2> DEFINE at == iLen + lLen
             c == b \o more
  <2>1. at \in Nat /\ at + Len(message) <= Len(c)
    BY <1>1, <1>2, <1>3, <1>5
  <2>2. c \in Seq(Bytes) /\ Len(c) = Len(b) + VarintLen /\ message \in Seq(Bytes) /\ Len(message) = lMsg
    BY <1>3, <1>5
  <2> HIDE DEF at, c, lMsg
  <2>3. /\ Overwrite(c, at, message) \in Seq(Bytes) /\ Len(Overwrite(c, at, message)) = Len(c)
        /\ \A k \in 1..Len(c) : Overwrite(c, at, message)[k] =
                               IF k \in (at + 1)..(at + Len(message)) THEN message[k - at] ELSE c[k]
    BY <2>1, <2>2, OverwriteFacts
  <2> QED
    BY <2>2, <2>3 DEF at, c, moved
<1> HIDE DEF moved
<1>8. /\ both \in Seq(Bytes) /\ Len(both) = Len(b) + VarintLen
      /\ \A k \in 1..Len(both) :
           both[k] = IF k \in (iLen + 1)..(iLen + lLen) THEN length[k - iLen] ELSE moved[k]
  <2>1. moved \in Seq(Bytes) /\ length \in Seq(Bytes) /\ Len(length) = lLen /\ Len(moved) = Len(b) + VarintLen
    BY <1>2, <1>7
  <2>2. iLen + Len(length) <= Len(moved)
    BY <1>1, <1>2, <2>1
  <2>3. /\ Overwrite(moved, iLen, length) \in Seq(Bytes) /\ Len(Overwrite(moved, iLen, length)) = Len(moved)
        /\ \A k \in 1..Len(moved) : Overwrite(moved, iLen, length)[k] =
                                   IF k \in (iLen + 1)..(iLen + Len(length)) THEN length[k - iLen] ELSE moved[k]
    BY <2>1, <2>2, OverwriteFacts
  <2> QED
    BY <2>1, <2>3 DEF both
<1> HIDE DEF both, lMsg
<1>9. end \in Nat /\ end = iLen + lLen + lMsg /\ end <= Len(both)
  BY <1>1, <1>2, <1>8 DEF lMsg
<1>10. /\ SubSeq(both, 1, end) \in Seq(Bytes) /\ Len(SubSeq(both, 1, end)) = end
       /\ \A k \in 1..end : SubSeq(both, 1, end)[k] = both[k]
  <2> HIDE DEF end
  <2>1. 1 \in Int /\ end \in Int /\ \A k \in 1..end : both[k] \in Bytes
    BY <1>8, <1>9
  <2>2. /\ SubSeq(both, 1, end) \in Seq(Bytes)
        /\ Len(SubSeq(both, 1, end)) = IF 1 <= end THEN end - 1 + 1 ELSE 0
        /\ \A k \in 1..(end - 1 + 1) : SubSeq(both, 1, end)[k] = both[1 + k - 1]
    BY <2>1, SubSeqProperties
  <2> QED
    BY <1>9, <2>2
<1> HIDE DEF end
<1>11. ASSUME NEW k \in 1..end
       PROVE  both[k] = IF k <= iLen THEN before[k]
                        ELSE IF k <= iLen + lLen THEN length[k - iLen] ELSE message[k - (iLen + lLen)]
  <2>1. k \in 1..Len(both) /\ k \in 1..Len(moved) /\ k \in Nat
    BY <1>7, <1>8, <1>9
  <2>2. CASE k <= iLen
    <3>1. k \notin (iLen + 1)..(iLen + lLen) /\ k \notin (iLen + lLen + 1)..(iLen + lLen + lMsg)
      BY <1>2, <2>1, <2>2
    <3>2. both[k] = (b \o more)[k]
      BY <1>7, <1>8, <2>1, <3>1
    <3>3. k \in 1..iLen /\ k \in 1..Len(b)
      BY <1>1, <2>1, <2>2
    <3> QED
      BY <1>4, <1>5, <2>2, <3>2, <3>3
  <2>3. CASE k > iLen /\ k <= iLen + lLen
    <3>1. k \in (iLen + 1)..(iLen + lLen)
      BY <2>1, <2>3
    <3> QED
      BY <1>8, <2>1, <2>3, <3>1
  <2>4. CASE k > iLen + lLen
    <3>1. k \notin (iLen + 1)..(iLen + lLen) /\ k \in (iLen + lLen + 1)..(iLen + lLen + lMsg) /\ ~(k <= iLen)
      BY <1>1, <1>2, <1>9, <2>1, <2>4
    <3> QED
      BY <1>7, <1>8, <2>1, <2>4, <3>1
  <2> QED
    BY <1>2, <2>1, <2>2, <2>3, <2>4
<1> DEFINE whole == before \o length \o message
<1>12. whole \in Seq(Bytes) /\ Len(whole) = end
  BY <1>2, <1>3, <1>4, <1>9
<1>13. ASSUME NEW k \in 1..end
       PROVE  whole[k] = IF k <= iLen THEN before[k]
                         ELSE IF k <= iLen + lLen THEN length[k - iLen] ELSE message[k - (iLen + lLen)]
  <2> DEFINE head == before \o length
  <2>1. k \in Nat /\ k <= iLen + lLen + lMsg /\ k >= 1
    BY <1>9
  <2>2. /\ head \in Seq(Bytes) /\ Len(head) = iLen + lLen
        /\ \A j \in 1..(iLen + lLen) : head[j] = IF j <= iLen THEN before[j] ELSE length[j - iLen]
    BY <1>2, <1>4, ConcatProperties
  <2> HIDE DEF head
  <2>3. \A j \in 1..(Len(head) + Len(message)) :
          (head \o message)[j] = IF j <= Len(head) THEN head[j] ELSE message[j - Len(head)]
    BY <1>3, <2>2, ConcatProperties
  <2>4. k \in 1..(Len(head) + Len(message)) /\ (k <= iLen + lLen => k \in 1..(iLen + lLen)) /\ (k <= iLen => k <= iLen + lLen)
    BY <1>2, <1>3, <2>1, <2>2
  <2> QED
    BY <2>2, <2>3, <2>4 DEF head
<1>14. SubSeq(both, 1, end) = whole
  <2> HIDE DEF whole
  <2> QED
    BY <1>10, <1>11, <1>12, <1>13, SeqEqual
<1>15. Len(message) = lMsg
  BY <1>3
<1> QED
  BY <1>6, <1>14, <1>15 DEF length, lLen, message, before, lMsg

-----------------------------------------------------------------------------
(* Values and what is within them *)

LEMMA FieldFacts ==
  ASSUME NEW t \in DOMAIN Fields, NEW k \in FieldsOf(t)
  PROVE  Fields[t][k] \in FieldProperties /\ Fields[t][k].stype \in DOMAIN Fields
<1>1. Fields[t] \in Seq(FieldProperties)
  BY TypesAssumption
<1>2. Fields[t][k] \in FieldProperties
  BY <1>1 DEF FieldsOf
<1> QED
  BY <1>2 DEF FieldProperties

\* a field of messages with a value
InField(p, x) == p \in FieldProperties /\ IsValue(p, x)

LEMMA ValueOfField ==
  ASSUME NEW t \in DOMAIN Fields, NEW v \in Values[t], NEW k \in FieldsOf(t)
  PROVE  InField(Fields[t][k], v[k])
BY FieldFacts, ValuesAssumption DEF InField

Singles == {"number", "bytes", "byteArray", "custom", "struct"}
Rows    == {"strings", "stringArray", "customs", "customArray", "structs", "structArray"}
PointerRows == {"ptrs", "ptrArray", "ptrCustoms", "ptrCustomArray"}

\* IsValue kind by kind
LEMMA ValueIs ==
  ASSUME NEW p, NEW x, IsValue(p, x)
  PROVE  /\ p.dec \in Singles => x \in Kept(p)
         /\ p.dec \in Pointers => IsPointer(x, Kept(p))
         /\ p.dec = "map" => IsFiniteSet(x) /\ x \subseteq Kept(p)
         /\ p.dec \in {"packed", "packedArray"} => x \in Seq(Kept(p)) /\ Len(x) < Word /\ Len(NumberBytes(p, x)) < Word
         /\ p.dec \in Rows => x \in Seq(Kept(p))
         /\ p.dec \in PointerRows => x \in Seq(SUBSET Kept(p)) /\ \A k \in 1..Len(x) : IsPointer(x[k], Kept(p))
<1>1. p.dec \in Singles => x \in Kept(p)
  BY DEF IsValue, Singles, Pointers
<1>2. p.dec \in Pointers => IsPointer(x, Kept(p))
  BY DEF IsValue, Pointers
<1>3. p.dec = "map" => IsFiniteSet(x) /\ x \subseteq Kept(p)
  BY DEF IsValue, Pointers
<1>4. p.dec \in {"packed", "packedArray"} => x \in Seq(Kept(p)) /\ Len(x) < Word /\ Len(NumberBytes(p, x)) < Word
  BY DEF IsValue, Pointers
<1>5. p.dec \in Rows => x \in Seq(Kept(p))
  BY DEF IsValue, Pointers, Rows
<1>6. p.dec \in PointerRows => x \in Seq(SUBSET Kept(p)) /\ \A k \in 1..Len(x) : IsPointer(x[k], Kept(p))
  BY DEF IsValue, Pointers, PointerRows
<1> QED
  BY <1>1, <1>2, <1>3, <1>4, <1>5, <1>6

LEMMA KeptIs ==
  ASSUME NEW p
  PROVE  /\ p.dec \in Nested => Kept(p) = Values[p.stype]
         /\ p.dec \in {"number", "ptrNumber", "packed", "packedArray"} => Kept(p) = 0..(p.word - 1)
         /\ p.dec \in Custom \cup {"bytes", "byteArray", "ptrBytes", "strings", "stringArray"} => Kept(p) = Texts
BY DEF Kept, Nested, Custom

LEMMA WithinValues ==
  ASSUME NEW p, NEW x, InField(p, x), NEW y \in Within(p, x)
  PROVE  p.stype \in DOMAIN Fields /\ y \in Values[p.stype]
<1>1. p.stype \in DOMAIN Fields
  BY DEF InField, FieldProperties
<1>0. IsValue(p, x)
  BY DEF InField
<1> DEFINE S == Values[p.stype]
<1>2. CASE p.dec = "struct"
  <2>1. x \in S
    BY <1>0, <1>2, ValueIs, KeptIs DEF Singles, Nested
  <2> QED
    BY <1>1, <1>2, <2>1 DEF Within
<1>3. CASE p.dec = "ptr"
  <2>1. IsPointer(x, S)
    BY <1>0, <1>3, ValueIs, KeptIs DEF Pointers, Nested
  <2> QED
    BY <1>1, <1>3, <2>1 DEF Within, IsPointer
<1>4. CASE p.dec = "map"
  <2>1. x \subseteq S
    <3>1. x \subseteq Kept(p)
      BY <1>0, <1>4, ValueIs
    <3>2. Kept(p) = S
      BY <1>4, KeptIs DEF Nested
    <3> QED
      BY <3>1, <3>2
  <2> QED
    BY <1>1, <1>4, <2>1 DEF Within
<1>5. CASE p.dec \in {"structs", "structArray"}
  <2>1. x \in Seq(S)
    BY <1>0, <1>5, ValueIs, KeptIs DEF Rows, Nested
  <2>2. y \in {x[k] : k \in Places(p, x)}
    BY <1>5 DEF Within
  <2>3. Places(p, x) \subseteq 1..Len(x)
    BY DEF Places
  <2> QED
    BY <1>1, <2>1, <2>2, <2>3
<1>6. CASE p.dec \in {"ptrs", "ptrArray"}
  <2>1. x \in Seq(SUBSET S)
    BY <1>0, <1>6, ValueIs, KeptIs DEF PointerRows, Nested
  <2>2. PICK k \in 1..Len(x) : y \in x[k]
    BY <1>6 DEF Within
  <2>3. x[k] \in SUBSET S
    BY <2>1
  <2> QED
    BY <1>1, <2>2, <2>3
<1>7. CASE p.dec \notin {"struct", "ptr", "map", "structs", "structArray", "ptrs", "ptrArray"}
  BY <1>7 DEF Within
<1> QED
  BY <1>2, <1>3, <1>4, <1>5, <1>6, <1>7

HeightOf(w) == Height[w[1]][w[2]]

LEMMA StructFacts ==
  ASSUME NEW w \in Structs
  PROVE  /\ w[1] \in DOMAIN Fields /\ w[2] \in Values[w[1]] /\ w = <<w[1], w[2]>>
         /\ HeightOf(w) \in Nat
<1>1. PICK t \in DOMAIN Fields : \E v \in Values[t] : w = <<t, v>>
  BY DEF Structs
<1>2. PICK v \in Values[t] : w = <<t, v>>
  BY <1>1
<1> QED
  BY <1>2, ValuesAssumption DEF HeightOf

LEMMA IsStruct ==
  ASSUME NEW t \in DOMAIN Fields, NEW v \in Values[t]
  PROVE  <<t, v>> \in Structs
BY DEF Structs

LEMMA WithinLower ==
  ASSUME NEW w \in Structs, NEW k \in FieldsOf(w[1]), NEW y \in Within(Fields[w[1]][k], w[2][k])
  PROVE  /\ <<Fields[w[1]][k].stype, y>> \in Structs
         /\ HeightOf(<<Fields[w[1]][k].stype, y>>) < HeightOf(w)
<1> DEFINE p == Fields[w[1]][k]
<1>1. w[1] \in DOMAIN Fields /\ w[2] \in Values[w[1]]
  BY StructFacts
<1>2. p.stype \in DOMAIN Fields /\ y \in Values[p.stype]
  BY <1>1, ValueOfField, WithinValues
<1>3. Height[p.stype][y] < Height[w[1]][w[2]]
  BY <1>1, ValuesAssumption
<1> QED
  BY <1>2, <1>3, IsStruct DEF HeightOf

-----------------------------------------------------------------------------
(* The errors of a value are those of its fields and of the structs within *)

FieldErrors(g, p, x) == OwnErrors(p, x) \cup UNION {g[<<p.stype, y>>] : y \in Within(p, x)}
ErrorsBy(g, w) == UNION {FieldErrors(g, Fields[w[1]][k], w[2][k]) : k \in FieldsOf(w[1])}

\* g is right for the structs below height n
ErrorsUpTo(g, n) == \A w \in Structs : HeightOf(w) < n => g[w] = ErrorsBy(g, w)

LEMMA ErrorsLocal ==
  ASSUME NEW g, NEW h, NEW w \in Structs, \A u \in Structs : HeightOf(u) < HeightOf(w) => g[u] = h[u]
  PROVE  ErrorsBy(g, w) = ErrorsBy(h, w)
<1>1. ASSUME NEW k \in FieldsOf(w[1])
      PROVE  FieldErrors(g, Fields[w[1]][k], w[2][k]) = FieldErrors(h, Fields[w[1]][k], w[2][k])
  <2> DEFINE p == Fields[w[1]][k]
             x == w[2][k]
  <2>1. \A y \in Within(p, x) : g[<<p.stype, y>>] = h[<<p.stype, y>>]
    BY WithinLower
  <2> HIDE DEF p, x
  <2>2. FieldErrors(g, p, x) = FieldErrors(h, p, x)
    BY <2>1 DEF FieldErrors
  <2> QED
    BY <2>2 DEF p, x
<1> QED
  BY <1>1 DEF ErrorsBy

LEMMA ErrorsAgree ==
  ASSUME NEW g, NEW h, NEW n \in Nat, ErrorsUpTo(g, n), ErrorsUpTo(h, n), NEW w \in Structs, HeightOf(w) < n
  PROVE  g[w] = h[w]
<1> DEFINE S == {k \in Nat : \A u \in Structs : HeightOf(u) < k /\ HeightOf(u) < n => g[u] = h[u]}
<1>1. 0 \in S
  BY StructFacts
<1>2. ASSUME NEW k \in Nat, k \in S PROVE k + 1 \in S
  <2> SUFFICES ASSUME NEW u \in Structs, HeightOf(u) < k + 1, HeightOf(u) < n PROVE g[u] = h[u]
    OBVIOUS
  <2>1. HeightOf(u) \in Nat
    BY StructFacts
  <2>2. ASSUME NEW x \in Structs, HeightOf(x) < HeightOf(u) PROVE g[x] = h[x]
    <3>1. HeightOf(x) \in Nat
      BY StructFacts
    <3> QED
      BY <1>2, <2>1, <2>2, <3>1
  <2>3. ErrorsBy(g, u) = ErrorsBy(h, u)
    BY <2>2, ErrorsLocal
  <2> QED
    BY <2>3 DEF ErrorsUpTo
<1> HIDE DEF S
<1>3. Nat \subseteq S
  BY <1>1, <1>2, SetInduction
<1>4. n \in S
  BY <1>3
<1> QED
  BY <1>4 DEF S

LEMMA ErrorsExist ==
  ASSUME NEW n \in Nat
  PROVE  \E g : ErrorsUpTo(g, n)
<1> DEFINE S == {k \in Nat : \E g : ErrorsUpTo(g, k)}
<1>1. 0 \in S
  <2>1. ErrorsUpTo(<<>>, 0)
    BY StructFacts DEF ErrorsUpTo
  <2> QED
    BY <2>1
<1>2. ASSUME NEW k \in Nat, k \in S PROVE k + 1 \in S
  <2>1. PICK g : ErrorsUpTo(g, k)
    BY <1>2
  <2> DEFINE h == [w \in Structs |-> ErrorsBy(g, w)]
  <2>2. ASSUME NEW w \in Structs, HeightOf(w) < k + 1 PROVE h[w] = ErrorsBy(h, w)
    <3>1. HeightOf(w) \in Nat
      BY StructFacts
    <3>2. ASSUME NEW u \in Structs, HeightOf(u) < HeightOf(w) PROVE g[u] = h[u]
      <4>1. HeightOf(u) \in Nat
        BY StructFacts
      <4>2. HeightOf(u) < k
        BY <2>2, <3>1, <3>2, <4>1
      <4> QED
        BY <2>1, <4>2 DEF ErrorsUpTo
    <3>3. h[w] = ErrorsBy(g, w)
      OBVIOUS
    <3> HIDE DEF h
    <3>4. ErrorsBy(g, w) = ErrorsBy(h, w)
      BY <3>2, ErrorsLocal
    <3> QED
      BY <3>3, <3>4
  <2> HIDE DEF h
  <2>3. ErrorsUpTo(h, k + 1)
    BY <2>2 DEF ErrorsUpTo
  <2> QED
    BY <2>3
<1> HIDE DEF S
<1>3. Nat \subseteq S
  BY <1>1, <1>2, SetInduction
<1>4. n \in S
  BY <1>3
<1> QED
  BY <1>4 DEF S

LEMMA ErrorsIs ==
  \A w \in Structs : Errors[w] = ErrorsBy(Errors, w)
<1> DEFINE Upto(n) == CHOOSE g : ErrorsUpTo(g, n)
           G == [w \in Structs |-> Upto(HeightOf(w) + 1)[w]]
<1>1. ASSUME NEW n \in Nat PROVE ErrorsUpTo(Upto(n), n)
  BY ErrorsExist
<1> HIDE DEF Upto
<1>2. ASSUME NEW w \in Structs PROVE G[w] = ErrorsBy(G, w)
  <2> DEFINE h == Upto(HeightOf(w) + 1)
  <2>1. HeightOf(w) \in Nat /\ HeightOf(w) + 1 \in Nat
    BY StructFacts
  <2>2. ErrorsUpTo(h, HeightOf(w) + 1)
    BY <1>1, <2>1
  <2>3. ASSUME NEW u \in Structs, HeightOf(u) < HeightOf(w) PROVE h[u] = G[u]
    <3> DEFINE g == Upto(HeightOf(u) + 1)
    <3>1. HeightOf(u) \in Nat /\ HeightOf(u) + 1 \in Nat
      BY StructFacts
    <3>2. ErrorsUpTo(g, HeightOf(u) + 1) /\ ErrorsUpTo(h, HeightOf(u) + 1)
      <4>1. \A x \in Structs : HeightOf(x) \in Nat
        BY StructFacts
      <4>2. ErrorsUpTo(g, HeightOf(u) + 1)
        BY <1>1, <3>1
      <4> HIDE DEF g, h
      <4> QED
        BY <2>1, <2>2, <2>3, <3>1, <4>1, <4>2 DEF ErrorsUpTo
    <3>3. G[u] = g[u]
      OBVIOUS
    <3>4. HeightOf(u) < HeightOf(u) + 1
      BY <3>1
    <3> HIDE DEF g, h, G
    <3> QED
      BY <3>1, <3>2, <3>3, <3>4, ErrorsAgree
  <2>4. G[w] = h[w]
    OBVIOUS
  <2> HIDE DEF G, h
  <2>5. ErrorsBy(h, w) = ErrorsBy(G, w)
    BY <2>3, ErrorsLocal
  <2>6. h[w] = ErrorsBy(h, w)
    BY <2>1, <2>2 DEF ErrorsUpTo
  <2> QED
    BY <2>4, <2>5, <2>6
<1>3. G = [w \in Structs |-> ErrorsBy(G, w)]
  <2>1. G = [w \in Structs |-> G[w]]
    OBVIOUS
  <2> HIDE DEF G
  <2> QED
    BY <1>2, <2>1
<1> HIDE DEF G
<1> DEFINE Right(g) == g = [w \in Structs |-> ErrorsBy(g, w)]
<1>4. Errors = CHOOSE g : Right(g)
  BY DEF Errors, ErrorsBy, FieldErrors
<1>5. Right(G)
  BY <1>3
<1> HIDE DEF Right
<1>6. Right(Errors)
  BY <1>4, <1>5
<1>7. Errors = [w \in Structs |-> ErrorsBy(Errors, w)]
  BY <1>6 DEF Right
<1> QED
  BY <1>7

-----------------------------------------------------------------------------
(* What the encoders of messages go through *)

Elements(p, x) ==
  CASE p.dec \in {"struct", "custom"} -> {{x}}
    [] p.dec \in {"ptr", "ptrCustom"} -> {x} \ {{}}
    [] p.dec \in PointerRows -> {x[k] : k \in 1..Len(x)}
    [] p.dec = "map" -> {{e} : e \in x}
    [] OTHER -> {{x[k]} : k \in Places(p, x)}

IsList(p, list) == list \in Seq(SUBSET Kept(p)) /\ \A k \in 1..Len(list) : IsPointer(list[k], Kept(p))
ElementsOf(list) == {list[k] : k \in 1..Len(list)}

\* every order of a finite set has all its elements
LEMMA OrdersAre ==
  ASSUME NEW S, IsFiniteSet(S), NEW s \in Orders(S)
  PROVE  s \in Seq(S) /\ ElementsOf(s) = S
<1> DEFINE n == Cardinality(S)
<1>1. n \in Nat
  BY FS_CardinalityType
<1>2. s \in [1..n -> S] /\ \A j, k \in 1..n : j # k => s[j] # s[k]
  BY DEF Orders
<1>3. IsFiniteSet(1..n) /\ Cardinality(1..n) = n
  <2> HIDE DEF n
  <2>1. 1 \in Int /\ n \in Int /\ (IF 1 > n THEN 0 ELSE n - 1 + 1) = n
    BY <1>1
  <2> QED
    BY <2>1, FS_Interval
<1>4. s \in Injection(1..n, S)
  BY <1>2 DEF Injection, IsInjective
<1>5. s \in Surjection(1..n, S)
  BY <1>3, <1>4, FS_Injection
<1>6. \A e \in S : \E k \in 1..n : s[k] = e
  BY <1>5 DEF Surjection
<1> HIDE DEF n
<1>7. s \in Seq(S) /\ Len(s) = n
  BY <1>1, <1>2
<1> QED
  BY <1>2, <1>6, <1>7 DEF ElementsOf

LEMMA OneElement ==
  ASSUME NEW S, NEW e \in S
  PROVE  <<e>> \in Seq(S) /\ ElementsOf(<<e>>) = {e}
<1>1. <<e>> \in Seq(S) /\ Len(<<e>>) = 1 /\ <<e>>[1] = e
  OBVIOUS
<1> QED
  BY <1>1 DEF ElementsOf

LEMMA ElementsAre ==
  ASSUME NEW p, NEW x
  PROVE  /\ p.dec \in {"struct", "custom"} => Elements(p, x) = {{x}}
         /\ p.dec \in {"ptr", "ptrCustom"} => Elements(p, x) = {x} \ {{}}
         /\ p.dec \in PointerRows => Elements(p, x) = {x[k] : k \in 1..Len(x)}
         /\ p.dec = "map" => Elements(p, x) = {{e} : e \in x}
         /\ p.dec \in {"structs", "structArray", "customs", "customArray"} => Elements(p, x) = {{x[k]} : k \in Places(p, x)}
<1>1. p.dec \in {"struct", "custom"} => Elements(p, x) = {{x}}
  BY DEF Elements, PointerRows
<1>2. p.dec \in {"ptr", "ptrCustom"} => Elements(p, x) = {x} \ {{}}
  BY DEF Elements, PointerRows
<1>3. p.dec \in PointerRows => Elements(p, x) = {x[k] : k \in 1..Len(x)}
  BY DEF Elements, PointerRows
<1>4. p.dec = "map" => Elements(p, x) = {{e} : e \in x}
  BY DEF Elements, PointerRows
<1>5. p.dec \in {"structs", "structArray", "customs", "customArray"} => Elements(p, x) = {{x[k]} : k \in Places(p, x)}
  BY DEF Elements, PointerRows
<1> QED
  BY <1>1, <1>2, <1>3, <1>4, <1>5

LEMMA ListsAre ==
  ASSUME NEW p, NEW x, InField(p, x), p.dec \in Nested \cup Custom, NEW list \in Messages(p, x)
  PROVE  IsList(p, list) /\ ElementsOf(list) = Elements(p, x)
<1> DEFINE K == Kept(p)
           d == p.dec
<1>1. IsValue(p, x)
  BY DEF InField
<1>2. ASSUME list \in Seq(SUBSET K), \A e \in ElementsOf(list) : IsPointer(e, K) PROVE IsList(p, list)
  BY <1>2 DEF IsList, ElementsOf
<1>3. ASSUME NEW y \in K PROVE {y} \in SUBSET K /\ IsPointer({y}, K)
  BY DEF IsPointer
<1>4. CASE d \in {"struct", "custom"}
  <2>1. x \in K
    BY <1>1, <1>4, ValueIs DEF Singles
  <2>2. list = <<{x}>>
    BY <1>4 DEF Messages
  <2>3. Elements(p, x) = {{x}}
    BY <1>4, ElementsAre
  <2> HIDE DEF K
  <2>4. list \in Seq(SUBSET K) /\ ElementsOf(list) = {{x}}
    BY <1>3, <2>1, <2>2, OneElement
  <2> QED
    BY <1>2, <1>3, <2>1, <2>3, <2>4
<1>5. CASE d \in {"ptr", "ptrCustom"}
  <2>1. IsPointer(x, K)
    BY <1>1, <1>5, ValueIs DEF Pointers
  <2>2. list = IF x = {} THEN <<>> ELSE <<x>>
    BY <1>5 DEF Messages
  <2>3. Elements(p, x) = {x} \ {{}}
    BY <1>5 DEF Elements, PointerRows
  <2>4. x \in SUBSET K
    BY <2>1 DEF IsPointer
  <2> HIDE DEF K
  <2>5. CASE x = {}
    <3>1. list \in Seq(SUBSET K) /\ ElementsOf(list) = {}
      BY <2>2, <2>5 DEF ElementsOf
    <3> QED
      BY <1>2, <2>3, <2>5, <3>1
  <2>6. CASE x # {}
    <3>1. list \in Seq(SUBSET K) /\ ElementsOf(list) = {x}
      BY <2>2, <2>4, <2>6, OneElement
    <3> QED
      BY <1>2, <2>1, <2>3, <2>6, <3>1
  <2> QED
    BY <2>5, <2>6
<1>6. CASE d \in PointerRows
  <2>1. x \in Seq(SUBSET K) /\ \A k \in 1..Len(x) : IsPointer(x[k], K)
    BY <1>1, <1>6, ValueIs
  <2>2. list = x
    BY <1>6 DEF Messages, PointerRows
  <2>3. Elements(p, x) = {x[k] : k \in 1..Len(x)}
    BY <1>6 DEF Elements, PointerRows
  <2> HIDE DEF K
  <2> QED
    BY <1>2, <2>1, <2>2, <2>3 DEF ElementsOf
<1>7. CASE d \in {"structs", "structArray", "customs", "customArray"}
  <2>1. x \in Seq(K)
    BY <1>1, <1>7, ValueIs DEF Rows
  <2>2. list = [k \in Places(p, x) |-> {x[k]}]
    BY <1>7 DEF Messages
  <2>3. Elements(p, x) = {{x[k]} : k \in Places(p, x)}
    BY <1>7 DEF Elements, PointerRows
  <2>4. PICK n \in Nat : Places(p, x) = 1..n /\ n <= Len(x)
    <3>1. Len(x) \in Nat /\ 1..0 = {}
      BY <2>1
    <3> QED
      BY <3>1 DEF Places
  <2> HIDE DEF K
  <2>5. \A k \in 1..n : x[k] \in K
    BY <2>1, <2>4
  <2>6. list \in Seq(SUBSET K) /\ Len(list) = n /\ \A k \in 1..n : list[k] = {x[k]}
    BY <1>3, <2>2, <2>4, <2>5
  <2>7. ElementsOf(list) = {{x[k]} : k \in 1..n}
    BY <2>6 DEF ElementsOf
  <2> QED
    BY <1>2, <1>3, <2>3, <2>4, <2>5, <2>6, <2>7
<1>8. CASE d = "map"
  <2>1. IsFiniteSet(x) /\ x \subseteq K
    BY <1>1, <1>8, ValueIs
  <2>2. list \in Orders({{e} : e \in x})
    BY <1>8 DEF Messages
  <2>3. Elements(p, x) = {{e} : e \in x}
    BY <1>8 DEF Elements, PointerRows
  <2> DEFINE S == {{e} : e \in x}
  <2>4. IsFiniteSet(S)
    <3> DEFINE f == [e \in x |-> {e}]
    <3>1. f \in Surjection(x, S)
      BY DEF Surjection
    <3> HIDE DEF f, S
    <3> QED
      BY <2>1, <3>1, FS_Surjection
  <2>5. list \in Seq(S) /\ ElementsOf(list) = S
    BY <2>2, <2>4, OrdersAre
  <2>6. S \subseteq SUBSET K /\ \A e \in S : IsPointer(e, K)
    BY <1>3, <2>1
  <2> HIDE DEF S, K
  <2>7. list \in Seq(SUBSET K)
    BY <2>5, <2>6
  <2> QED
    BY <1>2, <2>3, <2>5, <2>6, <2>7 DEF S
<1> QED
  BY <1>4, <1>5, <1>6, <1>7, <1>8 DEF Nested, Custom, PointerRows

-----------------------------------------------------------------------------
(* The errors of a field are those of its elements *)

ElementErrors(p, e) ==
  IF e = {} THEN {HasNil}
  ELSE IF p.dec \in Custom THEN Refusal({The(e)})
  ELSE Errors[<<p.stype, The(e)>>]

ErrorsIn(p, S) == UNION {ElementErrors(p, e) : e \in S}
ListErrors(p, list) == ErrorsIn(p, ElementsOf(list))
Boxes(S) == {{y} : y \in S}

LEMMA TheIs == \A y : The({y}) = y
BY DEF The

\* what is there behind a pointer, an element
LEMMA ElementErrorsAre ==
  ASSUME NEW p, NEW y
  PROVE  /\ ElementErrors(p, {}) = {HasNil}
         /\ p.dec \in Custom => ElementErrors(p, {y}) = Refusal({y})
         /\ p.dec \in Nested => ElementErrors(p, {y}) = Errors[<<p.stype, y>>]
<1>1. {y} # {} /\ The({y}) = y
  BY TheIs
<1>2. p.dec \in Nested => p.dec \notin Custom
  BY DEF Nested, Custom
<1> QED
  BY <1>1, <1>2 DEF ElementErrors

LEMMA RefusalOfAll == \A Y : Refusal(Y) = UNION {Refusal({y}) : y \in Y}
BY DEF Refusal

LEMMA ErrorsInBoth ==
  ASSUME NEW p, NEW A, NEW B
  PROVE  ErrorsIn(p, A \cup B) = ErrorsIn(p, A) \cup ErrorsIn(p, B)
<1>1. \A a : a \in ErrorsIn(p, A \cup B) <=> \E e \in A \cup B : a \in ElementErrors(p, e)
  BY DEF ErrorsIn
<1>2. \A a : a \in ErrorsIn(p, A) <=> \E e \in A : a \in ElementErrors(p, e)
  BY DEF ErrorsIn
<1>3. \A a : a \in ErrorsIn(p, B) <=> \E e \in B : a \in ElementErrors(p, e)
  BY DEF ErrorsIn
<1> QED
  BY <1>1, <1>2, <1>3

LEMMA ErrorsInBoxes ==
  ASSUME NEW p, NEW Y
  PROVE  ErrorsIn(p, Boxes(Y)) = UNION {ElementErrors(p, {y}) : y \in Y}
<1> DEFINE L == ErrorsIn(p, Boxes(Y))
           R == UNION {ElementErrors(p, {y}) : y \in Y}
<1>1. ASSUME NEW a \in L PROVE a \in R
  <2>1. PICK e \in Boxes(Y) : a \in ElementErrors(p, e)
    BY DEF ErrorsIn
  <2>2. PICK y \in Y : e = {y}
    BY DEF Boxes
  <2> QED
    BY <2>1, <2>2
<1>2. ASSUME NEW a \in R PROVE a \in L
  <2>1. PICK y \in Y : a \in ElementErrors(p, {y})
    OBVIOUS
  <2>2. {y} \in Boxes(Y)
    BY DEF Boxes
  <2> QED
    BY <2>1, <2>2 DEF ErrorsIn
<1> HIDE DEF L, R
<1>3. L = R
  BY <1>1, <1>2
<1> QED
  BY <1>3 DEF L, R

\* of types that marshal themselves: the elements are payloads or nil pointers
LEMMA CustomErrors ==
  ASSUME NEW p, NEW x, p.dec \in Custom, Elements(p, x) = {{y} : y \in Payloads(p, x)} \cup {e \in PointersIn(p, x) : e = {}}
  PROVE  ErrorsIn(p, Elements(p, x)) = FieldErrors(Errors, p, x)
<1> DEFINE Y == Payloads(p, x)
           X == PointersIn(p, x)
           B == {e \in X : e = {}}
<1>1. Within(p, x) = {}
  BY DEF Within, Custom
<1>2. FieldErrors(Errors, p, x) = Refusal(Y) \cup Nils(X)
  BY <1>1 DEF FieldErrors, OwnErrors
<1>3. \A y : ElementErrors(p, {y}) = Refusal({y})
  BY ElementErrorsAre
<1>4. ElementErrors(p, {}) = {HasNil}
  BY ElementErrorsAre
<1>5. Refusal(Y) = UNION {Refusal({y}) : y \in Y}
  BY RefusalOfAll
<1>6. Elements(p, x) = Boxes(Y) \cup B
  BY DEF Boxes
<1>10. \A e : e \in B <=> e \in X /\ e = {}
  OBVIOUS
<1> HIDE DEF Y, X, B
<1>7. ErrorsIn(p, Elements(p, x)) =
        ErrorsIn(p, Boxes(Y)) \cup ErrorsIn(p, B)
  BY <1>6, ErrorsInBoth
<1>8. ErrorsIn(p, Boxes(Y)) = UNION {Refusal({y}) : y \in Y}
  <2>1. ErrorsIn(p, Boxes(Y)) = UNION {ElementErrors(p, {y}) : y \in Y}
    BY ErrorsInBoxes
  <2>2. {ElementErrors(p, {y}) : y \in Y} = {Refusal({y}) : y \in Y}
    BY <1>3
  <2> QED
    BY <2>1, <2>2
<1>9. ErrorsIn(p, B) = Nils(X)
  BY <1>4, <1>10 DEF Nils, ErrorsIn
<1> QED
  BY <1>2, <1>5, <1>7, <1>8, <1>9

LEMMA NestedErrors ==
  ASSUME NEW p, NEW x, p.dec \in Nested, Elements(p, x) = {{y} : y \in Within(p, x)} \cup {e \in PointersIn(p, x) : e = {}}
  PROVE  ErrorsIn(p, Elements(p, x)) = FieldErrors(Errors, p, x)
<1> DEFINE Y == Within(p, x)
           X == PointersIn(p, x)
           B == {e \in X : e = {}}
<1>1. Payloads(p, x) = {}
  BY DEF Payloads, Nested
<1>2. Refusal({}) = {}
  BY DEF Refusal
<1> DEFINE N == UNION {Errors[<<p.stype, y>>] : y \in Y}
<1>3. FieldErrors(Errors, p, x) = Nils(X) \cup N
  BY <1>1, <1>2 DEF FieldErrors, OwnErrors
<1>4. \A y : ElementErrors(p, {y}) = Errors[<<p.stype, y>>]
  BY ElementErrorsAre
<1>5. ElementErrors(p, {}) = {HasNil}
  BY ElementErrorsAre
<1>6. Elements(p, x) = Boxes(Y) \cup B
  BY DEF Boxes
<1>10. \A e : e \in B <=> e \in X /\ e = {}
  OBVIOUS
<1> HIDE DEF Y, X, B, N
<1>7. ErrorsIn(p, Elements(p, x)) =
        ErrorsIn(p, Boxes(Y)) \cup ErrorsIn(p, B)
  BY <1>6, ErrorsInBoth
<1>8. ErrorsIn(p, Boxes(Y)) = N
  <2>1. ErrorsIn(p, Boxes(Y)) = UNION {ElementErrors(p, {y}) : y \in Y}
    BY ErrorsInBoxes
  <2>2. {ElementErrors(p, {y}) : y \in Y} = {Errors[<<p.stype, y>>] : y \in Y}
    BY <1>4
  <2> QED
    BY <2>1, <2>2 DEF N
<1>9. ErrorsIn(p, B) = Nils(X)
  BY <1>5, <1>10 DEF Nils, ErrorsIn
<1> QED
  BY <1>3, <1>7, <1>8, <1>9

\* what elements there are: those that are there, and nil pointers
LEMMA ElementsSplit ==
  ASSUME NEW p, NEW x, InField(p, x), p.dec \in Nested \cup Custom, NEW Y,
         p.dec \in Nested => Y = Within(p, x), p.dec \in Custom => Y = Payloads(p, x)
  PROVE  Elements(p, x) = {{y} : y \in Y} \cup {e \in PointersIn(p, x) : e = {}}
<1>1. IsValue(p, x)
  BY DEF InField
<1>2. p.dec \notin PointerRows => PointersIn(p, x) = {}
  BY DEF PointersIn, PointerRows
<1>3. CASE p.dec \in {"struct", "custom"}
  <2>1. Y = {x}
    BY <1>3 DEF Nested, Custom, Within, Payloads
  <2>2. p.dec \notin PointerRows
    BY <1>3 DEF PointerRows
  <2>3. Elements(p, x) = {{x}}
    BY <1>3, ElementsAre
  <2> QED
    BY <1>2, <2>1, <2>2, <2>3
<1>4. CASE p.dec \in {"ptr", "ptrCustom"}
  <2>1. Y = x
    BY <1>4 DEF Nested, Custom, Within, Payloads
  <2>2. p.dec \notin PointerRows
    BY <1>4 DEF PointerRows
  <2>3. Elements(p, x) = {x} \ {{}}
    BY <1>4, ElementsAre
  <2>4. IsPointer(x, Kept(p))
    BY <1>1, <1>4, ValueIs DEF Pointers
  <2>5. \A y \in x : x = {y}
    BY <2>4 DEF IsPointer
  <2>6. {x} \ {{}} = {{y} : y \in x}
    BY <2>5
  <2> QED
    BY <1>2, <2>1, <2>2, <2>3, <2>6
<1>5. CASE p.dec \in PointerRows
  <2> DEFINE X == {x[k] : k \in 1..Len(x)}
  <2>1. Y = UNION X
    BY <1>5 DEF Nested, Custom, Within, Payloads, PointerRows
  <2>2. PointersIn(p, x) = X
    BY <1>5 DEF PointersIn, PointerRows
  <2>3. Elements(p, x) = X
    BY <1>5, ElementsAre
  <2>4. \A e \in X : IsPointer(e, Kept(p))
    BY <1>1, <1>5, ValueIs
  <2> HIDE DEF X
  <2>5. \A e \in X : \A y \in e : e = {y}
    BY <2>4 DEF IsPointer
  <2>6. X = {{y} : y \in UNION X} \cup {e \in X : e = {}}
    BY <2>5
  <2> QED
    BY <2>1, <2>2, <2>3, <2>6
<1>6. CASE p.dec \in {"structs", "structArray", "customs", "customArray"}
  <2> DEFINE X == {x[k] : k \in Places(p, x)}
  <2>1. Y = X
    BY <1>6 DEF Nested, Custom, Within, Payloads
  <2>2. p.dec \notin PointerRows
    BY <1>6 DEF PointerRows
  <2>3. Elements(p, x) = {{x[k]} : k \in Places(p, x)}
    BY <1>6, ElementsAre
  <2>4. Elements(p, x) = {{y} : y \in X}
    BY <2>3
  <2> HIDE DEF X
  <2> QED
    BY <1>2, <2>1, <2>2, <2>4
<1>7. CASE p.dec = "map"
  <2>1. Y = x
    BY <1>7 DEF Nested, Within
  <2>2. p.dec \notin PointerRows
    BY <1>7 DEF PointerRows
  <2>3. Elements(p, x) = {{y} : y \in x}
    BY <1>7, ElementsAre
  <2> QED
    BY <1>2, <2>1, <2>2, <2>3
<1> QED
  BY <1>3, <1>4, <1>5, <1>6, <1>7 DEF Nested, Custom, PointerRows

LEMMA ElementsErrors ==
  ASSUME NEW p, NEW x, InField(p, x), p.dec \in Nested \cup Custom
  PROVE  ErrorsIn(p, Elements(p, x)) = FieldErrors(Errors, p, x)
<1>0. ~(p.dec \in Nested /\ p.dec \in Custom)
  BY DEF Nested, Custom
<1>1. CASE p.dec \in Nested
  BY <1>0, <1>1, ElementsSplit, NestedErrors
<1>2. CASE p.dec \in Custom
  BY <1>0, <1>2, ElementsSplit, CustomErrors
<1> QED
  BY <1>1, <1>2

LEMMA MessagesErrors ==
  ASSUME NEW p, NEW x, InField(p, x), p.dec \in Nested \cup Custom, NEW list \in Messages(p, x)
  PROVE  ListErrors(p, list) = FieldErrors(Errors, p, x)
<1>1. ElementsOf(list) = Elements(p, x)
  BY ListsAre
<1> QED
  BY <1>1, ElementsErrors DEF ListErrors

\* fields that hold no messages have no errors
LEMMA OthersHaveNone ==
  ASSUME NEW p, NEW x, p.dec \notin Nested \cup Custom
  PROVE  FieldErrors(Errors, p, x) = {}
<1>1. Within(p, x) = {}
  BY DEF Within, Nested, Custom
<1>2. Payloads(p, x) = {} /\ PointersIn(p, x) = {}
  BY DEF Payloads, PointersIn, Nested, Custom
<1>3. OwnErrors(p, x) = {}
  BY <1>2 DEF OwnErrors, Refusal, Nils
<1> QED
  BY <1>1, <1>3 DEF FieldErrors

-----------------------------------------------------------------------------
(* What is left to be encoded, and the errors in it *)

\* the errors of the fields from the nth on
RestErrors(t, v, n) == UNION {FieldErrors(Errors, Fields[t][k], v[k]) : k \in {j \in FieldsOf(t) : j >= n}}

LEMMA LengthsAre == \A t \in DOMAIN Fields : Len(Fields[t]) \in Nat
BY TypesAssumption

LEMMA RestStep ==
  ASSUME NEW t \in DOMAIN Fields, NEW v, NEW n \in FieldsOf(t)
  PROVE  RestErrors(t, v, n) = FieldErrors(Errors, Fields[t][n], v[n]) \cup RestErrors(t, v, n + 1)
<1> DEFINE E(k) == FieldErrors(Errors, Fields[t][k], v[k])
           A == {j \in FieldsOf(t) : j >= n}
           B == {j \in FieldsOf(t) : j >= n + 1}
<1>1. n \in A /\ n \notin B /\ B \subseteq A /\ \A k \in A : k = n \/ k \in B
  BY LengthsAre DEF FieldsOf
<1>2. RestErrors(t, v, n) = UNION {E(k) : k \in A} /\ RestErrors(t, v, n + 1) = UNION {E(k) : k \in B}
  BY DEF RestErrors
<1> HIDE DEF E, A, B
<1>3. UNION {E(k) : k \in A} = E(n) \cup (UNION {E(k) : k \in B})
  BY <1>1
<1>4. RestErrors(t, v, n) = E(n) \cup RestErrors(t, v, n + 1)
  BY <1>2, <1>3
<1> QED
  BY <1>4 DEF E

LEMMA RestEnd ==
  ASSUME NEW t \in DOMAIN Fields, NEW v, NEW n \in Int, n > Len(Fields[t])
  PROVE  RestErrors(t, v, n) = {}
<1>1. {j \in FieldsOf(t) : j >= n} = {}
  BY LengthsAre DEF FieldsOf
<1> QED
  BY <1>1 DEF RestErrors

LEMMA RestAll ==
  ASSUME NEW t \in DOMAIN Fields, NEW v \in Values[t]
  PROVE  RestErrors(t, v, 1) = Errors[<<t, v>>]
<1>1. {j \in FieldsOf(t) : j >= 1} = FieldsOf(t)
  BY LengthsAre DEF FieldsOf
<1>2. <<t, v>> \in Structs
  BY IsStruct
<1>3. ErrorsBy(Errors, <<t, v>>) = RestErrors(t, v, 1)
  BY <1>1 DEF ErrorsBy, RestErrors
<1> QED
  BY <1>2, <1>3, ErrorsIs

LEMMA ListStep ==
  ASSUME NEW p, NEW list, IsList(p, list), list # <<>>
  PROVE  /\ Head(list) \in SUBSET Kept(p) /\ IsPointer(Head(list), Kept(p))
         /\ IsList(p, Tail(list))
         /\ ListErrors(p, list) = ElementErrors(p, Head(list)) \cup ListErrors(p, Tail(list))
<1> DEFINE S == SUBSET Kept(p)
           t == Tail(list)
<1>0. list \in Seq(S) /\ \A k \in 1..Len(list) : IsPointer(list[k], Kept(p))
  BY DEF IsList
<1> HIDE DEF S
<1>1. Head(list) = list[1] /\ Head(list) \in S /\ 1 \in 1..Len(list)
  BY <1>0
<1>2. t \in Seq(S) /\ Len(t) = Len(list) - 1 /\ \A k \in 1..Len(t) : t[k] = list[k + 1] /\ k + 1 \in 1..Len(list)
  BY <1>0
<1>3. IsList(p, t)
  BY <1>0, <1>2 DEF IsList, S
<1>4. \A k \in 1..Len(list) : k = 1 \/ (k - 1 \in 1..Len(t) /\ list[k] = t[k - 1])
  <2>1. Len(list) \in Nat
    BY <1>0
  <2>2. ASSUME NEW k \in 1..Len(list), k # 1 PROVE k - 1 \in 1..Len(t) /\ (k - 1) + 1 = k
    BY <1>2, <2>1, <2>2
  <2> QED
    BY <1>2, <2>2
<1>5. \A e : e \in ElementsOf(list) <=> \E k \in 1..Len(list) : e = list[k]
  BY DEF ElementsOf
<1>6. \A e : e \in ElementsOf(t) <=> \E k \in 1..Len(t) : e = t[k]
  BY DEF ElementsOf
<1> HIDE DEF t
<1>7. \A e : e \in ElementsOf(list) <=> e = Head(list) \/ e \in ElementsOf(t)
  BY <1>1, <1>2, <1>4, <1>5, <1>6
<1>8. ListErrors(p, list) = ElementErrors(p, Head(list)) \cup ListErrors(p, t)
  <2>1. \A a : a \in ListErrors(p, list) <=> \E e \in ElementsOf(list) : a \in ElementErrors(p, e)
    BY DEF ListErrors, ErrorsIn
  <2>2. \A a : a \in ListErrors(p, t) <=> \E e \in ElementsOf(t) : a \in ElementErrors(p, e)
    BY DEF ListErrors, ErrorsIn
  <2> QED
    BY <1>7, <2>1, <2>2
<1> QED
  BY <1>0, <1>1, <1>3, <1>8 DEF t, S

LEMMA ListEnd == \A p : ListErrors(p, <<>>) = {}
BY DEF ListErrors, ErrorsIn, ElementsOf

-----------------------------------------------------------------------------
(* Frames *)

FrameKeys == {"type", "v", "p", "todo", "iTag", "iLen", "iMsg", "elide"}

FrameOK(f) ==
  /\ f = [k \in FrameKeys |-> f[k]]
  /\ f.type \in DOMAIN Fields
  /\ f.v \in Values[f.type]
  /\ f.p \in 1..(Len(Fields[f.type]) + 1)
  /\ f.todo # <<>> =>
       /\ f.p > 1
       /\ Fields[f.type][f.p - 1].dec \in Nested \cup Custom
       /\ IsList(Fields[f.type][f.p - 1], f.todo)

LeftErrors(f) == ListErrors(Fields[f.type][f.p - 1], f.todo) \cup RestErrors(f.type, f.v, f.p)

LEMMA NewFrame ==
  ASSUME NEW t \in DOMAIN Fields, NEW v \in Values[t], NEW iTag, NEW iLen, NEW iMsg, NEW elide
  PROVE  /\ FrameOK(Frame(t, v, iTag, iLen, iMsg, elide))
         /\ LeftErrors(Frame(t, v, iTag, iLen, iMsg, elide)) = Errors[<<t, v>>]
<1> DEFINE f == Frame(t, v, iTag, iLen, iMsg, elide)
<1>1. f = [k \in FrameKeys |-> f[k]] /\ f.type = t /\ f.v = v /\ f.p = 1 /\ f.todo = <<>>
  BY DEF Frame, FrameKeys
<1>2. 1 \in 1..(Len(Fields[t]) + 1)
  BY LengthsAre
<1> HIDE DEF f
<1>3. FrameOK(f)
  BY <1>1, <1>2 DEF FrameOK
<1>4. LeftErrors(f) = Errors[<<t, v>>]
  BY <1>1, ListEnd, RestAll DEF LeftErrors
<1> QED
  BY <1>3, <1>4 DEF f

\* on to the next field
LEMMA NextField ==
  ASSUME NEW f, FrameOK(f), f.todo = <<>>, f.p <= Len(Fields[f.type]), NEW list,
         LET p == Fields[f.type][f.p] IN
           list # <<>> => p.dec \in Nested \cup Custom /\ IsList(p, list)
  PROVE  LET p == Fields[f.type][f.p]
             g == [f EXCEPT !.p = @ + 1, !.todo = list]
             h == [f EXCEPT !.p = @ + 1]
         IN  /\ FrameOK(g) /\ LeftErrors(g) = ListErrors(p, list) \cup RestErrors(f.type, f.v, f.p + 1)
             /\ list = <<>> => FrameOK(h) /\ LeftErrors(h) = RestErrors(f.type, f.v, f.p + 1)
             /\ InField(p, f.v[f.p])
             /\ LeftErrors(f) = FieldErrors(Errors, p, f.v[f.p]) \cup RestErrors(f.type, f.v, f.p + 1)
<1> DEFINE t == f.type
           n == f.p
           p == Fields[t][n]
           g == [f EXCEPT !.p = n + 1, !.todo = list]
           h == [f EXCEPT !.p = n + 1]
<1>1. /\ f = [k \in FrameKeys |-> f[k]]
      /\ t \in DOMAIN Fields /\ f.v \in Values[t] /\ n \in FieldsOf(t)
      /\ n \in Nat /\ n + 1 \in 1..(Len(Fields[t]) + 1) /\ n + 1 > 1 /\ (n + 1) - 1 = n
  BY LengthsAre DEF FrameOK, FieldsOf
<1>2. /\ g = [k \in FrameKeys |-> g[k]] /\ g.type = t /\ g.v = f.v /\ g.p = n + 1 /\ g.todo = list
      /\ h = [k \in FrameKeys |-> h[k]] /\ h.type = t /\ h.v = f.v /\ h.p = n + 1 /\ h.todo = <<>>
  BY <1>1 DEF FrameKeys
<1> HIDE DEF g, h
<1>3. FrameOK(g) /\ (list = <<>> => FrameOK(h))
  BY <1>1, <1>2 DEF FrameOK
<1>4. LeftErrors(g) = ListErrors(p, list) \cup RestErrors(t, f.v, n + 1)
  BY <1>1, <1>2 DEF LeftErrors
<1>5. LeftErrors(h) = RestErrors(t, f.v, n + 1)
  BY <1>1, <1>2, ListEnd DEF LeftErrors
<1>6. InField(p, f.v[n])
  BY <1>1, ValueOfField
<1>7. LeftErrors(f) = FieldErrors(Errors, p, f.v[n]) \cup RestErrors(t, f.v, n + 1)
  BY <1>1, ListEnd, RestStep DEF LeftErrors
<1> QED
  BY <1>3, <1>4, <1>5, <1>6, <1>7 DEF g, h

\* with fewer messages to write: all but the first, or none
LEMMA FewerMessages ==
  ASSUME NEW f, FrameOK(f), f.todo # <<>>
  PROVE  LET q == Fields[f.type][f.p - 1]
             g == [f EXCEPT !.todo = Tail(@)]
             h == [f EXCEPT !.todo = <<>>]
             e == Head(f.todo)
         IN  /\ FrameOK(g) /\ FrameOK(h)
             /\ q.dec \in Nested \cup Custom /\ q \in FieldProperties /\ q.stype \in DOMAIN Fields
             /\ IsPointer(e, Kept(q))
             /\ LeftErrors(f) = ElementErrors(q, e) \cup LeftErrors(g)
<1> DEFINE t == f.type
           n == f.p
           q == Fields[t][n - 1]
           e == Head(f.todo)
           g == [f EXCEPT !.todo = Tail(f.todo)]
           h == [f EXCEPT !.todo = <<>>]
<1>1. /\ f = [k \in FrameKeys |-> f[k]]
      /\ t \in DOMAIN Fields /\ f.v \in Values[t] /\ n \in 1..(Len(Fields[t]) + 1)
      /\ n > 1 /\ q.dec \in Nested \cup Custom /\ IsList(q, f.todo)
  BY DEF FrameOK
<1>2. /\ g = [k \in FrameKeys |-> g[k]] /\ g.type = t /\ g.v = f.v /\ g.p = n /\ g.todo = Tail(f.todo)
      /\ h = [k \in FrameKeys |-> h[k]] /\ h.type = t /\ h.v = f.v /\ h.p = n /\ h.todo = <<>>
  BY <1>1 DEF FrameKeys
<1>3. n - 1 \in FieldsOf(t)
  BY <1>1, LengthsAre DEF FieldsOf
<1>4. /\ IsPointer(e, Kept(q)) /\ IsList(q, Tail(f.todo))
      /\ ListErrors(q, f.todo) = ElementErrors(q, e) \cup ListErrors(q, Tail(f.todo))
  BY <1>1, ListStep
<1> HIDE DEF g, h
<1>5. FrameOK(g) /\ FrameOK(h)
  BY <1>1, <1>2, <1>4 DEF FrameOK
<1>6. LeftErrors(f) = ElementErrors(q, e) \cup LeftErrors(g)
  BY <1>2, <1>4 DEF LeftErrors
<1> QED
  BY <1>1, <1>3, <1>4, <1>5, <1>6, FieldFacts DEF g, h

LEMMA LastField ==
  ASSUME NEW f, FrameOK(f), f.todo = <<>>, ~(f.p <= Len(Fields[f.type]))
  PROVE  LeftErrors(f) = {}
<1>1. f.type \in DOMAIN Fields /\ f.p \in Int /\ f.p > Len(Fields[f.type])
  BY LengthsAre DEF FrameOK
<1> QED
  BY <1>1, ListEnd, RestEnd DEF LeftErrors

-----------------------------------------------------------------------------
(* The stack *)

FramesOK(s) == s \in Seq({s[k] : k \in 1..Len(s)}) /\ \A k \in 1..Len(s) : FrameOK(s[k])
AllLeft(s)  == UNION {LeftErrors(s[k]) : k \in 1..Len(s)}

LEMMA StackPush ==
  ASSUME NEW s, NEW f, FramesOK(s), FrameOK(f)
  PROVE  /\ FramesOK(Append(s, f)) /\ Append(s, f) # <<>>
         /\ AllLeft(Append(s, f)) = AllLeft(s) \cup LeftErrors(f)
<1> DEFINE S == {s[k] : k \in 1..Len(s)} \cup {f}
           n == Len(s)
           t == Append(s, f)
<1>1. s \in Seq(S) /\ n \in Nat
  <2> DEFINE R == {s[k] : k \in 1..Len(s)}
  <2>1. s \in Seq(R) /\ R \subseteq S
    BY DEF FramesOK
  <2> HIDE DEF R, S
  <2> QED
    BY <2>1
<1> HIDE DEF S
<1>2. f \in S
  BY DEF S
<1>3. t \in Seq(S) /\ Len(t) = n + 1 /\ t[n + 1] = f /\ \A k \in 1..n : t[k] = s[k]
  BY <1>1, <1>2
<1> HIDE DEF t
<1>4. t \in Seq({t[k] : k \in 1..Len(t)})
  <2>1. t = [k \in 1..Len(t) |-> t[k]] /\ Len(t) \in Nat
    BY <1>1, <1>3
  <2> QED
    BY <2>1
<1>5. \A k \in 1..(n + 1) : k \in 1..n \/ k = n + 1
  BY <1>1
<1>6. FramesOK(t)
  BY <1>3, <1>4, <1>5 DEF FramesOK
<1>7. AllLeft(t) = AllLeft(s) \cup LeftErrors(f)
  <2>1. \A a : a \in AllLeft(t) <=> \E k \in 1..(n + 1) : a \in LeftErrors(t[k])
    BY <1>3 DEF AllLeft
  <2>2. \A a : a \in AllLeft(s) <=> \E k \in 1..n : a \in LeftErrors(s[k])
    BY DEF AllLeft
  <2>3. n + 1 \in 1..(n + 1) /\ \A k \in 1..n : k \in 1..(n + 1)
    BY <1>1
  <2> QED
    BY <1>3, <1>5, <2>1, <2>2, <2>3
<1>8. t # <<>>
  BY <1>1, <1>3
<1> QED
  BY <1>6, <1>7, <1>8 DEF t

LEMMA EmptyStack == FramesOK(<<>>) /\ AllLeft(<<>>) = {}
<1>1. <<>> \in Seq({}) /\ 1..Len(<<>>) = {}
  OBVIOUS
<1> QED
  BY <1>1 DEF FramesOK, AllLeft

\* a stack is what is below its top, and the top
LEMMA StackIs ==
  ASSUME NEW s, FramesOK(s), s # <<>>
  PROVE  LET n == Len(s)
             b == SubSeq(s, 1, n - 1)
         IN  /\ FramesOK(b) /\ FrameOK(s[n])
             /\ AllLeft(s) = AllLeft(b) \cup LeftErrors(s[n])
             /\ \A f : [s EXCEPT ![n] = f] = Append(b, f)
             /\ n = 1 => b = <<>>
<1> DEFINE S == {s[k] : k \in 1..Len(s)}
           n == Len(s)
           b == SubSeq(s, 1, n - 1)
<1>1. s \in Seq(S) /\ n \in Nat
  BY DEF FramesOK
<1> HIDE DEF S
<1>2. n >= 1 /\ n - 1 \in Nat /\ n \in 1..n
  BY <1>1
<1>3. b \in Seq(S) /\ Len(b) = n - 1 /\ \A k \in 1..(n - 1) : b[k] = s[k] /\ k \in 1..n
  <2> HIDE DEF n
  <2>1. b = [k \in 1..(n - 1) |-> s[k]]
    BY <1>1, <1>2 DEF n
  <2>2. \A k \in 1..(n - 1) : k \in 1..n /\ s[k] \in S
    BY <1>1, <1>2 DEF n
  <2> HIDE DEF b
  <2> QED
    BY <1>2, <2>1, <2>2
<1>4. n = 1 => b = <<>>
  BY <1>3
<1>5. \A f : [s EXCEPT ![n] = f] = Append(b, f)
  <2> TAKE f
  <2> DEFINE t == [s EXCEPT ![n] = f]
             u == Append(b, f)
  <2>1. t = [k \in 1..n |-> IF k = n THEN f ELSE s[k]]
    BY <1>1, <1>2
  <2>2. b \in Seq(S \cup {f}) /\ f \in S \cup {f}
    BY <1>3
  <2> DEFINE W == S \cup {f}
  <2> HIDE DEF b, W
  <2>3. u \in Seq(W) /\ Len(u) = n /\ u[n] = f /\ \A k \in 1..(n - 1) : u[k] = b[k]
    BY <1>2, <1>3, <2>2 DEF W
  <2>5. \A k \in 1..n : k # n => k \in 1..(n - 1)
    BY <1>2
  <2> HIDE DEF u, t
  <2>4. u = [k \in 1..n |-> u[k]]
    BY <2>3
  <2>6. \A k \in 1..n : u[k] = IF k = n THEN f ELSE s[k]
    BY <1>3, <2>3, <2>5
  <2>7. t = u
    BY <2>1, <2>4, <2>6
  <2> QED
    BY <2>7 DEF t, u
<1> HIDE DEF b
<1>6. b \in Seq({b[k] : k \in 1..Len(b)})
  <2>1. b = [k \in 1..Len(b) |-> b[k]] /\ Len(b) \in Nat
    BY <1>2, <1>3
  <2> QED
    BY <2>1
<1>7. FramesOK(b) /\ FrameOK(s[n])
  BY <1>2, <1>3, <1>6 DEF FramesOK
<1>8. AllLeft(s) = AllLeft(b) \cup LeftErrors(s[n])
  <2>1. \A a : a \in AllLeft(s) <=> \E k \in 1..n : a \in LeftErrors(s[k])
    BY DEF AllLeft
  <2>2. \A a : a \in AllLeft(b) <=> \E k \in 1..(n - 1) : a \in LeftErrors(b[k])
    BY <1>3 DEF AllLeft
  <2>3. \A k \in 1..n : k = n \/ k \in 1..(n - 1)
    BY <1>2
  <2> QED
    BY <1>2, <1>3, <2>1, <2>2, <2>3
<1> QED
  BY <1>4, <1>5, <1>7, <1>8 DEF b

-----------------------------------------------------------------------------
(* No error is lost *)

Placed ==
  /\ root \in Roots
  /\ given \subseteq Values[root] \cup {NoValue}
  /\ FramesOK(stack)
  /\ Working => value \in Values[root] /\ value \in given

Noted ==
  /\ err # None => \E v \in given : err \in ErrorsOf(v)
  /\ err = None => \A v \in given : ErrorsOf(v) = {} \/ (Working /\ v = value)
  /\ err = None /\ Working => AllLeft(stack) = Errors[<<root, value>>]
  /\ Returned => result = err

ErrorsInv == Placed /\ Noted

LEMMA NoneIsNoError == HasNil # None /\ Rejected # None
BY DEF HasNil, Rejected, None

\* a step in the top frame that meets no error: the frames that replace it have the same left
LEMMA NothingMet ==
  ASSUME ErrorsInv, Working, FramesOK(stack'), stack' # <<>>, AllLeft(stack') = AllLeft(stack),
         UNCHANGED <<client, err, result>>
  PROVE  ErrorsInv'
<1>1. Working'
  BY DEF Working, Idle
<1>2. UNCHANGED <<root, value, given, err>>
  BY DEF client
<1>3. \A v : ErrorsOf(v)' = ErrorsOf(v)
  BY <1>2 DEF ErrorsOf
<1>4. Placed'
  BY <1>1, <1>2 DEF ErrorsInv, Placed
<1>5. Noted'
  BY <1>1, <1>2, <1>3 DEF ErrorsInv, Noted, Returned, Working
<1> QED
  BY <1>4, <1>5 DEF ErrorsInv

\* a step that meets an error
LEMMA ErrorMet ==
  ASSUME ErrorsInv, Working, FramesOK(stack'), stack' # <<>>, NEW e, e # None,
         err = None => e \in AllLeft(stack), err' = noteError(e), UNCHANGED <<client, result>>
  PROVE  ErrorsInv'
<1>1. Working' /\ value # NoValue
  <2>1. value \in Values[root] /\ root \in DOMAIN Fields
    BY RootsAssumption DEF ErrorsInv, Placed
  <2> QED
    BY <2>1, ValuesAssumption DEF Working, Idle
<1>2. UNCHANGED <<root, value, given>>
  BY DEF client
<1>3. \A v : ErrorsOf(v)' = ErrorsOf(v)
  BY <1>2 DEF ErrorsOf
<1>4. Placed'
  BY <1>1, <1>2 DEF ErrorsInv, Placed
<1>5. err' # None
  BY DEF noteError
<1>6. \E v \in given : err' \in ErrorsOf(v)
  <2>1. CASE err = None
    <3>1. err' = e /\ e \in Errors[<<root, value>>]
      BY <2>1 DEF noteError, ErrorsInv, Noted
    <3>2. ErrorsOf(value) = Errors[<<root, value>>] /\ value \in given
      BY <1>1 DEF ErrorsOf, ErrorsInv, Placed
    <3> QED
      BY <3>1, <3>2
  <2>2. CASE err # None
    BY <2>2 DEF noteError, ErrorsInv, Noted
  <2> QED
    BY <2>1, <2>2
<1>7. Noted'
  BY <1>1, <1>2, <1>3, <1>5, <1>6 DEF Noted, Returned, Working
<1> QED
  BY <1>4, <1>7 DEF ErrorsInv

LEMMA ErrorsStart == Init => ErrorsInv
<1> SUFFICES ASSUME Init PROVE ErrorsInv
  OBVIOUS
<1>1. Idle /\ ~Working /\ ~Returned
  BY DEF Init, Idle, Working, Returned
<1>2. Placed
  BY <1>1, EmptyStack DEF Init, Placed
<1> QED
  BY <1>1, <1>2 DEF Init, ErrorsInv, Noted

\* the frame at the top, and those below it
LEMMA TopOfStack ==
  ASSUME ErrorsInv, Working
  PROVE  /\ FrameOK(F) /\ FramesOK(Outer)
         /\ AllLeft(stack) = AllLeft(Outer) \cup LeftErrors(F)
         /\ \A f : With(f) = Append(Outer, f)
         /\ Len(stack) = 1 => Outer = <<>>
<1>1. FramesOK(stack) /\ stack # <<>>
  BY DEF ErrorsInv, Placed, Working, Idle
<1> QED
  BY <1>1, StackIs DEF F, Outer, With

\* a frame takes the place of the top one
LEMMA TopReplaced ==
  ASSUME ErrorsInv, Working, NEW f, FrameOK(f)
  PROVE  /\ FramesOK(With(f)) /\ With(f) # <<>>
         /\ AllLeft(With(f)) = AllLeft(Outer) \cup LeftErrors(f)
<1>1. FramesOK(Outer) /\ With(f) = Append(Outer, f)
  BY TopOfStack
<1> QED
  BY <1>1, StackPush

LEMMA MarshalErrors == ErrorsInv /\ Marshal => ErrorsInv'
<1> SUFFICES ASSUME ErrorsInv, Marshal PROVE ErrorsInv'
  OBVIOUS
<1> DEFINE f == Frame(root, value', Len(buf), Len(buf), Len(buf), FALSE)
<1>1. root \in Roots /\ root \in DOMAIN Fields /\ value' \in Values[root]
  BY RootsAssumption DEF ErrorsInv, Placed, Marshal
<1>2. FrameOK(f) /\ LeftErrors(f) = Errors[<<root, value'>>]
  BY <1>1, NewFrame
<1>3. stack' = <<f>>
  BY DEF Marshal
<1> HIDE DEF f
<1>4. stack' = Append(<<>>, f)
  BY <1>3
<1>5. FramesOK(stack') /\ stack' # <<>> /\ AllLeft(stack') = Errors[<<root, value'>>]
  BY <1>2, <1>4, EmptyStack, StackPush
<1>6. /\ UNCHANGED <<root, err>> /\ given' = given \cup {value'}
      /\ Idle /\ Working' /\ ~Returned'
  BY <1>5 DEF Marshal, Working, Idle, Returned
<1>7. \A v : ErrorsOf(v)' = ErrorsOf(v)
  BY <1>6 DEF ErrorsOf
<1>8. Placed'
  BY <1>1, <1>5, <1>6 DEF Placed, ErrorsInv
<1>9. Noted'
  BY <1>5, <1>6, <1>7 DEF Noted, ErrorsInv, Working
<1> QED
  BY <1>8, <1>9 DEF ErrorsInv

LEMMA MarshalSelfErrors == ErrorsInv /\ MarshalSelf => ErrorsInv'
<1> SUFFICES ASSUME ErrorsInv, MarshalSelf PROVE ErrorsInv'
  OBVIOUS
<1>1. PICK e \in {None, Rejected} :
        /\ err' = IF e = None THEN err ELSE noteError(e)
        /\ given' = IF e = None THEN given ELSE given \cup {NoValue}
  BY DEF MarshalSelf
<1>2. /\ Idle /\ ~Working /\ ~Working' /\ Idle'
      /\ UNCHANGED <<root, stack>> /\ result' = err'
  BY DEF MarshalSelf, Working, Idle
<1>3. \A v : ErrorsOf(v)' = ErrorsOf(v)
  BY <1>2 DEF ErrorsOf
<1>4. ErrorsOf(NoValue) = {Rejected}
  BY DEF ErrorsOf
<1>5. Placed'
  BY <1>1, <1>2 DEF Placed, ErrorsInv
<1>6. Noted'
  <2>1. CASE e = None
    BY <1>1, <1>2, <1>3, <2>1 DEF Noted, ErrorsInv
  <2>2. CASE e = Rejected
    <3>1. err' # None /\ (err = None => err' = Rejected) /\ (err # None => err' = err)
      BY <1>1, <2>2, NoneIsNoError DEF noteError
    <3>2. given' = given \cup {NoValue}
      BY <1>1, <2>2, NoneIsNoError
    <3>3. \E v \in given' : err' \in ErrorsOf(v)
      BY <1>4, <3>1, <3>2 DEF Noted, ErrorsInv
    <3> QED
      BY <1>2, <1>3, <3>1, <3>3 DEF Noted
  <2> QED
    BY <2>1, <2>2
<1> QED
  BY <1>5, <1>6 DEF ErrorsInv

LEMMA ResetErrors == ErrorsInv /\ Reset => ErrorsInv'
<1> SUFFICES ASSUME ErrorsInv, Reset PROVE ErrorsInv'
  OBVIOUS
<1>1. ~Working' /\ ~Returned' /\ err' = None /\ given' = {} /\ UNCHANGED <<root, stack>>
  BY DEF Reset, Working, Idle, Returned
<1>2. Placed'
  BY <1>1 DEF Placed, ErrorsInv
<1>3. Noted'
  BY <1>1 DEF Noted
<1> QED
  BY <1>2, <1>3 DEF ErrorsInv

\* the next field of the struct at the top
LEMMA FieldOfTop ==
  ASSUME ErrorsInv, Working, F.todo = <<>>, More, NEW list,
         list # <<>> => P.dec \in Nested \cup Custom /\ IsList(P, list)
  PROVE  LET g == [F EXCEPT !.p = @ + 1, !.todo = list]
             h == [F EXCEPT !.p = @ + 1]
             rest == RestErrors(F.type, F.v, F.p + 1)
         IN  /\ FrameOK(g) /\ LeftErrors(g) = ListErrors(P, list) \cup rest
             /\ list = <<>> => FrameOK(h) /\ LeftErrors(h) = rest
             /\ InField(P, F.v[F.p])
             /\ LeftErrors(F) = FieldErrors(Errors, P, F.v[F.p]) \cup rest
<1>1. FrameOK(F)
  BY TopOfStack
<1> QED
  BY <1>1, NextField DEF More, P

LEMMA EncLeafErrors == ErrorsInv /\ EncLeaf => ErrorsInv'
<1> SUFFICES ASSUME ErrorsInv, EncLeaf PROVE ErrorsInv'
  OBVIOUS
<1> DEFINE h == [F EXCEPT !.p = @ + 1]
<1>1. Working /\ F.todo = <<>> /\ More /\ P.dec \notin Nested \cup Custom /\ stack' = With(h) /\ UNCHANGED <<client, err, result>>
  BY DEF EncLeaf
<1>2. FrameOK(h) /\ LeftErrors(F) = FieldErrors(Errors, P, F.v[F.p]) \cup LeftErrors(h)
  BY <1>1, FieldOfTop
<1> HIDE DEF h
<1>3. LeftErrors(F) = LeftErrors(h)
  BY <1>1, <1>2, OthersHaveNone
<1>4. FramesOK(stack') /\ stack' # <<>> /\ AllLeft(stack') = AllLeft(stack)
  BY <1>1, <1>2, <1>3, TopOfStack, TopReplaced
<1> QED
  BY <1>1, <1>4, NothingMet

LEMMA EncMessagesErrors == ErrorsInv /\ EncMessages => ErrorsInv'
<1> SUFFICES ASSUME ErrorsInv, EncMessages PROVE ErrorsInv'
  OBVIOUS
<1>1. Working /\ F.todo = <<>> /\ More /\ P.dec \in Nested \cup Custom /\ UNCHANGED <<client, err, result>>
  BY DEF EncMessages
<1>2. PICK list \in Messages(P, F.v[F.p]) : stack' = With([F EXCEPT !.p = @ + 1, !.todo = list])
  BY DEF EncMessages
<1> DEFINE g == [F EXCEPT !.p = @ + 1, !.todo = list]
           rest == RestErrors(F.type, F.v, F.p + 1)
<1>3. InField(P, F.v[F.p]) /\ LeftErrors(F) = FieldErrors(Errors, P, F.v[F.p]) \cup rest
  BY <1>1, FieldOfTop
<1>4. IsList(P, list) /\ ListErrors(P, list) = FieldErrors(Errors, P, F.v[F.p])
  BY <1>1, <1>3, ListsAre, MessagesErrors
<1>5. FrameOK(g) /\ LeftErrors(g) = ListErrors(P, list) \cup rest
  BY <1>1, <1>4, FieldOfTop
<1>6. stack' = With(g)
  BY <1>2
<1> HIDE DEF g, rest
<1>7. FramesOK(stack') /\ stack' # <<>> /\ AllLeft(stack') = AllLeft(stack)
  BY <1>1, <1>3, <1>4, <1>5, <1>6, TopOfStack, TopReplaced
<1> QED
  BY <1>1, <1>7, NothingMet

\* the next message of the field at the top
LEMMA MessageOfTop ==
  ASSUME ErrorsInv, Working, F.todo # <<>>
  PROVE  LET g == [F EXCEPT !.todo = Tail(@)]
             e == Head(F.todo)
         IN  /\ FrameOK(g)
             /\ FramesOK(GoOn(F)) /\ GoOn(F) # <<>> /\ FramesOK(Stop(F)) /\ Stop(F) # <<>>
             /\ GoOn(F) = With(g)
             /\ AllLeft(stack) = AllLeft(GoOn(F)) \cup ElementErrors(Q, e)
             /\ Q.dec \in Nested \cup Custom /\ Q \in FieldProperties /\ Q.stype \in DOMAIN Fields
             /\ IsPointer(e, Kept(Q))
<1> DEFINE g == [F EXCEPT !.todo = Tail(@)]
           h == [F EXCEPT !.todo = <<>>]
           e == Head(F.todo)
<1>1. FrameOK(F) /\ AllLeft(stack) = AllLeft(Outer) \cup LeftErrors(F)
  BY TopOfStack
<1>2. /\ FrameOK(g) /\ FrameOK(h)
      /\ Q.dec \in Nested \cup Custom /\ Q \in FieldProperties /\ Q.stype \in DOMAIN Fields
      /\ IsPointer(e, Kept(Q))
      /\ LeftErrors(F) = ElementErrors(Q, e) \cup LeftErrors(g)
  BY <1>1, FewerMessages DEF Q
<1>3. GoOn(F) = With(g) /\ Stop(F) = With(h)
  BY DEF GoOn, Stop
<1> HIDE DEF g, h, e
<1>4. FramesOK(With(g)) /\ With(g) # <<>> /\ FramesOK(With(h)) /\ With(h) # <<>>
  BY <1>2, TopReplaced
<1>5. AllLeft(With(g)) = AllLeft(Outer) \cup LeftErrors(g)
  BY <1>2, TopReplaced
<1>6. AllLeft(stack) = AllLeft(GoOn(F)) \cup ElementErrors(Q, e)
  BY <1>1, <1>2, <1>3, <1>5
<1> QED
  BY <1>2, <1>3, <1>4, <1>6 DEF g, h, e

LEMMA NilElementErrors == ErrorsInv /\ NilElement => ErrorsInv'
<1> SUFFICES ASSUME ErrorsInv, NilElement PROVE ErrorsInv'
  OBVIOUS
<1>1. /\ Working /\ F.todo # <<>> /\ Head(F.todo) = {} /\ err' = noteError(HasNil) /\ stack' = Stop(F)
      /\ UNCHANGED <<client, result>>
  BY DEF NilElement
<1>2. ElementErrors(Q, Head(F.todo)) = {HasNil}
  BY <1>1 DEF ElementErrors
<1>3. HasNil \in AllLeft(stack) /\ FramesOK(stack') /\ stack' # <<>>
  BY <1>1, <1>2, MessageOfTop
<1> QED
  BY <1>1, <1>3, NoneIsNoError, ErrorMet

\* what an element points to
LEMMA Pointed ==
  ASSUME NEW S, NEW e, IsPointer(e, S), e # {}
  PROVE  The(e) \in S /\ e = {The(e)}
<1>1. PICK y \in e : TRUE
  OBVIOUS
<1>2. e = {y} /\ y \in S
  BY <1>1 DEF IsPointer
<1> QED
  BY <1>2, TheIs

LEMMA ElementErrorsKept == ErrorsInv /\ Element => ErrorsInv'
<1> SUFFICES ASSUME ErrorsInv, Element PROVE ErrorsInv'
  OBVIOUS
<1>1. /\ Working /\ F.todo # <<>> /\ Head(F.todo) # {} /\ Q.dec \in Nested
      /\ UNCHANGED <<client, err, result>>
  BY DEF Element
<1>2. PICK room \in Reserved :
        LET iLen == Len(buf) + Len(tagcode(Q))
        IN  stack' = Append(GoOn(F), Frame(Q.stype, The(Head(F.todo)), Len(buf), iLen, iLen + room, Q.dec = "struct"))
  BY DEF Element
<1> DEFINE e == Head(F.todo)
           iLen == Len(buf) + Len(tagcode(Q))
           f == Frame(Q.stype, The(e), Len(buf), iLen, iLen + room, Q.dec = "struct")
<1>3. Q.stype \in DOMAIN Fields /\ IsPointer(e, Kept(Q)) /\ FramesOK(GoOn(F))
      /\ AllLeft(stack) = AllLeft(GoOn(F)) \cup ElementErrors(Q, e)
  BY <1>1, MessageOfTop
<1>4. The(e) \in Values[Q.stype] /\ e = {The(e)}
  BY <1>1, <1>3, Pointed, KeptIs
<1>5. FrameOK(f) /\ LeftErrors(f) = Errors[<<Q.stype, The(e)>>]
  BY <1>3, <1>4, NewFrame
<1>6. ElementErrors(Q, e) = Errors[<<Q.stype, The(e)>>]
  <2>1. Q.dec \notin Custom
    BY <1>1 DEF Nested, Custom
  <2> QED
    BY <1>1, <2>1 DEF ElementErrors
<1>7. stack' = Append(GoOn(F), f)
  BY <1>2
<1> HIDE DEF f, e
<1>8. FramesOK(stack') /\ stack' # <<>> /\ AllLeft(stack') = AllLeft(stack)
  BY <1>3, <1>5, <1>6, <1>7, StackPush
<1> QED
  BY <1>1, <1>8, NothingMet

LEMMA MessageDoneErrors == ErrorsInv /\ MessageDone => ErrorsInv'
<1> SUFFICES ASSUME ErrorsInv, MessageDone PROVE ErrorsInv'
  OBVIOUS
<1>1. /\ Working /\ F.todo = <<>> /\ ~More /\ Len(stack) > 1 /\ stack' = Outer
      /\ UNCHANGED <<client, err, result>>
  BY DEF MessageDone
<1>2. FrameOK(F) /\ FramesOK(Outer) /\ AllLeft(stack) = AllLeft(Outer) \cup LeftErrors(F)
  BY <1>1, TopOfStack
<1>3. LeftErrors(F) = {}
  BY <1>1, <1>2, LastField DEF More
<1>4. Outer # <<>>
  <2>1. Len(stack) - 1 \in Nat /\ Len(stack) - 1 > 0 /\ Len(Outer) = Len(stack) - 1
    <3> DEFINE S == {stack[k] : k \in 1..Len(stack)}
    <3>1. stack \in Seq(S)
      BY DEF ErrorsInv, Placed, FramesOK
    <3> HIDE DEF S
    <3>2. Len(stack) \in Nat
      BY <3>1
    <3>3. \A i \in 1..(Len(stack) - 1) : stack[i] \in S
      BY <3>1
    <3> QED
      BY <1>1, <3>2, <3>3, SubSeqProperties DEF Outer
  <2> QED
    BY <2>1
<1> QED
  BY <1>1, <1>2, <1>3, <1>4, NothingMet

LEMMA MarshalReturnsErrors == ErrorsInv /\ MarshalReturns => ErrorsInv'
<1> SUFFICES ASSUME ErrorsInv, MarshalReturns PROVE ErrorsInv'
  OBVIOUS
<1>1. /\ Working /\ F.todo = <<>> /\ ~More /\ Len(stack) = 1 /\ stack' = Outer /\ result' = err
      /\ UNCHANGED <<root, value, given, err>>
  BY DEF MarshalReturns, client
<1>2. FrameOK(F) /\ Outer = <<>> /\ AllLeft(stack) = AllLeft(Outer) \cup LeftErrors(F)
  BY <1>1, TopOfStack
<1>3. LeftErrors(F) = {}
  BY <1>1, <1>2, LastField DEF More
<1>4. AllLeft(stack) = {}
  BY <1>2, <1>3, EmptyStack
<1>5. value \in Values[root] /\ value # NoValue
  <2>1. root \in DOMAIN Fields /\ value \in Values[root]
    BY <1>1, RootsAssumption DEF ErrorsInv, Placed
  <2> QED
    BY <2>1, ValuesAssumption
<1>6. err = None => \A v \in given : ErrorsOf(v) = {}
  BY <1>1, <1>4, <1>5 DEF ErrorsInv, Noted, ErrorsOf
<1>7. \A v : ErrorsOf(v)' = ErrorsOf(v)
  BY <1>1 DEF ErrorsOf
<1>8. ~Working'
  BY <1>1, <1>2 DEF Working, Idle
<1>9. Placed'
  BY <1>1, <1>2, <1>8, EmptyStack DEF ErrorsInv, Placed
<1>10. Noted'
  BY <1>1, <1>6, <1>7, <1>8 DEF ErrorsInv, Noted
<1> QED
  BY <1>9, <1>10 DEF ErrorsInv

\* the payload of a type that marshals itself
LEMMA PayloadErrors ==
  ASSUME ErrorsInv, CustomElement
  PROVE  /\ Working /\ F.todo # <<>>
         /\ ElementErrors(Q, Head(F.todo)) = Refusal({Payload})
BY DEF CustomElement, ElementErrors, Payload

LEMMA PayloadTaken ==
  ASSUME ErrorsInv, CustomElement, Payload \notin Refused, stack' = GoOn(F), UNCHANGED <<client, err, result>>
  PROVE  ErrorsInv'
<1>1. Working /\ F.todo # <<>> /\ ElementErrors(Q, Head(F.todo)) = {}
  BY PayloadErrors DEF Refusal
<1>2. FramesOK(stack') /\ stack' # <<>> /\ AllLeft(stack') = AllLeft(stack)
  BY <1>1, MessageOfTop
<1> QED
  BY <1>1, <1>2, NothingMet

LEMMA PayloadRefused ==
  ASSUME ErrorsInv, CustomElement, Payload \in Refused, stack' \in {GoOn(F), Stop(F)},
         err' = noteError(Rejected), UNCHANGED <<client, result>>
  PROVE  ErrorsInv'
<1>1. Working /\ F.todo # <<>> /\ ElementErrors(Q, Head(F.todo)) = {Rejected}
  BY PayloadErrors DEF Refusal
<1>2. FramesOK(stack') /\ stack' # <<>> /\ Rejected \in AllLeft(stack)
  BY <1>1, MessageOfTop
<1> QED
  BY <1>1, <1>2, NoneIsNoError, ErrorMet

LEMMA CustomErrorsKept == ErrorsInv /\ enc_custom => ErrorsInv'
<1> SUFFICES ASSUME ErrorsInv, enc_custom PROVE ErrorsInv'
  OBVIOUS
<1>1. CASE MarshalerElement
  BY <1>1, PayloadTaken DEF MarshalerElement
<1>2. CASE MarshalerFails
  BY <1>2, PayloadRefused DEF MarshalerFails
<1>3. CASE AppenderElement
  BY <1>3, PayloadTaken DEF AppenderElement
<1>4. CASE AppenderFails
  BY <1>4, PayloadRefused DEF AppenderFails
<1> QED
  BY <1>1, <1>2, <1>3, <1>4 DEF enc_custom

LEMMA ErrorsStep == ErrorsInv /\ [Next]_vars => ErrorsInv'
<1> SUFFICES ASSUME ErrorsInv, [Next]_vars PROVE ErrorsInv'
  OBVIOUS
<1>1. CASE Marshal
  BY <1>1, MarshalErrors
<1>2. CASE MarshalSelf
  BY <1>2, MarshalSelfErrors
<1>3. CASE Reset
  BY <1>3, ResetErrors
<1>4. CASE enc_struct
  BY <1>4, EncLeafErrors, EncMessagesErrors, NilElementErrors, ElementErrorsKept, MessageDoneErrors,
     MarshalReturnsErrors DEF enc_struct
<1>5. CASE enc_custom
  BY <1>5, CustomErrorsKept
<1>6. CASE UNCHANGED vars
  BY <1>6 DEF vars, client, ErrorsInv, Placed, Noted, Returned, Working, Idle, ErrorsOf
<1> QED
  BY <1>1, <1>2, <1>3, <1>4, <1>5, <1>6 DEF Next

LEMMA ErrorsReported == ErrorsInv => ReportsErrors
<1> SUFFICES ASSUME ErrorsInv, Returned PROVE IF result = None THEN \A v \in given : ErrorsOf(v) = {}
                                                 ELSE \E v \in given : result \in ErrorsOf(v)
  BY DEF ReportsErrors
<1>1. result = err /\ ~Working
  BY DEF ErrorsInv, Noted, Returned, Working
<1> QED
  BY <1>1 DEF ErrorsInv, Noted

\* No error is lost and none is made up: what Marshal returns is an error that came up in one of the
\* values marshaled since Reset, at whatever depth, and None only if none has any.
THEOREM ErrorsAreReported == Spec => []ReportsErrors
<1>1. Init => ErrorsInv
  BY ErrorsStart
<1>2. ErrorsInv /\ [Next]_vars => ErrorsInv'
  BY ErrorsStep
<1>3. ErrorsInv => ReportsErrors
  BY ErrorsReported
<1> QED
  BY <1>1, <1>2, <1>3, PTL DEF Spec

-----------------------------------------------------------------------------
(* What is written are bytes *)

LEMMA TagBytes ==
  ASSUME NEW p \in FieldProperties
  PROVE  tagcode(p) \in Seq(Bytes)
<1>1. Word32 \in Nat /\ Word32 > 0 /\ Word32 < Word /\ Word \in Nat
  BY WireAssumption, Word32Assumption
<1>2. p.tag \in Nat /\ p.wire \in Nat
  BY <1>1 DEF FieldProperties, WireVarint, WireBytes, WireFixed32, WireFixed64
<1>3. 8 * p.tag + p.wire \in Nat
  BY <1>2
<1> DEFINE key == (8 * p.tag + p.wire) % Word32
<1>4. key \in Nat /\ key < Word
  BY <1>1, <1>3
<1> HIDE DEF key
<1>5. EncodeVarint(key) \in Seq(Bytes)
  BY <1>4, VarintSizes
<1> QED
  BY <1>5 DEF tagcode, key

LEMMA ItemBytes ==
  ASSUME NEW p \in FieldProperties, NEW s \in Texts
  PROVE  Item(p, s) \in Seq(Bytes)
<1>1. s \in Seq(Bytes) /\ Len(s) \in Nat /\ Len(s) < Word
  BY DEF Texts
<1>2. EncodeVarint(Len(s)) \in Seq(Bytes) /\ tagcode(p) \in Seq(Bytes)
  BY <1>1, VarintSizes, TagBytes
<1> QED
  BY <1>1, <1>2 DEF Item, Raw

LEMMA NumberIsBytes ==
  ASSUME NEW p \in FieldProperties, NEW u \in 0..(p.word - 1)
  PROVE  Number(p, u) \in Seq(Bytes)
<1>1. Word \in Nat /\ p.word \in 1..Word /\ p.val \in {"varint", "zigzag32", "zigzag64", "fixed32", "fixed64"}
  BY WireAssumption DEF FieldProperties
<1>2. AsUint64(u, p.word, p.signed) \in Nat /\ AsUint64(u, p.word, p.signed) < Word
  BY <1>1 DEF AsUint64
<1> QED
  BY <1>1, <1>2, ValueBytes DEF Number

LEMMA PackedBytes ==
  ASSUME NEW p \in FieldProperties, NEW s \in Seq(0..(p.word - 1)), Len(s) < Word, Len(NumberBytes(p, s)) < Word
  PROVE  Packed(p, s) \in Seq(Bytes)
<1> DEFINE ss == [k \in 1..Len(s) |-> Number(p, s[k])]
<1>1. ss \in Seq(Seq(Bytes))
  <2>1. \A k \in 1..Len(s) : s[k] \in 0..(p.word - 1)
    <3> DEFINE S == 0..(p.word - 1)
    <3>1. s \in Seq(S)
      OBVIOUS
    <3> HIDE DEF S
    <3>2. \A k \in 1..Len(s) : s[k] \in S
      BY <3>1
    <3> QED
      BY <3>2 DEF S
  <2>2. \A k \in 1..Len(s) : Number(p, s[k]) \in Seq(Bytes)
    BY <2>1, NumberIsBytes
  <2>3. Len(s) \in Nat
    OBVIOUS
  <2> QED
    BY <2>2, <2>3
<1>2. NumberBytes(p, s) = Concat(ss)
  BY DEF NumberBytes
<1> HIDE DEF ss
<1>3. NumberBytes(p, s) \in Seq(Bytes)
  BY <1>1, <1>2, ConcatSeq
<1> DEFINE n == IF p.word = 2 THEN Len(s) ELSE Len(NumberBytes(p, s))
<1>4. n \in Nat /\ n < Word
  BY <1>3
<1>5. EncodeVarint(n) \in Seq(Bytes)
  <2> HIDE DEF n
  <2> QED
    BY <1>4, VarintSizes
<1>6. tagcode(p) \in Seq(Bytes)
  BY TagBytes
<1> QED
  BY <1>3, <1>5, <1>6 DEF Packed

\* what the encoder of a field writes that holds no messages
LEMMA EncodedBytes ==
  ASSUME NEW p, NEW x, InField(p, x), p.dec \notin Nested \cup Custom, ~LeftOut(p, x)
  PROVE  Encoded(p, x) \in Seq(Bytes)
<1>1. p \in FieldProperties /\ IsValue(p, x)
  BY DEF InField
<1>2. tagcode(p) \in Seq(Bytes)
  BY <1>1, TagBytes
<1>3. CASE p.dec = "number"
  <2>1. x \in 0..(p.word - 1)
    BY <1>1, <1>3, ValueIs, KeptIs DEF Singles
  <2>2. Number(p, x) \in Seq(Bytes)
    BY <1>1, <2>1, NumberIsBytes
  <2>3. Encoded(p, x) = tagcode(p) \o Number(p, x)
    BY <1>3 DEF Encoded
  <2> QED
    BY <1>2, <2>2, <2>3
<1>4. CASE p.dec = "ptrNumber"
  <2>1. IsPointer(x, 0..(p.word - 1))
    BY <1>1, <1>4, ValueIs, KeptIs DEF Pointers
  <2>2. x # {}
    BY <1>4 DEF LeftOut
  <2>3. The(x) \in 0..(p.word - 1)
    BY <2>1, <2>2, Pointed
  <2>4. Number(p, The(x)) \in Seq(Bytes)
    BY <1>1, <2>3, NumberIsBytes
  <2>5. Encoded(p, x) = tagcode(p) \o Number(p, The(x))
    BY <1>4 DEF Encoded
  <2> QED
    BY <1>2, <2>4, <2>5
<1>5. CASE p.dec = "ptrBytes"
  <2>1. IsPointer(x, Texts)
    BY <1>1, <1>5, ValueIs, KeptIs DEF Pointers
  <2>2. x # {}
    BY <1>5 DEF LeftOut
  <2>3. The(x) \in Texts
    BY <2>1, <2>2, Pointed
  <2>4. Encoded(p, x) = Item(p, The(x))
    BY <1>5 DEF Encoded
  <2> QED
    BY <1>1, <2>3, <2>4, ItemBytes
<1>6. CASE p.dec \in {"bytes", "byteArray"}
  <2>1. x \in Texts
    <3>1. x \in Kept(p)
      BY <1>1, <1>6, ValueIs DEF Singles
    <3>2. Kept(p) = Texts
      BY <1>6, KeptIs
    <3> QED
      BY <3>1, <3>2
  <2>2. Encoded(p, x) = Item(p, x)
    BY <1>6 DEF Encoded
  <2> QED
    BY <1>1, <2>1, <2>2, ItemBytes
<1>7. CASE p.dec \in {"strings", "stringArray"}
  <2>1. x \in Seq(Texts)
    BY <1>1, <1>7, ValueIs, KeptIs DEF Rows
  <2> DEFINE ss == [k \in 1..Len(x) |-> Item(p, x[k])]
  <2>2. ss \in Seq(Seq(Bytes))
    <3>1. Len(x) \in Nat /\ \A k \in 1..Len(x) : x[k] \in Texts
      BY <2>1
    <3>2. \A k \in 1..Len(x) : Item(p, x[k]) \in Seq(Bytes)
      BY <1>1, <3>1, ItemBytes
    <3> QED
      BY <3>1, <3>2
  <2>3. Encoded(p, x) = Concat(ss)
    BY <1>7 DEF Encoded
  <2> HIDE DEF ss
  <2> QED
    BY <2>2, <2>3, ConcatSeq
<1>8. CASE p.dec \in {"packed", "packedArray"}
  <2>1. x \in Seq(0..(p.word - 1)) /\ Len(x) < Word /\ Len(NumberBytes(p, x)) < Word
    BY <1>1, <1>8, ValueIs, KeptIs
  <2>2. Encoded(p, x) = Packed(p, x)
    BY <1>8 DEF Encoded
  <2> QED
    BY <1>1, <2>1, <2>2, PackedBytes
<1>9. CASE p.dec = "nothing"
  BY <1>9 DEF Encoded
<1>10. p.dec \in {"number", "ptrNumber", "bytes", "ptrBytes", "byteArray", "strings", "stringArray",
                  "packed", "packedArray", "nothing"}
  BY <1>1 DEF FieldProperties, Nested, Custom
<1> QED
  BY <1>3, <1>4, <1>5, <1>6, <1>7, <1>8, <1>9, <1>10

-----------------------------------------------------------------------------
(* Where the tag, the length and the content of each open message are *)

\* what is above an open message: the tag of the next one, or the end of the buffer
Ceiling(s, top, k) == IF k = Len(s) THEN top ELSE s[k + 1].iTag

InOrder(f, top) ==
  /\ f.iTag \in Nat /\ f.iLen \in Nat /\ f.iMsg \in Nat
  /\ f.iTag <= f.iLen /\ f.iLen <= f.iMsg /\ f.iMsg <= top

MarksOK(s, top) == \A k \in 1..Len(s) : InOrder(s[k], Ceiling(s, top, k))

LEMMA MarksPush ==
  ASSUME NEW s, NEW f, NEW n \in Nat, NEW m \in Nat, FramesOK(s), MarksOK(s, n), f.iTag = n, InOrder(f, m)
  PROVE  MarksOK(Append(s, f), m)
<1> DEFINE W == {s[k] : k \in 1..Len(s)} \cup {f}
           l == Len(s)
           t == Append(s, f)
<1>1. s \in Seq(W) /\ f \in W /\ l \in Nat
  <2> DEFINE R == {s[k] : k \in 1..Len(s)}
  <2>1. s \in Seq(R) /\ R \subseteq W /\ f \in W
    BY DEF FramesOK
  <2> HIDE DEF R, W
  <2> QED
    BY <2>1
<1> HIDE DEF W
<1>2. t \in Seq(W) /\ Len(t) = l + 1 /\ t[l + 1] = f /\ \A k \in 1..l : t[k] = s[k]
  BY <1>1
<1> HIDE DEF t
<1>3. ASSUME NEW k \in 1..Len(t) PROVE InOrder(t[k], Ceiling(t, m, k))
  <2>1. CASE k = l + 1
    BY <1>2, <2>1 DEF Ceiling
  <2>2. CASE k # l + 1
    <3>1. k \in 1..l /\ t[k] = s[k] /\ k # Len(t)
      BY <1>1, <1>2, <2>2
    <3>2. Ceiling(t, m, k) = Ceiling(s, n, k)
      <4>1. CASE k = l
        BY <1>2, <3>1, <4>1 DEF Ceiling
      <4>2. CASE k # l
        <5>1. k + 1 \in 1..l
          BY <1>1, <3>1, <4>2
        <5> QED
          BY <1>2, <3>1, <4>2, <5>1 DEF Ceiling
      <4> QED
        BY <4>1, <4>2
    <3> QED
      BY <3>1, <3>2 DEF MarksOK
  <2> QED
    BY <2>1, <2>2
<1> QED
  BY <1>3 DEF MarksOK, t

\* of a stack that is not empty: the top is in order, and those below it up to its tag
LEMMA MarksPop ==
  ASSUME NEW s, NEW n \in Nat, FramesOK(s), s # <<>>, MarksOK(s, n)
  PROVE  LET l == Len(s)
         IN  InOrder(s[l], n) /\ MarksOK(SubSeq(s, 1, l - 1), s[l].iTag)
<1> DEFINE S == {s[k] : k \in 1..Len(s)}
           l == Len(s)
           b == SubSeq(s, 1, l - 1)
<1>1. s \in Seq(S)
  BY DEF FramesOK
<1> HIDE DEF S
<1>2. l \in Nat /\ l >= 1 /\ l \in 1..l
  BY <1>1
<1>3. InOrder(s[l], n)
  BY <1>2 DEF MarksOK, Ceiling
<1>4. Len(b) = l - 1 /\ \A k \in 1..(l - 1) : b[k] = s[k] /\ k \in 1..l /\ k # l
  <2>1. \A k \in 1..(l - 1) : s[k] \in S /\ k \in 1..l /\ k # l
    BY <1>1, <1>2
  <2> HIDE DEF l
  <2>2. /\ Len(b) = IF 1 <= l - 1 THEN (l - 1) - 1 + 1 ELSE 0
        /\ \A k \in 1..((l - 1) - 1 + 1) : b[k] = s[1 + k - 1]
    BY <1>2, <2>1, SubSeqProperties
  <2> HIDE DEF b
  <2> QED
    BY <1>2, <2>1, <2>2
<1> HIDE DEF b
<1>5. ASSUME NEW k \in 1..Len(b) PROVE InOrder(b[k], Ceiling(b, s[l].iTag, k))
  <2>1. k \in 1..(l - 1) /\ b[k] = s[k] /\ k \in 1..l /\ k # l
    BY <1>4
  <2>2. Ceiling(b, s[l].iTag, k) = s[k + 1].iTag
    <3>1. CASE k = l - 1
      BY <1>2, <1>4, <3>1 DEF Ceiling
    <3>2. CASE k # l - 1
      <4>1. k + 1 \in 1..(l - 1)
        BY <1>2, <2>1, <3>2
      <4> QED
        BY <1>4, <3>2, <4>1 DEF Ceiling
    <3> QED
      BY <3>1, <3>2
  <2>3. Ceiling(s, n, k) = s[k + 1].iTag
    BY <2>1 DEF Ceiling
  <2> QED
    BY <2>1, <2>2, <2>3 DEF MarksOK
<1> QED
  BY <1>3, <1>5 DEF MarksOK, b

\* more bytes in the buffer disturb nothing
LEMMA MarksGrow ==
  ASSUME NEW s, NEW n \in Nat, NEW m \in Nat, n <= m, MarksOK(s, n)
  PROVE  MarksOK(s, m)
<1> SUFFICES ASSUME NEW k \in 1..Len(s) PROVE InOrder(s[k], Ceiling(s, m, k))
  BY DEF MarksOK
<1>1. InOrder(s[k], Ceiling(s, n, k))
  BY DEF MarksOK
<1>2. CASE k = Len(s)
  BY <1>1, <1>2 DEF Ceiling, InOrder
<1>3. CASE k # Len(s)
  BY <1>1, <1>3 DEF Ceiling
<1> QED
  BY <1>2, <1>3

-----------------------------------------------------------------------------
(* The type invariant, as long as o.buf is not longer than an int can say *)

TypeInv ==
  /\ value \in Values[root] \cup {NoValue}
  /\ buf \in Seq(Bytes)
  /\ MarksOK(stack, Len(buf))
  /\ err \in {None, HasNil, Rejected}
  /\ calls \in 0..MaxCalls

AllInv == ErrorsInv /\ TypeInv

LEMMA LengthOfBuf == TypeInv => Len(buf) \in Nat
BY DEF TypeInv

LEMMA TypeStart == Init => TypeInv
<1> SUFFICES ASSUME Init PROVE TypeInv
  OBVIOUS
<1>1. buf \in Seq(Bytes) /\ 1..Len(stack) = {}
  BY DEF Init
<1>2. MarksOK(stack, Len(buf))
  BY <1>1 DEF MarksOK
<1> QED
  BY <1>1, <1>2, ReservedAssumption DEF Init, TypeInv

LEMMA ErrorNoted ==
  ASSUME TypeInv, NEW e \in {HasNil, Rejected}
  PROVE  noteError(e) \in {None, HasNil, Rejected}
BY DEF noteError, TypeInv

\* the top frame is in order, and those below it
LEMMA TopMarks ==
  ASSUME AllInv, Working
  PROVE  InOrder(F, Len(buf)) /\ MarksOK(Outer, F.iTag) /\ FramesOK(Outer)
<1>1. FramesOK(stack) /\ stack # <<>> /\ MarksOK(stack, Len(buf)) /\ Len(buf) \in Nat
  BY LengthOfBuf DEF AllInv, ErrorsInv, Placed, Working, Idle, TypeInv
<1>2. FramesOK(Outer)
  BY TopOfStack DEF AllInv
<1> QED
  BY <1>1, <1>2, MarksPop DEF F, Outer

\* a frame with the same marks takes the place of the top one, and bytes are added
LEMMA MarksKept ==
  ASSUME AllInv, Working, NEW f, f.iTag = F.iTag, f.iLen = F.iLen, f.iMsg = F.iMsg, NEW m \in Nat, m >= Len(buf)
  PROVE  MarksOK(With(f), m)
<1>1. InOrder(F, Len(buf)) /\ MarksOK(Outer, F.iTag) /\ FramesOK(Outer) /\ Len(buf) \in Nat
  BY TopMarks, LengthOfBuf DEF AllInv
<1>2. InOrder(f, m) /\ F.iTag \in Nat
  BY <1>1 DEF InOrder
<1>3. With(f) = Append(Outer, f)
  BY TopOfStack DEF AllInv
<1> QED
  BY <1>1, <1>2, <1>3, MarksPush

LEMMA SameMarks ==
  ASSUME AllInv, Working, NEW f, f.iTag = F.iTag, f.iLen = F.iLen, f.iMsg = F.iMsg, stack' = With(f),
         buf' \in Seq(Bytes), Len(buf') >= Len(buf), err' \in {None, HasNil, Rejected}, UNCHANGED client
  PROVE  TypeInv'
<1>1. Len(buf') \in Nat
  OBVIOUS
<1>2. MarksOK(stack', Len(buf'))
  BY <1>1, MarksKept
<1> QED
  BY <1>2 DEF AllInv, TypeInv, client

\* bytes are added
LEMMA BytesAdded ==
  ASSUME TypeInv, NEW s \in Seq(Bytes)
  PROVE  buf \o s \in Seq(Bytes) /\ Len(buf \o s) = Len(buf) + Len(s) /\ Len(buf \o s) >= Len(buf)
BY DEF TypeInv

\* a Go slice is not longer than an int can say
BufFits == Len(buf) < Word

LEMMA RefusedBytes == Refused \subseteq Seq(Bytes)
BY ValuesAssumption DEF Texts

\* the frames that the steps make have the marks of the one they replace
LEMMA MarksOfFrames ==
  ASSUME ErrorsInv, Working, NEW n, NEW list
  PROVE  /\ LET f == [F EXCEPT !.todo = list] IN f.iTag = F.iTag /\ f.iLen = F.iLen /\ f.iMsg = F.iMsg
         /\ LET f == [F EXCEPT !.p = n] IN f.iTag = F.iTag /\ f.iLen = F.iLen /\ f.iMsg = F.iMsg
         /\ LET f == [F EXCEPT !.p = n, !.todo = list] IN f.iTag = F.iTag /\ f.iLen = F.iLen /\ f.iMsg = F.iMsg
<1>1. F = [k \in FrameKeys |-> F[k]]
  BY TopOfStack DEF FrameOK
<1>2. {"iTag", "iLen", "iMsg"} \subseteq FrameKeys
  BY DEF FrameKeys
<1>3. FrameOK(F)
  BY TopOfStack
<1> HIDE DEF F
<1> QED
  BY <1>1, <1>2

LEMMA SameMarksStop ==
  ASSUME AllInv, Working, stack' \in {Stop(F), GoOn(F)},
         buf' \in Seq(Bytes), Len(buf') >= Len(buf), err' \in {None, HasNil, Rejected}, UNCHANGED client
  PROVE  TypeInv'
<1>1. CASE stack' = Stop(F)
  <2> DEFINE f == [F EXCEPT !.todo = <<>>]
  <2>1. f.iTag = F.iTag /\ f.iLen = F.iLen /\ f.iMsg = F.iMsg
    BY MarksOfFrames DEF AllInv
  <2>2. stack' = With(f)
    BY <1>1 DEF Stop
  <2> HIDE DEF f
  <2> QED
    BY <2>1, <2>2, SameMarks
<1>2. CASE stack' = GoOn(F)
  <2> DEFINE f == [F EXCEPT !.todo = Tail(@)]
  <2>1. f.iTag = F.iTag /\ f.iLen = F.iLen /\ f.iMsg = F.iMsg
    BY MarksOfFrames DEF AllInv
  <2>2. stack' = With(f)
    BY <1>2 DEF GoOn
  <2> HIDE DEF f
  <2> QED
    BY <2>1, <2>2, SameMarks
<1> QED
  BY <1>1, <1>2

LEMMA MarshalTypes == AllInv /\ Marshal => TypeInv'
<1> SUFFICES ASSUME AllInv, Marshal PROVE TypeInv'
  OBVIOUS
<1> DEFINE n == Len(buf)
           f == Frame(root, value', n, n, n, FALSE)
<1>1. n \in Nat
  BY LengthOfBuf DEF AllInv
<1>2. f.iTag = n /\ InOrder(f, n)
  BY <1>1 DEF Frame, InOrder
<1>3. stack' = <<f>>
  BY DEF Marshal
<1> HIDE DEF f
<1>4. stack' = Append(<<>>, f) /\ MarksOK(<<>>, n)
  <2>1. 1..Len(<<>>) = {}
    OBVIOUS
  <2> QED
    BY <1>3, <2>1 DEF MarksOK
<1>5. MarksOK(stack', n)
  <2> HIDE DEF n
  <2> QED
    BY <1>1, <1>2, <1>4, EmptyStack, MarksPush
<1>6. calls' \in 0..MaxCalls
  BY ReservedAssumption DEF Marshal, AllInv, TypeInv
<1> QED
  BY <1>5, <1>6 DEF Marshal, AllInv, TypeInv

LEMMA NoMarks == \A n : MarksOK(<<>>, n)
<1>1. 1..Len(<<>>) = {}
  OBVIOUS
<1> QED
  BY <1>1 DEF MarksOK

LEMMA MarshalSelfTypes == AllInv /\ MarshalSelf => TypeInv'
<1> SUFFICES ASSUME AllInv, MarshalSelf PROVE TypeInv'
  OBVIOUS
<1>1. PICK data \in Refused \cup {<<>>}, e \in {None, Rejected} :
        /\ buf' = buf \o data
        /\ err' = IF e = None THEN err ELSE noteError(e)
  BY DEF MarshalSelf
<1>2. data \in Seq(Bytes)
  <2>1. <<>> \in Seq(Bytes)
    OBVIOUS
  <2>2. data \in Refused \/ data = <<>>
    OBVIOUS
  <2> QED
    BY <2>1, <2>2, RefusedBytes
<1>3. buf' \in Seq(Bytes)
  BY <1>1, <1>2, BytesAdded DEF AllInv
<1>4. err' \in {None, HasNil, Rejected}
  BY <1>1, ErrorNoted DEF AllInv, TypeInv
<1>5. stack' = <<>>
  BY DEF MarshalSelf, Idle
<1>6. MarksOK(stack', Len(buf'))
  BY <1>5, NoMarks
<1>7. value' = NoValue /\ root' = root /\ calls' \in 0..MaxCalls
  BY ReservedAssumption DEF MarshalSelf, AllInv, TypeInv
<1> QED
  BY <1>3, <1>4, <1>6, <1>7 DEF TypeInv

LEMMA ResetTypes == AllInv /\ Reset => TypeInv'
<1> SUFFICES ASSUME AllInv, Reset PROVE TypeInv'
  OBVIOUS
<1>1. stack' = <<>> /\ buf' = <<>> /\ err' = None /\ UNCHANGED <<root, value, calls>>
  BY DEF Reset, Idle
<1>2. buf' \in Seq(Bytes) /\ MarksOK(stack', Len(buf'))
  BY <1>1, NoMarks
<1> QED
  BY <1>1, <1>2 DEF AllInv, TypeInv

LEMMA EncLeafTypes == AllInv /\ EncLeaf => TypeInv'
<1> SUFFICES ASSUME AllInv, EncLeaf PROVE TypeInv'
  OBVIOUS
<1> DEFINE f == [F EXCEPT !.p = @ + 1]
           x == F.v[F.p]
<1>1. /\ Working /\ F.todo = <<>> /\ More /\ P.dec \notin Nested \cup Custom
      /\ buf' = IF LeftOut(P, x) THEN buf ELSE buf \o Encoded(P, x)
      /\ stack' = With(f) /\ UNCHANGED <<client, err>>
  BY DEF EncLeaf
<1>2. InField(P, x)
  BY <1>1, FieldOfTop DEF AllInv
<1>3. f.iTag = F.iTag /\ f.iLen = F.iLen /\ f.iMsg = F.iMsg
  BY <1>1, MarksOfFrames DEF AllInv
<1> HIDE DEF f, x
<1>4. buf' \in Seq(Bytes) /\ Len(buf') >= Len(buf)
  <2>1. CASE LeftOut(P, x)
    BY <1>1, <2>1, LengthOfBuf DEF AllInv, TypeInv
  <2>2. CASE ~LeftOut(P, x)
    <3>1. Encoded(P, x) \in Seq(Bytes)
      BY <1>1, <1>2, <2>2, EncodedBytes
    <3> QED
      BY <1>1, <2>2, <3>1, BytesAdded DEF AllInv
  <2> QED
    BY <2>1, <2>2
<1>5. err' \in {None, HasNil, Rejected}
  BY <1>1 DEF AllInv, TypeInv
<1> QED
  BY <1>1, <1>3, <1>4, <1>5, SameMarks

LEMMA EncMessagesTypes == AllInv /\ EncMessages => TypeInv'
<1> SUFFICES ASSUME AllInv, EncMessages PROVE TypeInv'
  OBVIOUS
<1>1. Working /\ UNCHANGED <<client, buf, err>>
  BY DEF EncMessages
<1>2. PICK list \in Messages(P, F.v[F.p]) : stack' = With([F EXCEPT !.p = @ + 1, !.todo = list])
  BY DEF EncMessages
<1> DEFINE f == [F EXCEPT !.p = @ + 1, !.todo = list]
<1>3. f.iTag = F.iTag /\ f.iLen = F.iLen /\ f.iMsg = F.iMsg
  BY <1>1, MarksOfFrames DEF AllInv
<1>4. stack' = With(f)
  BY <1>2
<1> HIDE DEF f
<1>5. buf' \in Seq(Bytes) /\ Len(buf') >= Len(buf) /\ err' \in {None, HasNil, Rejected}
  BY <1>1, LengthOfBuf DEF AllInv, TypeInv
<1> QED
  BY <1>1, <1>3, <1>4, <1>5, SameMarks

LEMMA NilElementTypes == AllInv /\ NilElement => TypeInv'
<1> SUFFICES ASSUME AllInv, NilElement PROVE TypeInv'
  OBVIOUS
<1>1. Working /\ stack' = Stop(F) /\ err' = noteError(HasNil) /\ UNCHANGED <<client, buf>>
  BY DEF NilElement
<1>2. buf' \in Seq(Bytes) /\ Len(buf') >= Len(buf) /\ err' \in {None, HasNil, Rejected}
  BY <1>1, LengthOfBuf, ErrorNoted DEF AllInv, TypeInv
<1> QED
  BY <1>1, <1>2, SameMarksStop

LEMMA ElementTypes == AllInv /\ Element => TypeInv'
<1> SUFFICES ASSUME AllInv, Element PROVE TypeInv'
  OBVIOUS
<1>1. Working /\ F.todo # <<>> /\ Head(F.todo) # {} /\ UNCHANGED <<client, err>>
  BY DEF Element
<1>2. PICK room \in Reserved :
        LET iLen == Len(buf) + Len(tagcode(Q))
        IN  /\ buf' = buf \o tagcode(Q) \o [k \in 1..room |-> 0]
            /\ stack' = Append(GoOn(F), Frame(Q.stype, The(Head(F.todo)), Len(buf), iLen, iLen + room, Q.dec = "struct"))
  BY DEF Element
<1> DEFINE n == Len(buf)
           tag == tagcode(Q)
           zeros == [k \in 1..room |-> 0]
           f == Frame(Q.stype, The(Head(F.todo)), n, n + Len(tag), n + Len(tag) + room, Q.dec = "struct")
           g == [F EXCEPT !.todo = Tail(@)]
<1>3. /\ FramesOK(GoOn(F)) /\ GoOn(F) = With(g) /\ Q \in FieldProperties
  BY <1>1, MessageOfTop DEF AllInv
<1>4. tag \in Seq(Bytes) /\ Len(tag) \in Nat
  BY <1>3, TagBytes
<1>5. room \in Nat /\ n \in Nat /\ buf \in Seq(Bytes)
  BY ReservedAssumption, LengthOfBuf DEF AllInv, TypeInv
<1>6. zeros \in Seq(Bytes) /\ Len(zeros) = room
  BY <1>5 DEF Bytes
<1>7. f.iTag = n /\ f.iLen = n + Len(tag) /\ f.iMsg = n + Len(tag) + room
  BY DEF Frame
<1>8. stack' = Append(GoOn(F), f) /\ buf' = buf \o tag \o zeros
  BY <1>2
<1>9. g.iTag = F.iTag /\ g.iLen = F.iLen /\ g.iMsg = F.iMsg
  BY <1>1, MarksOfFrames DEF AllInv
<1> HIDE DEF f, g, tag, zeros
<1>10. buf' \in Seq(Bytes) /\ Len(buf') = n + Len(tag) + room
  <2> DEFINE c == buf \o tag
  <2>1. c \in Seq(Bytes) /\ Len(c) = n + Len(tag)
    BY <1>4, <1>5
  <2>2. buf' = c \o zeros
    BY <1>8
  <2> HIDE DEF c, n
  <2>3. c \o zeros \in Seq(Bytes) /\ Len(c \o zeros) = Len(c) + Len(zeros)
    BY <1>6, <2>1
  <2> QED
    BY <1>6, <2>1, <2>2, <2>3
<1>11. MarksOK(GoOn(F), n)
  BY <1>1, <1>3, <1>5, <1>9, MarksKept
<1>12. InOrder(f, Len(buf')) /\ Len(buf') \in Nat
  BY <1>4, <1>5, <1>7, <1>10 DEF InOrder
<1>13. MarksOK(stack', Len(buf'))
  <2> HIDE DEF n
  <2> QED
    BY <1>3, <1>5, <1>7, <1>8, <1>11, <1>12, MarksPush
<1> QED
  BY <1>1, <1>10, <1>13 DEF AllInv, TypeInv, client

\* the length is put right, in what was written before
LEMMA LengthKeeps ==
  ASSUME NEW b \in Seq(Bytes), NEW iLen \in Nat, NEW iMsg \in Nat, iLen <= iMsg, iMsg <= Len(b), Len(b) - iMsg < Word
  PROVE  WithLength(b, iLen, iMsg) \in Seq(Bytes) /\ Len(WithLength(b, iLen, iMsg)) >= iLen
<1> DEFINE message == SubSeq(b, iMsg + 1, Len(b))
           before == SubSeq(b, 1, iLen)
           length == EncodeVarint(Len(message))
<1>1. WithLength(b, iLen, iMsg) = before \o length \o message
  BY LengthPutRight
<1>2. Len(b) \in Nat /\ \A k \in 1..Len(b) : b[k] \in Bytes
  OBVIOUS
<1>3. message \in Seq(Bytes) /\ Len(message) = Len(b) - iMsg
  <2>1. iMsg + 1 \in Int /\ Len(b) \in Int /\ \A k \in (iMsg + 1)..Len(b) : b[k] \in Bytes
    BY <1>2
  <2>2. /\ message \in Seq(Bytes)
        /\ Len(message) = IF iMsg + 1 <= Len(b) THEN Len(b) - (iMsg + 1) + 1 ELSE 0
    BY <2>1, SubSeqProperties
  <2> HIDE DEF message
  <2> QED
    BY <1>2, <2>2
<1>4. before \in Seq(Bytes) /\ Len(before) = iLen
  <2>1. 1 \in Int /\ iLen \in Int /\ \A k \in 1..iLen : b[k] \in Bytes
    BY <1>2
  <2>2. before \in Seq(Bytes) /\ Len(before) = IF 1 <= iLen THEN iLen - 1 + 1 ELSE 0
    BY <2>1, SubSeqProperties
  <2> HIDE DEF before
  <2> QED
    BY <2>2
<1> HIDE DEF message, before
<1>5. length \in Seq(Bytes)
  BY <1>2, <1>3, VarintSizes
<1> HIDE DEF length
<1> QED
  BY <1>1, <1>3, <1>4, <1>5

LEMMA ElidedKeeps ==
  ASSUME NEW f, NEW b \in Seq(Bytes), f.iTag \in Nat, f.iTag <= Len(b)
  PROVE  Elided(f, b) \in Seq(Bytes) /\ Len(Elided(f, b)) >= f.iTag
<1> DEFINE n == f.iTag
           s == SubSeq(b, 1, n)
<1>1. s \in Seq(Bytes) /\ Len(s) = n
  <2>1. 1 \in Int /\ n \in Int /\ \A k \in 1..n : b[k] \in Bytes
    OBVIOUS
  <2>2. s \in Seq(Bytes) /\ Len(s) = IF 1 <= n THEN n - 1 + 1 ELSE 0
    BY <2>1, SubSeqProperties
  <2> HIDE DEF s
  <2> QED
    BY <2>2
<1>2. Elided(f, b) \in {b, s}
  BY DEF Elided
<1> HIDE DEF s
<1> QED
  BY <1>1, <1>2

LEMMA MessageDoneTypes == AllInv /\ BufFits /\ MessageDone => TypeInv'
<1> SUFFICES ASSUME AllInv, BufFits, MessageDone PROVE TypeInv'
  OBVIOUS
<1> DEFINE b == WithLength(buf, F.iLen, F.iMsg)
<1>1. Working /\ buf' = Elided(F, b) /\ stack' = Outer /\ UNCHANGED <<client, err>>
  BY DEF MessageDone
<1>2. InOrder(F, Len(buf)) /\ MarksOK(Outer, F.iTag) /\ buf \in Seq(Bytes) /\ Len(buf) \in Nat
  BY <1>1, TopMarks, LengthOfBuf DEF AllInv, TypeInv
<1>3. Len(buf) - F.iMsg < Word
  BY <1>2, WireAssumption DEF InOrder, BufFits
<1>4. b \in Seq(Bytes) /\ Len(b) >= F.iLen
  BY <1>2, <1>3, LengthKeeps DEF InOrder
<1> HIDE DEF b
<1>5. F.iTag \in Nat /\ F.iTag <= Len(b)
  BY <1>2, <1>4 DEF InOrder
<1>6. buf' \in Seq(Bytes) /\ Len(buf') >= F.iTag
  BY <1>1, <1>4, <1>5, ElidedKeeps
<1>7. MarksOK(stack', Len(buf'))
  <2>1. Len(buf') \in Nat
    BY <1>6
  <2> QED
    BY <1>1, <1>2, <1>5, <1>6, <2>1, MarksGrow
<1> QED
  BY <1>1, <1>6, <1>7 DEF AllInv, TypeInv, client

LEMMA MarshalReturnsTypes == AllInv /\ MarshalReturns => TypeInv'
<1> SUFFICES ASSUME AllInv, MarshalReturns PROVE TypeInv'
  OBVIOUS
<1>1. Working /\ Len(stack) = 1 /\ stack' = Outer /\ UNCHANGED <<client, buf, err>>
  BY DEF MarshalReturns
<1>2. stack' = <<>>
  BY <1>1, TopOfStack DEF AllInv
<1>3. MarksOK(stack', Len(buf'))
  BY <1>2, NoMarks
<1> QED
  BY <1>1, <1>3 DEF AllInv, TypeInv, client

\* the payload of a type that marshals itself
LEMMA PayloadIs ==
  ASSUME AllInv, CustomElement
  PROVE  /\ Working /\ F.todo # <<>> /\ Q \in FieldProperties
         /\ Payload \in Texts
         /\ Started \in Seq(Bytes) /\ Len(Started) >= Len(buf)
         /\ Q.wire = WireBytes => Len(Started) > Len(buf)
<1>1. Working /\ F.todo # <<>> /\ Head(F.todo) # {} /\ Q.dec \in Custom
  BY DEF CustomElement
<1>2. Q \in FieldProperties /\ IsPointer(Head(F.todo), Kept(Q))
  BY <1>1, MessageOfTop DEF AllInv
<1>3. Kept(Q) = Texts
  BY <1>1, KeptIs
<1>4. Payload \in Texts
  BY <1>1, <1>2, <1>3, Pointed DEF Payload
<1>5. tagcode(Q) \in Seq(Bytes) /\ <<0>> \in Seq(Bytes) /\ Len(<<0>>) = 1 /\ buf \in Seq(Bytes)
  BY <1>2, TagBytes DEF Bytes, AllInv, TypeInv
<1> DEFINE tag == tagcode(Q)
           rest == IF Q.wire = WireBytes THEN <<0>> ELSE <<>>
<1>6. rest \in Seq(Bytes) /\ (Q.wire = WireBytes => Len(rest) = 1)
  BY <1>5
<1>7. Started = buf \o tag \o rest
  BY DEF Started
<1> HIDE DEF tag, rest
<1>8. tag \in Seq(Bytes) /\ buf \in Seq(Bytes)
  BY <1>5 DEF tag
<1>9. Started \in Seq(Bytes) /\ Len(Started) = Len(buf) + Len(tag) + Len(rest)
  BY <1>6, <1>7, <1>8
<1>10. Len(Started) >= Len(buf) /\ (Q.wire = WireBytes => Len(Started) > Len(buf))
  BY <1>6, <1>8, <1>9
<1> QED
  BY <1>1, <1>2, <1>4, <1>9, <1>10

LEMMA MarshalerElementTypes == AllInv /\ MarshalerElement => TypeInv'
<1> SUFFICES ASSUME AllInv, MarshalerElement PROVE TypeInv'
  OBVIOUS
<1>1. CustomElement /\ buf' \in {buf \o Item(Q, Payload), buf} /\ stack' = GoOn(F) /\ UNCHANGED <<client, err>>
  BY DEF MarshalerElement
<1>2. Working /\ Item(Q, Payload) \in Seq(Bytes)
  BY <1>1, PayloadIs, ItemBytes
<1>3. buf' \in Seq(Bytes) /\ Len(buf') >= Len(buf) /\ err' \in {None, HasNil, Rejected}
  <2>1. buf \in Seq(Bytes) /\ err' \in {None, HasNil, Rejected}
    BY <1>1 DEF AllInv, TypeInv
  <2>2. CASE buf' = buf
    BY <2>1, <2>2
  <2>3. CASE buf' = buf \o Item(Q, Payload)
    BY <1>2, <2>1, <2>3, BytesAdded DEF AllInv
  <2> QED
    BY <1>1, <2>1, <2>2, <2>3
<1> QED
  BY <1>1, <1>2, <1>3, SameMarksStop

LEMMA MarshalerFailsTypes == AllInv /\ MarshalerFails => TypeInv'
<1> SUFFICES ASSUME AllInv, MarshalerFails PROVE TypeInv'
  OBVIOUS
<1>1. CustomElement /\ Working /\ err' = noteError(Rejected) /\ stack' = Stop(F) /\ UNCHANGED <<client, buf>>
  BY DEF MarshalerFails, CustomElement
<1>2. buf' \in Seq(Bytes) /\ Len(buf') >= Len(buf) /\ err' \in {None, HasNil, Rejected}
  BY <1>1, LengthOfBuf, ErrorNoted DEF AllInv, TypeInv
<1> QED
  BY <1>1, <1>2, SameMarksStop

LEMMA AppenderElementTypes == AllInv /\ AppenderElement => TypeInv'
<1> SUFFICES ASSUME AllInv, AppenderElement PROVE TypeInv'
  OBVIOUS
<1> DEFINE written == Started \o Payload
           b == WithLength(written, Len(Started) - 1, Len(Started))
<1>1. /\ CustomElement /\ stack' = GoOn(F) /\ UNCHANGED <<client, err>>
      /\ buf' = IF Payload = <<>> /\ ~Must THEN buf ELSE IF Q.wire = WireBytes THEN b ELSE written
  BY DEF AppenderElement
<1>2. /\ Working /\ Payload \in Texts /\ Started \in Seq(Bytes) /\ Len(Started) >= Len(buf)
      /\ (Q.wire = WireBytes => Len(Started) > Len(buf)) /\ Len(buf) \in Nat /\ buf \in Seq(Bytes)
  BY <1>1, PayloadIs, LengthOfBuf DEF AllInv, TypeInv
<1>3. Payload \in Seq(Bytes) /\ Len(Payload) < Word /\ Len(Payload) \in Nat
  BY <1>2 DEF Texts
<1>4. written \in Seq(Bytes) /\ Len(written) = Len(Started) + Len(Payload)
  BY <1>2, <1>3
<1>8. err' \in {None, HasNil, Rejected}
  <2>1. err' = err
    BY <1>1
  <2> QED
    BY <2>1 DEF AllInv, TypeInv
<1>5. CASE Payload = <<>> /\ ~Must
  <2>1. buf' = buf
    BY <1>1, <1>5
  <2>2. buf' \in Seq(Bytes) /\ Len(buf') >= Len(buf)
    BY <1>2, <2>1
  <2> QED
    BY <1>1, <1>2, <1>8, <2>2, SameMarksStop
<1>6. CASE ~(Payload = <<>> /\ ~Must) /\ Q.wire = WireBytes
  <2>1. buf' = b
    BY <1>1, <1>6
  <2> DEFINE l == Len(Started)
  <2>2. l - 1 \in Nat /\ l \in Nat /\ l - 1 <= l /\ l <= Len(written) /\ Len(written) - l < Word /\ l - 1 >= Len(buf)
    BY <1>2, <1>3, <1>4, <1>6
  <2> HIDE DEF written, l
  <2>3. b \in Seq(Bytes) /\ Len(b) >= l - 1
    BY <1>4, <2>2, LengthKeeps DEF l
  <2> HIDE DEF b
  <2>4. buf' \in Seq(Bytes) /\ Len(buf') >= Len(buf)
    BY <1>2, <2>1, <2>2, <2>3
  <2> QED
    BY <1>1, <1>2, <1>8, <2>4, SameMarksStop
<1>7. CASE ~(Payload = <<>> /\ ~Must) /\ Q.wire # WireBytes
  <2>1. buf' = written
    BY <1>1, <1>7
  <2> HIDE DEF written
  <2>2. buf' \in Seq(Bytes) /\ Len(buf') >= Len(buf)
    BY <1>2, <1>3, <1>4, <2>1
  <2> QED
    BY <1>1, <1>2, <1>8, <2>2, SameMarksStop
<1> QED
  BY <1>5, <1>6, <1>7

LEMMA AppenderFailsTypes == AllInv /\ AppenderFails => TypeInv'
<1> SUFFICES ASSUME AllInv, AppenderFails PROVE TypeInv'
  OBVIOUS
<1>1. /\ CustomElement /\ buf' = Started /\ err' = noteError(Rejected) /\ stack' \in {GoOn(F), Stop(F)}
      /\ UNCHANGED client
  BY DEF AppenderFails
<1>2. Working /\ buf' \in Seq(Bytes) /\ Len(buf') >= Len(buf)
  BY <1>1, PayloadIs
<1>3. err' \in {None, HasNil, Rejected}
  BY <1>1, ErrorNoted DEF AllInv
<1> QED
  BY <1>1, <1>2, <1>3, SameMarksStop

LEMMA TypeStep == AllInv /\ BufFits /\ [Next]_vars => TypeInv'
<1> SUFFICES ASSUME AllInv, BufFits, [Next]_vars PROVE TypeInv'
  OBVIOUS
<1>1. CASE Marshal
  BY <1>1, MarshalTypes
<1>2. CASE MarshalSelf
  BY <1>2, MarshalSelfTypes
<1>3. CASE Reset
  BY <1>3, ResetTypes
<1>4. CASE enc_struct
  BY <1>4, EncLeafTypes, EncMessagesTypes, NilElementTypes, ElementTypes, MessageDoneTypes,
     MarshalReturnsTypes DEF enc_struct
<1>5. CASE enc_custom
  BY <1>5, MarshalerElementTypes, MarshalerFailsTypes, AppenderElementTypes, AppenderFailsTypes DEF enc_custom
<1>6. CASE UNCHANGED vars
  BY <1>6 DEF vars, client, AllInv, TypeInv
<1> QED
  BY <1>1, <1>2, <1>3, <1>4, <1>5, <1>6 DEF Next

LEMMA TypesAre == AllInv => TypeOK
<1> SUFFICES ASSUME AllInv PROVE TypeOK
  OBVIOUS
<1>1. /\ root \in Roots /\ FramesOK(stack) /\ MarksOK(stack, Len(buf))
      /\ value \in Values[root] \cup {NoValue} /\ buf \in Seq(Bytes)
      /\ err \in {None, HasNil, Rejected} /\ calls \in 0..MaxCalls
  BY DEF AllInv, ErrorsInv, Placed, TypeInv
<1>2. ASSUME NEW k \in 1..Len(stack)
      PROVE  LET f == stack[k]
             IN  /\ f.type \in DOMAIN Fields
                 /\ f.p \in 1..(Len(Fields[f.type]) + 1)
                 /\ f.iTag <= f.iLen /\ f.iLen <= f.iMsg
                 /\ f.iMsg <= IF k = Len(stack) THEN Len(buf) ELSE stack[k + 1].iTag
  <2>1. FrameOK(stack[k]) /\ InOrder(stack[k], Ceiling(stack, Len(buf), k))
    BY <1>1 DEF FramesOK, MarksOK
  <2> QED
    BY <2>1 DEF FrameOK, InOrder, Ceiling
<1> QED
  BY <1>1, <1>2 DEF TypeOK

\* As long as o.buf is a slice that an int can measure, it holds bytes, and the tag, the length and
\* the content of each open message lie in it in this order, each message in the one before.
THEOREM EncoderTypes == Spec /\ []BufFits => []TypeOK
<1>1. Init => AllInv
  BY ErrorsStart, TypeStart DEF AllInv
<1>2. AllInv /\ BufFits /\ [Next]_vars => AllInv'
  BY ErrorsStep, TypeStep DEF AllInv
<1>3. AllInv => TypeOK
  BY TypesAre
<1> QED
  BY <1>1, <1>2, <1>3, PTL DEF Spec
=============================================================================
