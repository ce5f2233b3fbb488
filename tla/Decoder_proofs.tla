----------------------------- MODULE Decoder_proofs -----------------------------
(***************************************************************************)
(* Proofs about Decoder, for any types, messages, depth and number of calls*)
(* and whatever the bytes are: reads stay in the message being decoded,    *)
(* nested calls put back what they swapped, recursion_depth counts them,   *)
(* the remembered search finds what a full search finds, and every call    *)
(* ends.                                                                   *)
(*                                                                         *)
(* The many field decoders do few things to the stack of calls and to the  *)
(* position.  Each effect is named below; the lemmas after it map the steps*)
(* to their effects, and the proofs are by cases on the effects.           *)
(***************************************************************************)
EXTENDS Decoder, Wire_proofs, SequenceTheorems

USE DEF None, EOF, Overflow, BadWire, BadLen, NotFound, Read, Fail

-----------------------------------------------------------------------------
(* what is read at a position *)

LEMMA SumWraps ==
  ASSUME NEW i \in Nat, NEW n \in Nat, i < Word, n < Word
  PROVE  (i + n) % Word = IF i + n < Word THEN i + n ELSE i + n - Word
BY WireAssumption

LEMMA DecodeFixedFacts ==
  ASSUME NEW b \in Seq(Bytes), NEW i \in Nat, i <= Len(b), Len(b) < Word, NEW n \in {4, 8}
  PROVE  /\ DecodeFixed(b, i, n).index \in Ahead(b, i)
         /\ DecodeFixed(b, i, n).err = None => DecodeFixed(b, i, n).index > i
<1> DEFINE end == (i + n) % Word
<1>1. i < Word /\ n < Word /\ n \in Nat /\ n > 0
  BY WireAssumption
<1>2. end = IF i + n < Word THEN i + n ELSE i + n - Word
  BY <1>1, SumWraps
<1>3. CASE end < n \/ end > Len(b)
  <2>1. DecodeFixed(b, i, n) = Fail(EOF, i)
    BY <1>3 DEF DecodeFixed
  <2> QED
    BY <2>1 DEF Ahead
<1>4. CASE ~(end < n \/ end > Len(b))
  <2>1. DecodeFixed(b, i, n) = Read(LittleEndian(b, i, n), end)
    BY <1>4 DEF DecodeFixed
  <2>2. end = i + n
    BY <1>1, <1>2, <1>4, WireAssumption
  <2> HIDE DEF end
  <2> QED
    BY <1>1, <1>4, <2>1, <2>2 DEF Ahead
<1> QED
  BY <1>3, <1>4

ValEncs == {"varint", "zigzag32", "zigzag64", "fixed32", "fixed64"}

\* A number that is read lies in the bytes and is not empty.
LEMMA NumberFacts ==
  ASSUME NEW b \in Seq(Bytes), NEW i \in Nat, i <= Len(b), Len(b) < Word, NEW val \in ValEncs
  PROVE  /\ valDec(val, b, i).index \in Ahead(b, i)
         /\ valDec(val, b, i).err = None => valDec(val, b, i).index > i
<1>1. CASE val = "varint"
  BY <1>1, DecodeVarintFacts DEF valDec
<1>2. CASE val = "zigzag32"
  <2>1. valDec(val, b, i) = DecodeZigzag32(b, i)
    BY <1>2 DEF valDec
  <2>2. /\ DecodeZigzag32(b, i).index = DecodeVarint(b, i).index
        /\ DecodeZigzag32(b, i).err = DecodeVarint(b, i).err
    BY DEF DecodeZigzag32
  <2> QED
    BY <2>1, <2>2, DecodeVarintFacts
<1>3. CASE val = "zigzag64"
  <2>1. valDec(val, b, i) = DecodeZigzag64(b, i)
    BY <1>3 DEF valDec
  <2>2. /\ DecodeZigzag64(b, i).index = DecodeVarint(b, i).index
        /\ DecodeZigzag64(b, i).err = DecodeVarint(b, i).err
    BY DEF DecodeZigzag64
  <2> QED
    BY <2>1, <2>2, DecodeVarintFacts
<1>4. CASE val = "fixed32"
  BY <1>4, DecodeFixedFacts DEF valDec
<1>5. CASE val = "fixed64"
  BY <1>5, DecodeFixedFacts DEF valDec
<1> QED
  BY <1>1, <1>2, <1>3, <1>4, <1>5 DEF ValEncs

\* The bytes of the message that is being decoded.
LEMMA BufFacts ==
  ASSUME TypeOK
  PROVE  /\ msg \in Seq(Bytes) /\ Len(msg) < Word /\ Len(msg) \in Nat
         /\ Buf \in Seq(Bytes) /\ Len(Buf) = lim
         /\ lim \in Nat /\ index \in Nat /\ index <= lim /\ lim <= Len(msg)
<1>1. msg \in Seq(Bytes) /\ Len(msg) < Word
  BY DEF TypeOK
<1>2. lim \in 0..Len(msg) /\ index \in 0..lim /\ Len(msg) \in Nat
  BY <1>1 DEF TypeOK, Positions
<1>3. \A k \in 1..lim : msg[k] \in Bytes
  BY <1>1, <1>2
<1>4. SubSeq(msg, 1, lim) \in Seq(Bytes) /\ Len(SubSeq(msg, 1, lim)) = lim
  BY <1>1, <1>2, <1>3, SubSeqProperties
<1> QED
  BY <1>1, <1>2, <1>4 DEF Buf

LEMMA GetFacts ==
  ASSUME TypeOK, NEW i \in Nat, i <= lim, NEW wire
  PROVE  get(i, wire).index \in Ahead(Buf, i)
<1>1. Buf \in Seq(Bytes) /\ i <= Len(Buf)
  BY BufFacts
<1>2. CASE wire # WireBytes
  <2>1. get(i, wire).index = skip(Buf, i, wire).index
    BY <1>2 DEF get
  <2> QED
    BY <1>1, <2>1, SkipFacts
<1>3. CASE wire = WireBytes
  <2> DEFINE n == DecodeVarint(Buf, i)
             v == SkipFixed(Buf, n.index, n.x)
  <2>1. n.index \in Ahead(Buf, i) /\ n.x \in Nat
    BY <1>1, DecodeVarintFacts, DecodeVarintNat
  <2>2. v.index \in Ahead(Buf, n.index)
    <3> HIDE DEF n
    <3>1. n.index \in Nat /\ n.index <= Len(Buf)
      BY <2>1 DEF Ahead
    <3> QED
      BY <1>1, <2>1, <3>1, SkipFixedFacts
  <2>3. get(i, wire).index \in {n.index, v.index}
    BY <1>3 DEF get
  <2> HIDE DEF n, v
  <2> QED
    BY <1>1, <2>1, <2>2, <2>3 DEF Ahead
<1> QED
  BY <1>2, <1>3

LEMMA PackedBytesFacts ==
  ASSUME TypeOK, NEW i \in Nat, i <= lim
  PROVE  LET r == PackedBytes(DecodeVarint(Buf, i))
         IN  /\ r.index \in Ahead(Buf, i)
             /\ r.err = None => r.x \in Nat /\ r.x <= lim
<1> DEFINE n == DecodeVarint(Buf, i)
           end == (n.index + n.x) % Word
<1>1. Buf \in Seq(Bytes) /\ i <= Len(Buf) /\ lim \in Nat
  BY BufFacts
<1>2. n.index \in Ahead(Buf, i)
  BY <1>1, DecodeVarintFacts
<1>3. CASE n.err # None
  <2>1. PackedBytes(n) = n
    BY <1>3 DEF PackedBytes
  <2> QED
    BY <1>2, <1>3, <2>1
<1>4. CASE n.err = None /\ end \in n.index..lim
  <2>1. PackedBytes(n) = Read(end, n.index)
    BY <1>4 DEF PackedBytes
  <2>2. end \in Nat /\ end <= lim
    <3>1. n.index \in Nat
      BY <1>2 DEF Ahead
    <3>2. \A j \in Nat : \A k \in j..lim : k \in Nat /\ k <= lim
      BY <1>1
    <3> HIDE DEF n, end
    <3> QED
      BY <1>4, <3>1, <3>2
  <2> HIDE DEF end
  <2> QED
    BY <1>2, <2>1, <2>2
<1>5. CASE n.err = None /\ end \notin n.index..lim
  <2>1. PackedBytes(n).index = n.index /\ PackedBytes(n).err # None
    BY <1>5 DEF PackedBytes
  <2> QED
    BY <1>2, <2>1
<1> QED
  BY <1>3, <1>4, <1>5

-----------------------------------------------------------------------------
(* the stack of calls *)

\* The search that the next item goes on from: all fields before pidx have smaller tags than the
\* last one searched for, and p is the field with that tag.
SearchOK(f) ==
  /\ f.ptag = -1 => f.pidx = 1
  /\ f.ptag \in 0..(Word32 - 1) =>
       /\ \A j \in FieldsOf(f.type) : j < f.pidx => Fields[f.type][j].tag < f.ptag
       /\ \A j \in FieldsOf(f.type) : (Fields[f.type][j].tag = f.ptag) <=> (j = f.p)

SearchInv == \A k \in 1..Len(stack) : stack[k].kind = "struct" => SearchOK(stack[k])

\* Packed decoders call nobody, and there is room for the messages in a map entry.
DepthInv ==
  /\ DepthCounts
  /\ began.depth \in Nat
  /\ \A k \in 1..Len(stack) :
       /\ stack[k].kind = "packed" => k = Len(stack)
       /\ stack[k].kind = "map" => began.depth + k <= MaxDepth
       /\ stack[k].kind = "struct" => k <= MaxDepth + 1

\* A call is made for a field, and packed numbers are read as long as there is no error.
CallersInv ==
  /\ \A k \in 1..Len(stack) : k # Len(stack) => stack[k].p # 0
  /\ ~Idle /\ F.kind = "packed" => err = None

IInv == TypeOK /\ MessagesNest /\ DepthInv /\ SearchInv /\ CallersInv

\* f is the innermost call, and goes on
Going(f) ==
  /\ FrameOK(f)
  /\ f.kind = F.kind /\ f.type = F.type /\ f.end = F.end /\ f.olim = F.olim /\ f.oindex = F.oindex
  /\ f.kind = "struct" => SearchOK(f)

\* an item, or a part of it, is read, perhaps in vain
Reads ==
  /\ err = None
  /\ \E f : Going(f) /\ stack' = With(f)
  /\ index' \in index..lim /\ lim' = lim
  /\ index' = index => err' # None
  /\ F.kind = "packed" => err' = None
  /\ depth' = depth \/ (depth' = depth + 1 /\ err' # None)

\* unmarshal_struct is called for a nested message
Calls ==
  /\ err = None /\ err' = None
  /\ depth <= MaxDepth /\ depth' = depth + 1
  /\ F.kind # "packed"
  /\ lim' \in 0..lim /\ index' \in (index + 1)..lim'
  /\ \E f, g : /\ Going(f) /\ f.p # 0
               /\ FrameOK(g) /\ g.kind = "struct" /\ SearchOK(g) /\ g.olim = lim /\ g.oindex = lim'
               /\ stack' = Append(With(f), g)

\* a map entry or packed numbers begin
Starts ==
  /\ err = None /\ err' = None
  /\ F.kind # "packed"
  /\ lim' = lim /\ index' \in (index + 1)..lim
  /\ \E f, g : /\ Going(f) /\ f.p # 0
               /\ FrameOK(g) /\ g.kind \in {"map", "packed"} /\ g.olim = lim /\ g.end <= lim
               /\ stack' = Append(With(f), g)
               /\ g.kind = "map" => depth' = depth + 1 /\ depth + 1 <= MaxDepth
               /\ g.kind = "packed" => depth' = depth

\* unmarshal_struct returns to a field decoder
Ends ==
  /\ F.kind = "struct" /\ Outer # <<>>
  /\ stack' = Outer /\ lim' = F.olim /\ index' = F.oindex
  /\ \/ depth' = depth - 1 /\ err' = err
     \/ depth' = depth /\ err' # None

\* Unmarshal returns
LastEnds ==
  /\ F.kind = "struct" /\ Outer = <<>>
  /\ stack' = <<>> /\ lim' = lim /\ index' = index
  /\ \/ depth' = depth - 1 /\ result' = err
     \/ depth' = depth /\ result' # None

\* a map entry or packed numbers end
Pops ==
  /\ F.kind # "struct"
  /\ stack' = Outer /\ lim' = lim /\ index' \in index..lim
  /\ \/ F.kind = "map" /\ depth' = depth - 1 /\ err = None /\ err' = None
     \/ F.kind = "map" /\ depth' = depth /\ err' # None
     \/ F.kind = "packed" /\ depth' = depth /\ (err' = err \/ err' # None)

Effect == Reads \/ Calls \/ Starts \/ Ends \/ LastEnds \/ Pops

Kept == UNCHANGED <<root, msg, began, calls>> /\ objs' \in {objs, objs + 1}

LEMMA ElementsSuffice ==
  ASSUME NEW S, NEW s \in Seq(S)
  PROVE  s \in Seq({s[k] : k \in 1..Len(s)})
<1>1. Len(s) \in Nat /\ s = [k \in 1..Len(s) |-> s[k]]
  OBVIOUS
<1> QED
  BY <1>1

LEMMA StackFacts ==
  ASSUME TypeOK, ~Idle
  PROVE  /\ Len(stack) \in Nat \ {0}
         /\ Len(stack) \in 1..Len(stack)
         /\ FrameOK(F)
<1>1. stack \in Seq({stack[k] : k \in 1..Len(stack)}) /\ stack # <<>>
  BY DEF TypeOK, Idle
<1>2. Len(stack) \in Nat \ {0}
  BY <1>1
<1> QED
  BY <1>2 DEF TypeOK, F

LEMMA WithFacts ==
  ASSUME TypeOK, ~Idle, NEW f
  PROVE  /\ With(f) \in Seq({stack[k] : k \in 1..Len(stack)} \cup {f})
         /\ Len(With(f)) = Len(stack)
         /\ \A k \in 1..Len(stack) : With(f)[k] = IF k = Len(stack) THEN f ELSE stack[k]
<1> DEFINE S == {stack[k] : k \in 1..Len(stack)}
<1>1. stack \in Seq(S \cup {f}) /\ Len(stack) \in 1..Len(stack)
  <2>1. stack \in Seq(S)
    BY DEF TypeOK
  <2>2. stack \in Seq(S \cup {f})
    <3> HIDE DEF S
    <3> QED
      BY <2>1
  <2> QED
    BY <2>2, StackFacts
<1> HIDE DEF S
<1>2. f \in S \cup {f}
  OBVIOUS
<1>3. /\ [stack EXCEPT ![Len(stack)] = f] \in Seq(S \cup {f})
      /\ Len([stack EXCEPT ![Len(stack)] = f]) = Len(stack)
      /\ \A k \in 1..Len(stack) : [stack EXCEPT ![Len(stack)] = f][k] = IF k = Len(stack) THEN f ELSE stack[k]
  BY <1>1, <1>2, ExceptSeq
<1> QED
  BY <1>3 DEF With, S

LEMMA PushFacts ==
  ASSUME TypeOK, ~Idle, NEW f, NEW g, stack' = Append(With(f), g)
  PROVE  /\ stack' \in Seq({stack'[k] : k \in 1..Len(stack')})
         /\ Len(stack') = Len(stack) + 1
         /\ stack' # <<>>
         /\ \A k \in 1..Len(stack) : stack'[k] = IF k = Len(stack) THEN f ELSE stack[k]
         /\ stack'[Len(stack) + 1] = g
<1> DEFINE S == {stack[k] : k \in 1..Len(stack)} \cup {f}
<1>1. /\ With(f) \in Seq(S \cup {g}) /\ g \in S \cup {g}
      /\ Len(With(f)) = Len(stack)
      /\ \A k \in 1..Len(stack) : With(f)[k] = IF k = Len(stack) THEN f ELSE stack[k]
  <2>1. With(f) \in Seq(S)
    BY WithFacts
  <2>2. With(f) \in Seq(S \cup {g})
    <3> HIDE DEF S
    <3> QED
      BY <2>1
  <2> QED
    BY <2>2, WithFacts
<1> HIDE DEF S
<1>2. /\ stack' \in Seq(S \cup {g}) /\ stack' # <<>>
      /\ Len(stack') = Len(stack) + 1
      /\ \A k \in 1..Len(stack) : stack'[k] = With(f)[k]
      /\ stack'[Len(stack) + 1] = g
  BY <1>1, AppendProperties
<1> QED
  BY <1>1, <1>2, ElementsSuffice

LEMMA ReplaceFacts ==
  ASSUME TypeOK, ~Idle, NEW f, stack' = With(f)
  PROVE  /\ stack' \in Seq({stack'[k] : k \in 1..Len(stack')})
         /\ Len(stack') = Len(stack)
         /\ stack' # <<>>
         /\ \A k \in 1..Len(stack) : stack'[k] = IF k = Len(stack) THEN f ELSE stack[k]
<1> DEFINE S == {stack[k] : k \in 1..Len(stack)} \cup {f}
<1>1. With(f) \in Seq(S)
  BY WithFacts
<1>2. stack' \in Seq({stack'[k] : k \in 1..Len(stack')})
  <2> HIDE DEF S
  <2> QED
    BY <1>1, ElementsSuffice
<1>3. Len(stack') = Len(stack) /\ \A k \in 1..Len(stack) : stack'[k] = IF k = Len(stack) THEN f ELSE stack[k]
  BY WithFacts
<1>4. stack' # <<>>
  BY <1>3, StackFacts
<1> QED
  BY <1>2, <1>3, <1>4

LEMMA OuterFacts ==
  ASSUME TypeOK, ~Idle
  PROVE  /\ Outer \in Seq({Outer[k] : k \in 1..Len(Outer)})
         /\ Len(Outer) = Len(stack) - 1
         /\ \A k \in 1..Len(Outer) : Outer[k] = stack[k]
         /\ Outer = <<>> <=> Len(stack) = 1
<1> DEFINE n == Len(stack) - 1
           S == {stack[k] : k \in 1..Len(stack)}
<1>1. n \in Nat /\ n \in Int /\ 1 \in Int /\ \A k \in 1..n : stack[k] \in S
  BY StackFacts
<1> HIDE DEF n, S
<1>2. /\ SubSeq(stack, 1, n) \in Seq(S)
      /\ Len(SubSeq(stack, 1, n)) = IF 1 <= n THEN n - 1 + 1 ELSE 0
      /\ \A k \in 1..(n - 1 + 1) : SubSeq(stack, 1, n)[k] = stack[1 + k - 1]
  BY <1>1, SubSeqProperties
<1>3. Len(SubSeq(stack, 1, n)) = n
  BY <1>1, <1>2
<1>4. \A k \in 1..n : SubSeq(stack, 1, n)[k] = stack[k]
  BY <1>1, <1>2
<1>5. SubSeq(stack, 1, n) \in Seq({SubSeq(stack, 1, n)[k] : k \in 1..Len(SubSeq(stack, 1, n))})
  BY <1>2, ElementsSuffice
<1>6. SubSeq(stack, 1, n) = <<>> <=> n = 0
  <2>1. \A s \in Seq(S) : s = <<>> <=> Len(s) = 0
    BY EmptySeq
  <2> QED
    BY <1>2, <1>3, <2>1
<1>7. Outer = SubSeq(stack, 1, n)
  BY DEF Outer, n
<1> QED
  BY <1>3, <1>4, <1>5, <1>6, <1>7, StackFacts DEF n

-----------------------------------------------------------------------------
(* the steps and their effects *)

LEMMA PropertiesFacts ==
  ASSUME NEW f, FrameOK(f), f.p # 0
  PROVE  P(f) \in FieldProperties /\ P(f).stype \in DOMAIN Fields /\ P(f).val \in ValEncs
<1>1. f.type \in DOMAIN Fields /\ f.p \in 1..Len(Fields[f.type])
  BY DEF FrameOK
<1>2. Fields[f.type] \in Seq(FieldProperties)
  BY <1>1, TypesAssumption
<1>3. Fields[f.type][f.p] \in FieldProperties
  BY <1>1, <1>2
<1> QED
  BY <1>3 DEF P, FieldProperties, ValEncs

LEMMA NewFrame ==
  ASSUME TypeOK, NEW kind \in {"struct", "map", "packed"}, NEW type \in DOMAIN Fields, NEW base, NEW slot,
         NEW fin \in Positions, NEW oindex \in Positions
  PROVE  LET g == Frame(kind, type, base, fin, oindex, slot)
         IN  /\ FrameOK(g) /\ SearchOK(g)
             /\ g.kind = kind /\ g.type = type /\ g.end = fin /\ g.oindex = oindex /\ g.olim = lim
<1> DEFINE g == Frame(kind, type, base, fin, oindex, slot)
<1>1. /\ g.kind = kind /\ g.type = type /\ g.end = fin /\ g.oindex = oindex /\ g.olim = lim
      /\ g.p = 0 /\ g.pidx = 1 /\ g.ptag = -1
      /\ DOMAIN g = {"kind", "type", "base", "end", "pidx", "ptag", "p", "y", "olim", "oindex", "slot"}
  BY DEF Frame
<1>2. Fields[type] \in Seq(FieldProperties) /\ lim \in Positions
  BY TypesAssumption DEF TypeOK
<1> HIDE DEF g
<1>3. FrameOK(g)
  BY <1>1, <1>2 DEF FrameOK
<1>4. SearchOK(g)
  BY <1>1, Word32Assumption DEF SearchOK
<1> QED
  BY <1>1, <1>3, <1>4 DEF g

\* A search goes on with the innermost call.
LEMMA SearchFacts ==
  ASSUME FrameOK(F), F.kind = "struct", SearchOK(F), NEW tag \in Nat
  PROVE  Going(Search(F, tag)) /\ Search(F, tag).kind = "struct"
<1> DEFINE props == Fields[F.type]
           ahead == {k \in FieldsOf(F.type) : k >= Restart(F, tag) /\ props[k].tag >= tag % Word32}
           pidx  == IF ahead = {} THEN Len(props) + 1 ELSE CHOOSE k \in ahead : \A j \in ahead : k <= j
           p     == IF ahead # {} /\ props[pidx].tag = tag % Word32 THEN pidx ELSE 0
           g     == [F EXCEPT !.pidx = pidx, !.ptag = tag, !.p = p]
<1>1. CASE tag = F.ptag
  BY <1>1 DEF Search, Going
<1>2. CASE tag # F.ptag
  <2>1. Search(F, tag) = g
    BY <1>2 DEF Search
  <2>2. /\ F.type \in DOMAIN Fields /\ props \in Seq(FieldProperties) /\ Len(props) \in Nat
        /\ \A j, k \in 1..Len(props) : j < k => props[j].tag < props[k].tag
        /\ \A k \in 1..Len(props) : props[k].tag \in Nat
    <3>1. F.type \in DOMAIN Fields
      BY DEF FrameOK
    <3>2. /\ props \in Seq(FieldProperties)
          /\ \A j, k \in FieldsOf(F.type) : j < k => Fields[F.type][j].tag < Fields[F.type][k].tag
      BY <3>1, TypesAssumption
    <3>3. \A k \in 1..Len(props) : props[k] \in FieldProperties
      BY <3>2
    <3>4. \A q \in FieldProperties : q.tag \in Nat
      BY Word32Assumption DEF FieldProperties
    <3> QED
      BY <3>1, <3>2, <3>3, <3>4 DEF FieldsOf
  <2>3. F.pidx \in Nat \ {0} /\ F.ptag \in Nat \cup {-1} /\ Restart(F, tag) \in Nat \ {0}
    BY DEF FrameOK, Restart
  <2>4. ahead # {} => pidx \in ahead /\ \A j \in ahead : pidx <= j
    <3> SUFFICES ASSUME ahead # {}
                 PROVE  pidx \in ahead /\ \A j \in ahead : pidx <= j
      OBVIOUS
    <3>1. ahead \in SUBSET Nat
      BY DEF FieldsOf
    <3> HIDE DEF ahead
    <3>2. \E m \in ahead : \A k \in ahead : m <= k
      BY <3>1, LeastNat
    <3> QED
      BY <3>2
  <2>5. pidx \in 1..(Len(props) + 1) /\ p \in 0..Len(props)
    <3>1. ahead \subseteq 1..Len(props)
      BY DEF FieldsOf
    <3>2. CASE ahead = {}
      BY <2>2, <3>2
    <3>3. CASE ahead # {}
      <4>1. pidx \in 1..Len(props)
        BY <2>4, <3>1, <3>3
      <4> HIDE DEF pidx, ahead
      <4> QED
        BY <2>2, <4>1
    <3> QED
      BY <3>2, <3>3
  <2> HIDE DEF pidx, p
  <2>6. /\ DOMAIN g = {"kind", "type", "base", "end", "pidx", "ptag", "p", "y", "olim", "oindex", "slot"}
        /\ g.kind = F.kind /\ g.type = F.type /\ g.end = F.end /\ g.olim = F.olim /\ g.oindex = F.oindex
        /\ g.pidx = pidx /\ g.ptag = tag /\ g.p = p
    BY DEF FrameOK
  <2> HIDE DEF g
  <2>7. FrameOK(g)
    BY <2>5, <2>6 DEF FrameOK
  <2>8. ASSUME tag \in 0..(Word32 - 1)
        PROVE  /\ \A j \in 1..Len(props) : j < pidx => props[j].tag < tag
               /\ \A j \in 1..Len(props) : (props[j].tag = tag) <=> (j = p)
    <3>1. tag % Word32 = tag
      BY <2>8, Word32Assumption
    <3>2. ASSUME NEW j \in 1..Len(props), j < pidx PROVE props[j].tag < tag
      <4>1. CASE j < Restart(F, tag)
        <5>1. ~(tag < F.ptag) /\ j < F.pidx
          BY <4>1 DEF Restart
        <5>2. F.ptag \in 0..(Word32 - 1) /\ F.ptag < tag
          <6>1. F.ptag # -1
            BY <5>1 DEF SearchOK
          <6>2. F.ptag \in Nat /\ F.ptag <= tag
            BY <2>3, <5>1, <6>1
          <6> QED
            BY <1>2, <2>8, <6>2, Word32Assumption
        <5>3. props[j].tag < F.ptag
          BY <5>1, <5>2 DEF SearchOK, FieldsOf
        <5> QED
          BY <2>2, <2>3, <5>2, <5>3
      <4>2. CASE j >= Restart(F, tag)
        <5>1. j \notin ahead
          <6>1. CASE ahead = {}
            BY <6>1
          <6>2. CASE ahead # {}
            <7> HIDE DEF ahead
            <7> QED
              BY <2>4, <2>5, <3>2, <6>2
          <6> QED
            BY <6>1, <6>2
        <5>2. ~(props[j].tag >= tag)
          BY <3>1, <4>2, <5>1 DEF FieldsOf
        <5> QED
          BY <2>2, <5>2
      <4> QED
        BY <2>3, <4>1, <4>2
    <3>3. ASSUME NEW j \in 1..Len(props) PROVE (props[j].tag = tag) <=> (j = p)
      <4>1. CASE ahead = {}
        <5>1. p = 0 /\ pidx = Len(props) + 1
          BY <4>1 DEF p, pidx
        <5>2. props[j].tag < tag
          BY <3>2, <5>1, <2>2
        <5> QED
          BY <2>2, <5>1, <5>2
      <4>2. CASE ahead # {}
        <5>1. pidx \in 1..Len(props) /\ props[pidx].tag >= tag
          BY <2>4, <3>1, <4>2 DEF FieldsOf
        <5>2. p = IF props[pidx].tag = tag THEN pidx ELSE 0
          BY <3>1, <4>2 DEF p
        <5>3. j > pidx => props[j].tag > props[pidx].tag
          BY <2>2, <5>1
        <5>4. j < pidx => props[j].tag < tag
          BY <3>2
        <5> QED
          BY <2>2, <5>1, <5>2, <5>3, <5>4
      <4> QED
        BY <4>1, <4>2
    <3> QED
      BY <3>2, <3>3
  <2>9. SearchOK(g)
    BY <2>6, <2>8 DEF SearchOK, FieldsOf
  <2> QED
    BY <2>1, <2>6, <2>7, <2>9 DEF Going
<1> QED
  BY <1>1, <1>2

\* The position after the key of an item, or after the first byte of a map entry's field.
Inside(i) == i \in Nat /\ index < i /\ i <= lim

LEMMA InsideFacts ==
  ASSUME TypeOK, NEW i, Inside(i), NEW j \in Ahead(Buf, i)
  PROVE  j \in (index + 1)..lim /\ j \in Nat /\ j # index
BY BufFacts DEF Inside, Ahead

LEMMA TookReads ==
  ASSUME TypeOK, err = None, F.kind # "packed", NEW f, Going(f), NEW i, Inside(i),
         NEW r, r.index \in Ahead(Buf, i), Took(f, r)
  PROVE  Reads /\ objs' = objs
<1>1. index' \in (index + 1)..lim /\ index' # index /\ index \in Nat /\ lim \in Nat
  BY InsideFacts, BufFacts DEF Took
<1>2. index' \in index..lim
  BY <1>1
<1> QED
  BY <1>1, <1>2 DEF Took, Reads

\* Unmarshal_struct is entered.
LEMMA EnterCalls ==
  ASSUME TypeOK, err = None, depth <= MaxDepth, F.kind # "packed",
         NEW f, Going(f), f.p # 0, NEW i, Inside(i),
         NEW raw, raw.index \in Ahead(Buf, i), raw.x \in Ahead(Buf, i), raw.x <= raw.index,
         NEW base, NEW slot, Enter(f, raw, base, slot)
  PROVE  Calls
<1>1. /\ raw.index \in (index + 1)..lim /\ raw.index \in Nat /\ raw.x \in (index + 1)..lim /\ raw.x \in Nat
      /\ index \in Nat /\ lim \in Nat /\ lim <= Len(msg) /\ Len(msg) \in Nat
  BY InsideFacts, BufFacts
<1>2. P(f).stype \in DOMAIN Fields
  BY PropertiesFacts DEF Going
<1>3. 0 \in Positions /\ raw.index \in Positions
  BY <1>1 DEF Positions
<1> DEFINE g == Frame("struct", P(f).stype, base, 0, raw.index, slot)
<1>4. FrameOK(g) /\ SearchOK(g) /\ g.kind = "struct" /\ g.oindex = raw.index /\ g.olim = lim
  BY <1>2, <1>3, NewFrame
<1>5. lim' = raw.index /\ index' = raw.x /\ depth' = depth + 1 /\ err' = err /\ stack' = Append(With(f), g)
  BY DEF Enter
<1> HIDE DEF g
<1>6. lim' \in 0..lim /\ index' \in (index + 1)..lim'
  BY <1>1, <1>5
<1> QED
  BY <1>4, <1>5, <1>6 DEF Calls

LEMMA LeafReads ==
  ASSUME TypeOK, err = None, F.kind # "packed", NEW f, Going(f), f.p # 0, NEW i, Inside(i), DecLeaf(f, i)
  PROVE  Reads /\ objs' = objs
<1>1. Buf \in Seq(Bytes) /\ i \in Nat /\ i <= lim /\ i <= Len(Buf) /\ Len(Buf) < Word
  <2>1. Buf \in Seq(Bytes) /\ Len(Buf) = lim /\ lim \in Nat /\ lim <= Len(msg) /\ Len(msg) < Word /\ Len(msg) \in Nat
    BY BufFacts
  <2> QED
    BY <2>1, WireAssumption DEF Inside
<1>2. DecodeRawBytes(Buf, i).index \in Ahead(Buf, i)
  BY <1>1, DecodeRawBytesFacts
<1>3. CASE DecNumber(f, i)
  <2>1. P(f).val \in ValEncs
    BY PropertiesFacts DEF Going
  <2>2. valDec(P(f).val, Buf, i).index \in Ahead(Buf, i)
    BY <1>1, <2>1, NumberFacts
  <2> QED
    BY <1>3, <2>2, TookReads DEF DecNumber
<1>4. CASE DecBytes(f, i)
  BY <1>2, <1>4, TookReads DEF DecBytes
<1>5. CASE DecByteArray(f, i)
  BY <1>2, <1>5, TookReads DEF DecByteArray
<1>6. CASE DecStrings(f, i)
  BY <1>2, <1>6, TookReads DEF DecStrings
<1>7. CASE DecStringArray(f, i)
  BY <1>2, <1>7, TookReads DEF DecStringArray
<1>8. CASE DecCustom(f, i)
  <2> DEFINE v == get(i, P(f).wire)
  <2>1. v.index \in Ahead(Buf, i)
    BY <1>1, GetFacts
  <2>2. PICK e \in {None, Rejected} : Took(f, [v EXCEPT !.err = IF v.err = None THEN e ELSE v.err])
    BY <1>8 DEF DecCustom
  <2>3. [v EXCEPT !.err = IF v.err = None THEN e ELSE v.err].index = v.index
    OBVIOUS
  <2> QED
    BY <2>1, <2>2, <2>3, TookReads
<1>9. CASE DecNothing(f, i)
  <2>1. Read(0, i).index \in Ahead(Buf, i)
    BY <1>1 DEF Ahead
  <2> QED
    BY <1>9, <2>1, TookReads DEF DecNothing
<1> QED
  BY <1>3, <1>4, <1>5, <1>6, <1>7, <1>8, <1>9 DEF DecLeaf

LEMMA PackedStarts ==
  ASSUME TypeOK, err = None, F.kind # "packed", NEW f, Going(f), f.p # 0, NEW i, Inside(i), DecPacked(f, i)
  PROVE  (Reads \/ Starts) /\ objs' = objs
<1> DEFINE r == PackedBytes(DecodeVarint(Buf, i))
<1>1. r.index \in Ahead(Buf, i) /\ (r.err = None => r.x \in Nat /\ r.x <= lim)
  BY PackedBytesFacts DEF Inside
<1>2. CASE DecFails(f, r)
  <2> HIDE DEF r
  <2> QED
    BY <1>1, <1>2, TookReads DEF DecFails
<1>3. CASE r.err = None /\ ~DecFails(f, r)
  <2> DEFINE g == Frame("packed", f.type, At(f), r.x, 0, 0)
  <2>1. /\ stack' = Append(With(f), g) /\ index' = r.index
        /\ UNCHANGED <<lim, depth, err, memory, filled>>
    BY <1>3 DEF DecPacked
  <2> HIDE DEF r
  <2>2. index' \in (index + 1)..lim
    BY <1>1, <2>1, InsideFacts
  <2>3. r.x \in Positions /\ 0 \in Positions
    BY <1>1, <1>3, BufFacts DEF Positions
  <2>4. f.type \in DOMAIN Fields
    BY DEF Going, FrameOK
  <2>5. FrameOK(g) /\ g.kind = "packed" /\ g.end = r.x /\ g.olim = lim
    BY <2>3, <2>4, NewFrame
  <2> HIDE DEF g
  <2> QED
    BY <1>1, <1>3, <2>1, <2>2, <2>5 DEF Starts, memory
<1> QED
  BY <1>2, <1>3 DEF DecPacked

LEMMA MessageCalls ==
  ASSUME TypeOK, err = None, depth <= MaxDepth, F.kind # "packed",
         NEW f, Going(f), f.p # 0, NEW i, Inside(i), DecMessage(f, i)
  PROVE  (Reads \/ Calls) /\ objs' \in {objs, objs + 1}
<1> DEFINE raw == DecodeRawBytes(Buf, i)
<1>1. Buf \in Seq(Bytes) /\ i \in Nat /\ i <= Len(Buf)
  BY BufFacts DEF Inside
<1>2. raw.index \in Ahead(Buf, i) /\ (raw.err = None => raw.x \in Ahead(Buf, i) /\ raw.x <= raw.index)
  BY <1>1, DecodeRawBytesFacts
<1>3. CASE DecFails(f, raw)
  <2> HIDE DEF raw
  <2> QED
    BY <1>2, <1>3, TookReads DEF DecFails
<1>4. CASE raw.err = None /\ ~DecFails(f, raw)
  <2>1. \/ DecStruct(f, raw) \/ DecPtr(f, raw) \/ DecStructs(f, raw)
        \/ DecStructArray(f, raw) \/ DecPtrs(f, raw)
    BY <1>4 DEF DecMessage
  <2> HIDE DEF raw
  <2>2. \/ \E base, slot : Enter(f, raw, base, slot)
        \/ Took(f, raw)
    BY <2>1 DEF DecStruct, DecPtr, DecStructs, DecStructArray, DecPtrs
  <2>3. objs' \in {objs, objs + 1}
    BY <2>1 DEF DecStruct, DecPtr, DecStructs, DecStructArray, DecPtrs, memory, Took
  <2> QED
    BY <1>2, <1>4, <2>2, <2>3, EnterCalls, TookReads
<1> QED
  BY <1>3, <1>4 DEF DecMessage

LEMMA MapStarts ==
  ASSUME TypeOK, err = None, F.kind # "packed", NEW f, Going(f), f.p # 0, NEW i, Inside(i), DecMap(f, i)
  PROVE  (Reads \/ Starts) /\ objs' \in {objs, objs + 1}
<1> DEFINE raw == DecodeRawBytes(Buf, i)
           fail == IF depth + 1 > MaxDepth THEN Fail(TooDeep, i) ELSE raw
<1>1. Buf \in Seq(Bytes) /\ i \in Nat /\ i <= Len(Buf) /\ depth \in Nat /\ MaxDepth \in Nat
  BY BufFacts, DepthAssumption DEF Inside, TypeOK
<1>2. /\ raw.index \in Ahead(Buf, i)
      /\ raw.err = None => raw.x \in Ahead(Buf, i) /\ raw.x <= raw.index
  BY <1>1, DecodeRawBytesFacts
<1>3. i \in Ahead(Buf, i)
  BY <1>1 DEF Ahead
<1>4. fail.index \in Ahead(Buf, i)
  BY <1>2, <1>3
<1>5. ASSUME fail.err = None PROVE fail = raw /\ depth + 1 <= MaxDepth
  <2>1. CASE depth + 1 > MaxDepth
    <3>1. fail = Fail(TooDeep, i) /\ Fail(TooDeep, i).err = TooDeep
      BY <2>1
    <3> QED
      BY <1>5, <3>1 DEF TooDeep
  <2>2. CASE ~(depth + 1 > MaxDepth)
    BY <1>1, <2>2
  <2> QED
    BY <2>1, <2>2
<1>6. lim' = lim /\ depth' = depth + 1
  BY DEF DecMap
<1>7. CASE fail.err # None
  <2>1. stack' = With(f) /\ index' = fail.index /\ err' = fail.err /\ objs' = objs
    BY <1>7, Zenon DEF DecMap
  <2> HIDE DEF fail
  <2>2. index' \in (index + 1)..lim /\ index' # index /\ index \in Nat /\ lim \in Nat
    BY <1>4, <2>1, InsideFacts, BufFacts
  <2>3. index' \in index..lim
    BY <2>2
  <2> QED
    BY <1>6, <1>7, <2>1, <2>2, <2>3 DEF Reads
<1>8. CASE fail.err = None
  <2> DEFINE g == Frame("map", P(f).stype, New, raw.index, 0, 0)
  <2>1. stack' = Append(With(f), g) /\ index' = raw.x /\ objs' = objs + 1 /\ err' = err
    BY <1>8, Zenon DEF DecMap
  <2> HIDE DEF raw
  <2>2. index' \in (index + 1)..lim /\ raw.index \in (index + 1)..lim /\ raw.index \in Nat
    BY <1>2, <1>5, <1>8, <2>1, InsideFacts
  <2>3. raw.index \in Positions /\ 0 \in Positions
    BY <2>2, BufFacts DEF Positions
  <2>4. P(f).stype \in DOMAIN Fields
    BY PropertiesFacts DEF Going
  <2>5. FrameOK(g) /\ g.kind = "map" /\ g.end = raw.index /\ g.olim = lim
    BY <2>3, <2>4, NewFrame
  <2>6. raw.index <= lim
    BY <2>2, BufFacts
  <2> HIDE DEF g
  <2> QED
    BY <1>5, <1>6, <1>8, <2>1, <2>2, <2>5, <2>6 DEF Starts
<1> QED
  BY <1>7, <1>8

LEMMA FieldEffect ==
  ASSUME TypeOK, err = None, depth <= MaxDepth, F.kind # "packed",
         NEW f, Going(f), f.p # 0, NEW i, Inside(i), DecField(f, i)
  PROVE  Effect /\ objs' \in {objs, objs + 1}
BY LeafReads, PackedStarts, MessageCalls, MapStarts DEF DecField, Effect

LEMMA LoopingFacts ==
  ASSUME TypeOK, SearchInv, Looping
  PROVE  /\ F.kind = "struct" /\ err = None /\ depth <= MaxDepth /\ ~Idle
         /\ Key.index \in Ahead(Buf, index)
         /\ Key.err = None => Inside(Key.index)
         /\ Going(Found) /\ Going(F)
<1>1. Buf \in Seq(Bytes) /\ Len(Buf) = lim /\ index \in Nat /\ index < lim
  BY BufFacts DEF Looping
<1>2. /\ Key.index \in Ahead(Buf, index)
      /\ Key.err = None => Key.index > index
      /\ Key.x \in Nat
  BY <1>1, RawLengthFacts DEF Key
<1>3. Tag \in Nat
  BY <1>2 DEF Tag, KeyId
<1>4. FrameOK(F) /\ F.kind = "struct" /\ SearchOK(F)
  BY StackFacts DEF Looping, SearchInv, F
<1>5. Going(Found)
  BY <1>3, <1>4, SearchFacts DEF Found
<1>6. Going(F)
  BY <1>4 DEF Going
<1>7. Key.err = None => Inside(Key.index)
  BY <1>1, <1>2 DEF Inside, Ahead
<1> QED
  BY <1>2, <1>4, <1>5, <1>6, <1>7 DEF Looping

LEMMA WithF ==
  ASSUME TypeOK, ~Idle
  PROVE  With(F) = stack
<1> DEFINE S == {stack[k] : k \in 1..Len(stack)}
<1>1. stack \in Seq(S) /\ Len(stack) \in 1..Len(stack)
  BY StackFacts DEF TypeOK
<1>2. F \in S
  BY <1>1 DEF F
<1> HIDE DEF S
<1>3. /\ [stack EXCEPT ![Len(stack)] = F] \in Seq(S)
      /\ Len([stack EXCEPT ![Len(stack)] = F]) = Len(stack)
      /\ \A k \in 1..Len(stack) : [stack EXCEPT ![Len(stack)] = F][k] = IF k = Len(stack) THEN F ELSE stack[k]
  BY <1>1, <1>2, ExceptSeq
<1>4. \A k \in 1..Len(stack) : [stack EXCEPT ![Len(stack)] = F][k] = stack[k]
  BY <1>3 DEF F
<1> QED
  BY <1>1, <1>3, <1>4, SeqEqual DEF With

LEMMA ReturnEffect ==
  ASSUME TypeOK, ~Idle, F.kind = "struct", NEW e, NEW d, Return(e, d),
         (d = depth - 1 /\ e = err) \/ (d = depth /\ e # None)
  PROVE  (Ends \/ LastEnds) /\ Kept
<1>1. stack' = Outer /\ depth' = d /\ Kept
  BY DEF Return, Kept
<1>2. CASE Outer = <<>>
  <2>1. result' = e /\ lim' = lim /\ index' = index
    BY <1>2, Zenon DEF Return
  <2> QED
    BY <1>1, <1>2, <2>1 DEF LastEnds
<1>3. CASE Outer # <<>>
  <2>1. err' = e /\ lim' = F.olim /\ index' = F.oindex
    BY <1>3, Zenon DEF Return, obuf
  <2> QED
    BY <1>1, <1>3, <2>1 DEF Ends
<1> QED
  BY <1>2, <1>3

LEMMA StructEffect ==
  ASSUME TypeOK, SearchInv, unmarshal_struct
  PROVE  Effect /\ Kept
<1>1. CASE KeyFails
  <2>1. /\ F.kind = "struct" /\ err = None /\ ~Idle /\ Key.index \in Ahead(Buf, index) /\ Going(F)
    BY <1>1, LoopingFacts DEF KeyFails
  <2>2. index' \in index..lim
    BY <1>1, <2>1, BufFacts DEF KeyFails, Ahead
  <2>3. /\ err' # None /\ lim' = lim /\ depth' = depth /\ stack' = With(F) /\ Kept
    BY <1>1, <2>1, WithF DEF KeyFails, Kept, memory
  <2> QED
    BY <2>1, <2>2, <2>3 DEF Reads, Effect
<1>2. CASE SkipItem
  <2>1. /\ F.kind = "struct" /\ err = None /\ Inside(Key.index) /\ Going(Found)
    BY <1>2, LoopingFacts DEF SkipItem, Known
  <2>2. skip(Buf, Key.index, KeyWire(Key.x)).index \in Ahead(Buf, Key.index)
    BY <2>1, BufFacts, SkipFacts DEF Inside
  <2>3. Took(Found, skip(Buf, Key.index, KeyWire(Key.x)))
    BY <1>2 DEF SkipItem
  <2>4. Reads /\ objs' = objs
    BY <2>1, <2>2, <2>3, TookReads
  <2> QED
    BY <1>2, <2>4 DEF SkipItem, Effect, Kept
<1>3. CASE WrongType
  <2>1. /\ F.kind = "struct" /\ err = None /\ Inside(Key.index) /\ Going(Found)
    BY <1>3, LoopingFacts DEF WrongType, Known
  <2>2. Fail(BadType, Key.index).index \in Ahead(Buf, Key.index)
    BY <2>1, BufFacts DEF Inside, Ahead
  <2>3. Took(Found, Fail(BadType, Key.index))
    BY <1>3 DEF WrongType
  <2>4. Reads /\ objs' = objs
    BY <2>1, <2>2, <2>3, TookReads
  <2> QED
    BY <1>3, <2>4 DEF WrongType, Effect, Kept
<1>4. CASE FieldItem
  <2>1. /\ F.kind = "struct" /\ err = None /\ depth <= MaxDepth /\ Inside(Key.index) /\ Going(Found)
    BY <1>4, LoopingFacts DEF FieldItem, Known
  <2>2. Found.p # 0 /\ DecField(Found, Key.index)
    BY <1>4 DEF FieldItem
  <2>3. F.kind # "packed"
    BY <2>1
  <2>4. Effect /\ objs' \in {objs, objs + 1}
    BY <2>1, <2>2, <2>3, FieldEffect
  <2> QED
    BY <1>4, <2>4 DEF FieldItem, Kept
<1>5. CASE DepthReached
  <2>1. ~Idle /\ F.kind = "struct" /\ Return(TooDeep, depth) /\ TooDeep # None
    BY <1>5 DEF DepthReached, TooDeep
  <2> QED
    BY <2>1, ReturnEffect DEF Effect
<1>6. CASE IllegalTag
  <2>1. ~Idle /\ F.kind = "struct" /\ Return(BadTag, depth) /\ BadTag # None
    BY <1>6, LoopingFacts DEF IllegalTag, BadTag
  <2> QED
    BY <2>1, ReturnEffect DEF Effect
<1>7. CASE Returns
  <2>1. ~Idle /\ F.kind = "struct" /\ Return(err, depth - 1)
    BY <1>7 DEF Returns, Undone
  <2> QED
    BY <2>1, ReturnEffect DEF Effect
<1> QED
  BY <1>1, <1>2, <1>3, <1>4, <1>5, <1>6, <1>7 DEF unmarshal_struct

LEMMA MapEffect ==
  ASSUME IInv, dec_new_map
  PROVE  Effect /\ Kept
<1>1. TypeOK /\ ~Idle /\ F.kind = "map" /\ FrameOK(F)
  BY StackFacts DEF IInv, dec_new_map, MapField, MapBadTag, MapDone, MapFails, InMap
<1>2. F.end <= lim /\ F.end \in Nat /\ index \in Nat /\ lim \in Nat
  <2>1. Len(stack) \in 1..Len(stack) /\ stack[Len(stack)] = F
    BY <1>1, StackFacts DEF F
  <2>2. F.end <= lim
    <3>1. Len(stack) # 1
      BY <1>1, <2>1 DEF IInv, MessagesNest
    <3>2. F.end <= End(Len(stack))
      BY <1>1, <2>1, <3>1 DEF IInv, MessagesNest
    <3> QED
      BY <3>2 DEF End
  <2> QED
    BY <1>1, <2>2, BufFacts DEF FrameOK, Positions
<1>3. err = None => depth <= MaxDepth
  <2>1. err = None => depth = began.depth + Len(stack)
    BY <1>1, StackFacts DEF IInv, DepthInv, DepthCounts, Calling
  <2>2. began.depth + Len(stack) <= MaxDepth
    BY <1>1, StackFacts DEF IInv, DepthInv, F
  <2> QED
    BY <2>1, <2>2
<1>4. CASE MapField
  <2>1. PICK k \in EntryField : DecField([F EXCEPT !.p = k], index + 1)
    BY <1>4 DEF MapField
  <2> DEFINE f == [F EXCEPT !.p = k]
  <2>2. k \in 1..Len(Fields[F.type])
    BY DEF EntryField, FieldsOf
  <2>3. /\ DOMAIN f = DOMAIN F
        /\ f.kind = F.kind /\ f.type = F.type /\ f.end = F.end /\ f.olim = F.olim /\ f.oindex = F.oindex
        /\ f.pidx = F.pidx /\ f.ptag = F.ptag /\ f.p = k
    BY <1>1 DEF FrameOK
  <2> HIDE DEF f
  <2>4. FrameOK(f)
    BY <1>1, <2>2, <2>3 DEF FrameOK
  <2>5. Going(f) /\ f.p # 0
    <3>1. f.p # 0
      <4>1. Fields[F.type] \in Seq(FieldProperties)
        BY <1>1, TypesAssumption DEF FrameOK
      <4> QED
        BY <2>2, <2>3, <4>1
    <3> QED
      BY <1>1, <2>3, <2>4, <3>1 DEF Going
  <2>6. Inside(index + 1)
    BY <1>2, <1>4 DEF Inside, MapField
  <2>7. err = None /\ F.kind # "packed"
    BY <1>1, <1>4 DEF MapField, InMap
  <2>8. DecField(f, index + 1)
    BY <2>1 DEF f
  <2>9. Effect /\ objs' \in {objs, objs + 1}
    BY <1>1, <1>3, <2>5, <2>6, <2>7, <2>8, FieldEffect
  <2> QED
    BY <1>4, <2>9 DEF MapField, Kept
<1>5. CASE MapBadTag
  <2>1. err = None /\ err' # None /\ index' = index + 1 /\ index < F.end
    BY <1>5 DEF MapBadTag, InMap, BadMap
  <2>2. index' \in index..lim /\ index' # index
    BY <1>2, <2>1
  <2>3. lim' = lim /\ depth' = depth /\ stack' = With(F) /\ Kept
    BY <1>1, <1>5, WithF DEF MapBadTag, Kept, memory
  <2>4. Going(F)
    BY <1>1 DEF Going
  <2> QED
    BY <1>1, <2>1, <2>2, <2>3, <2>4 DEF Reads, Effect
<1>6. CASE MapDone
  <2>1. index' \in index..lim
    BY <1>1, <1>6, BufFacts DEF MapDone
  <2> QED
    BY <1>1, <1>6, <2>1 DEF MapDone, InMap, Undone, Pops, Effect, Kept
<1>7. CASE MapFails
  <2>1. index' \in index..lim
    BY <1>1, <1>7, BufFacts DEF MapFails, buffer
  <2> QED
    BY <1>1, <1>7, <2>1 DEF MapFails, buffer, memory, Pops, Effect, Kept
<1> QED
  BY <1>4, <1>5, <1>6, <1>7 DEF dec_new_map

LEMMA PackedEffect ==
  ASSUME IInv, packed
  PROVE  Effect /\ Kept
<1>1. TypeOK /\ ~Idle /\ F.kind = "packed" /\ FrameOK(F) /\ err = None
  BY StackFacts DEF IInv, CallersInv, packed, PackedNumber, PackedDone, InPacked
<1>2. Len(stack) \in Nat /\ Len(stack) \in 1..Len(stack) /\ stack[Len(stack)] = F /\ Len(stack) # 1
  BY <1>1, StackFacts DEF F, IInv, MessagesNest
<1>3. /\ Buf \in Seq(Bytes) /\ Len(Buf) = lim /\ index \in Nat /\ lim \in Nat /\ index <= lim /\ lim < Word
      /\ F.end <= lim /\ F.end \in Nat
  <2>1. F.end <= lim
    BY <1>1, <1>2 DEF IInv, MessagesNest, End
  <2> QED
    BY <1>1, <2>1, BufFacts, WireAssumption DEF FrameOK, Positions
<1>4. CASE PackedNumber
  <2> DEFINE u == valDec(PackedP.val, Buf, index)
  <2>1. PackedP.val \in ValEncs
    <3>1. /\ Len(Outer) = Len(stack) - 1 /\ Outer[Len(Outer)] = stack[Len(Outer)]
      BY <1>1, <1>2, OuterFacts
    <3>2. FrameOK(Outer[Len(Outer)]) /\ Outer[Len(Outer)].p # 0
      BY <1>2, <3>1 DEF IInv, TypeOK, CallersInv
    <3> QED
      BY <3>2, PropertiesFacts DEF PackedP
  <2>2. u.index \in Ahead(Buf, index) /\ (u.err = None => u.index > index)
    BY <1>3, <2>1, NumberFacts
  <2>3. /\ index' = u.index /\ err' = u.err
        /\ UNCHANGED <<root, msg, lim, depth, filled, objs, result, began, calls>>
    BY <1>4 DEF PackedNumber
  <2>4. stack' = IF u.err = None THEN With([F EXCEPT !.y = Append(F.y, Stored(u.x, PackedP.word))]) ELSE Outer
    BY <1>4 DEF PackedNumber
  <2> HIDE DEF u
  <2>5. index' \in index..lim /\ (err' = None => index' # index)
    BY <1>3, <2>2, <2>3 DEF Ahead
  <2>6. CASE u.err = None
    <3> DEFINE f == [F EXCEPT !.y = Append(F.y, Stored(u.x, PackedP.word))]
    <3>1. /\ DOMAIN f = DOMAIN F
          /\ f.kind = F.kind /\ f.type = F.type /\ f.end = F.end /\ f.olim = F.olim /\ f.oindex = F.oindex
          /\ f.pidx = F.pidx /\ f.ptag = F.ptag /\ f.p = F.p
      BY <1>1 DEF FrameOK
    <3>2. stack' = With(f)
      BY <2>4, <2>6
    <3> HIDE DEF f
    <3>3. Going(f)
      BY <1>1, <3>1 DEF Going, FrameOK
    <3> QED
      BY <1>1, <2>3, <2>5, <2>6, <3>2, <3>3 DEF Reads, Effect, Kept
  <2>7. CASE u.err # None
    BY <1>1, <2>3, <2>4, <2>5, <2>7 DEF Pops, Effect, Kept
  <2> QED
    BY <2>6, <2>7
<1>5. CASE PackedDone
  <2>1. index' \in index..lim
    BY <1>3, <1>5 DEF PackedDone, buffer
  <2> QED
    BY <1>1, <1>5, <2>1 DEF PackedDone, buffer, Pops, Effect, Kept
<1> QED
  BY <1>4, <1>5 DEF packed

LEMMA StepEffect ==
  ASSUME IInv, Step
  PROVE  Effect /\ Kept /\ ~Idle
<1>1. ~Idle
  BY DEF Step, unmarshal_struct, dec_new_map, packed, KeyFails, SkipItem, WrongType, FieldItem,
         DepthReached, IllegalTag, Returns, Known, Looping, MapField, MapBadTag, MapDone, MapFails,
         InMap, PackedNumber, PackedDone, InPacked
<1> QED
  BY <1>1, StructEffect, MapEffect, PackedEffect DEF Step, IInv

-----------------------------------------------------------------------------
(* the invariants, by the effects *)

\* What the effects do to the stack of n calls.
Replaced(n) == \E f : /\ Going(f)
                      /\ stack' \in Seq({stack'[k] : k \in 1..Len(stack')})
                      /\ Len(stack') = n /\ stack' # <<>>
                      /\ \A k \in 1..n : stack'[k] = IF k = n THEN f ELSE stack[k]

Grown(n, f, g) == /\ stack' \in Seq({stack'[k] : k \in 1..Len(stack')})
                  /\ Len(stack') = n + 1 /\ stack' # <<>>
                  /\ \A k \in 1..n : stack'[k] = IF k = n THEN f ELSE stack[k]
                  /\ stack'[n + 1] = g

Shrunk(n) == /\ stack' \in Seq({stack'[k] : k \in 1..Len(stack')})
             /\ Len(stack') = n - 1 /\ (stack' = <<>> <=> n = 1)
             /\ \A k \in 1..(n - 1) : stack'[k] = stack[k]

LEMMA ReadsReplace ==
  ASSUME TypeOK, ~Idle, Reads
  PROVE  Replaced(Len(stack))
<1>1. PICK f : Going(f) /\ stack' = With(f)
  BY DEF Reads
<1> QED
  BY <1>1, ReplaceFacts DEF Replaced

LEMMA OuterShrinks ==
  ASSUME TypeOK, ~Idle, stack' = Outer
  PROVE  Shrunk(Len(stack))
<1>1. Outer = <<>> <=> Len(stack) = 1
  BY OuterFacts
<1>2. /\ Outer \in Seq({Outer[k] : k \in 1..Len(Outer)})
      /\ Len(Outer) = Len(stack) - 1
      /\ \A k \in 1..(Len(stack) - 1) : Outer[k] = stack[k]
  BY OuterFacts
<1> HIDE DEF Outer
<1> QED
  BY <1>1, <1>2 DEF Shrunk

LEMMA InnermostFacts ==
  ASSUME IInv, ~Idle, NEW n, n = Len(stack)
  PROVE  /\ n \in Nat /\ n >= 1 /\ stack[n] = F /\ FrameOK(F) /\ n \in 1..n
         /\ \A k \in 1..n : FrameOK(stack[k])
         /\ F.kind # "struct" => n # 1 /\ F.olim = lim
         /\ F.kind = "struct" /\ n # 1 => F.oindex = lim /\ lim <= F.olim
         /\ n = 1 => lim = Len(msg)
<1>1. n \in Nat /\ n >= 1 /\ n \in 1..n /\ stack[n] = F /\ FrameOK(F)
  BY StackFacts DEF F, IInv
<1>2. \A k \in 1..n : FrameOK(stack[k])
  BY DEF IInv, TypeOK
<1>3. End(n) = lim
  BY DEF End
<1>4. F.kind # "struct" => n # 1 /\ F.olim = lim
  BY <1>1, <1>3 DEF IInv, MessagesNest
<1>5. F.kind = "struct" /\ n # 1 => F.oindex = lim /\ lim <= F.olim
  BY <1>1, <1>3 DEF IInv, MessagesNest
<1>6. n = 1 => lim = Len(msg)
  BY <1>1, <1>3 DEF IInv, MessagesNest
<1> QED
  BY <1>1, <1>2, <1>4, <1>5, <1>6

LEMMA TypeStep ==
  ASSUME IInv, ~Idle, Effect, Kept
  PROVE  TypeOK'
<1> DEFINE n == Len(stack)
<1>1. /\ TypeOK
      /\ n \in Nat /\ n >= 1 /\ stack[n] = F /\ FrameOK(F)
      /\ \A k \in 1..n : FrameOK(stack[k])
      /\ F.kind = "struct" /\ n # 1 => F.oindex = lim /\ lim <= F.olim
      /\ index \in Nat /\ lim \in Nat /\ index <= lim /\ lim <= Len(msg) /\ Len(msg) \in Nat /\ depth \in Nat
  BY InnermostFacts, BufFacts DEF IInv, TypeOK
<1>2. /\ root' \in Roots /\ msg' \in Seq(Bytes) /\ Len(msg') < Word /\ calls' \in 0..MaxCalls /\ objs' \in Nat /\ msg' = msg
  BY DEF IInv, TypeOK, Kept
<1>3. n = 1 <=> Outer = <<>>
  BY <1>1, OuterFacts
<1>4. lim' \in 0..Len(msg) /\ index' \in 0..lim'
  <2>1. CASE Reads \/ Calls \/ Starts \/ LastEnds \/ Pops
    BY <1>1, <2>1 DEF Reads, Calls, Starts, LastEnds, Pops
  <2>2. CASE Ends
    BY <1>1, <1>3, <2>2 DEF Ends, FrameOK, Positions
  <2> QED
    BY <2>1, <2>2 DEF Effect
<1>5. depth' \in Nat
  <2>1. CASE Reads \/ Calls \/ Starts
    BY <1>1, <2>1 DEF Reads, Calls, Starts
  <2>2. CASE Ends \/ LastEnds \/ Pops
    <3>1. depth >= began.depth + Calling /\ began.depth \in Nat
      BY DEF IInv, DepthInv, DepthCounts
    <3>2. F.kind # "packed" => Calling \in Nat /\ Calling >= 1
      BY <1>1 DEF Calling
    <3>3. F.kind # "packed" => depth - 1 \in Nat
      BY <1>1, <3>1, <3>2
    <3> QED
      BY <1>1, <2>2, <3>3 DEF Ends, LastEnds, Pops
  <2> QED
    BY <2>1, <2>2 DEF Effect
<1>6. /\ stack' \in Seq({stack'[k] : k \in 1..Len(stack')})
      /\ \A k \in 1..Len(stack') : FrameOK(stack'[k])
  <2>1. CASE Reads
    <3>1. Replaced(n)
      BY <1>1, <2>1, ReadsReplace
    <3> HIDE DEF n
    <3> QED
      BY <1>1, <3>1 DEF Replaced, Going
  <2>2. CASE Calls \/ Starts
    <3>1. PICK f, g : FrameOK(f) /\ FrameOK(g) /\ stack' = Append(With(f), g)
      BY <2>2 DEF Calls, Starts, Going
    <3>2. Grown(n, f, g)
      BY <1>1, <3>1, PushFacts DEF Grown
    <3> HIDE DEF n
    <3> QED
      BY <1>1, <3>1, <3>2 DEF Grown
  <2>3. CASE Ends \/ LastEnds \/ Pops
    <3>1. stack' = Outer
      BY <2>3 DEF Ends, LastEnds, Pops
    <3>2. Shrunk(n)
      BY <1>1, <3>1, OuterShrinks
    <3> HIDE DEF n
    <3> QED
      BY <1>1, <3>2 DEF Shrunk
  <2> QED
    BY <2>1, <2>2, <2>3 DEF Effect
<1> QED
  BY <1>2, <1>4, <1>5, <1>6 DEF TypeOK, Positions, FrameOK

\* The stack keeps its kinds and its bounds, but for what is pushed or popped.
LEMMA NestStep ==
  ASSUME IInv, ~Idle, Effect, Kept
  PROVE  MessagesNest'
<1> DEFINE n == Len(stack)
<1>1. /\ TypeOK /\ n \in Nat /\ n >= 1 /\ stack[n] = F /\ FrameOK(F) /\ msg' = msg
      /\ F.kind # "struct" => n # 1 /\ F.olim = lim
      /\ F.kind = "struct" /\ n # 1 => F.oindex = lim /\ lim <= F.olim
      /\ n = 1 => lim = Len(msg)
  BY InnermostFacts DEF IInv, Kept
<1>2. \A k \in 1..n : LET f == stack[k]
                          e == IF k = n THEN lim ELSE stack[k + 1].olim
                      IN  /\ k = 1 => f.kind = "struct" /\ e = Len(msg)
                          /\ k # 1 /\ f.kind = "struct" => f.oindex = e /\ e <= f.olim
                          /\ k # 1 /\ f.kind # "struct" => f.olim = e /\ f.end <= e
  BY <1>1 DEF IInv, MessagesNest, End
<1>3. lim \in Nat /\ Len(msg) \in Nat
  BY <1>1, BufFacts
<1>4. SUFFICES /\ stack' = <<>> => lim' = Len(msg)
               /\ \A k \in 1..Len(stack') :
                    LET f == stack'[k]
                        e == IF k = Len(stack') THEN lim' ELSE stack'[k + 1].olim
                    IN  /\ k = 1 => f.kind = "struct" /\ e = Len(msg)
                        /\ k # 1 /\ f.kind = "struct" => f.oindex = e /\ e <= f.olim
                        /\ k # 1 /\ f.kind # "struct" => f.olim = e /\ f.end <= e
  <2>1. Len(stack') \in Nat
    <3>1. CASE Reads
      BY <1>1, <3>1, ReadsReplace DEF Replaced
    <3>2. CASE Calls \/ Starts
      BY <1>1, <3>2, PushFacts DEF Calls, Starts
    <3>3. CASE Ends \/ LastEnds \/ Pops
      BY <1>1, <3>3, OuterShrinks DEF Ends, LastEnds, Pops, Shrunk
    <3> QED
      BY <3>1, <3>2, <3>3 DEF Effect
  <2> QED
    BY <1>1, <2>1 DEF MessagesNest, End, Idle
<1>5. CASE Reads
  <2>1. Replaced(n) /\ lim' = lim
    BY <1>1, <1>5, ReadsReplace DEF Reads
  <2>2. PICK f : /\ Going(f) /\ Len(stack') = n /\ stack' # <<>>
                 /\ \A k \in 1..n : stack'[k] = IF k = n THEN f ELSE stack[k]
    BY <2>1 DEF Replaced
  <2>3. \A k \in 1..n : /\ stack'[k].kind = stack[k].kind /\ stack'[k].olim = stack[k].olim
                        /\ stack'[k].oindex = stack[k].oindex /\ stack'[k].end = stack[k].end
    BY <1>1, <2>2 DEF Going
  <2>4. \A k \in 1..n : k # n => k + 1 \in 1..n
    BY <1>1
  <2> HIDE DEF n
  <2> QED
    BY <1>1, <1>2, <2>1, <2>2, <2>3, <2>4
<1>6. CASE Calls \/ Starts
  <2>1. PICK f, g : /\ Going(f) /\ stack' = Append(With(f), g) /\ g.olim = lim
                    /\ \/ g.kind = "struct" /\ g.oindex = lim' /\ lim' <= lim
                       \/ g.kind # "struct" /\ lim' = lim /\ g.end <= lim
    BY <1>3, <1>6 DEF Calls, Starts
  <2>2. Grown(n, f, g)
    BY <1>1, <2>1, PushFacts DEF Grown
  <2>3. \A k \in 1..n : /\ stack'[k].kind = stack[k].kind /\ stack'[k].olim = stack[k].olim
                        /\ stack'[k].oindex = stack[k].oindex /\ stack'[k].end = stack[k].end
    BY <1>1, <2>1, <2>2 DEF Going, Grown
  <2>4. \A k \in 1..n : /\ k # n + 1
                        /\ stack'[k + 1].olim = IF k = n THEN lim ELSE stack[k + 1].olim
    <3> HIDE DEF n
    <3>1. \A k \in 1..n : k # n + 1 /\ (k # n => k + 1 \in 1..n)
      BY <1>1
    <3> QED
      BY <2>1, <2>2, <2>3, <3>1 DEF Grown
  <2>5. Len(stack') = n + 1 /\ stack'[n + 1] = g /\ stack' # <<>>
    BY <2>2 DEF Grown
  <2> HIDE DEF n
  <2>6. \A k \in 1..Len(stack') : k \in 1..n \/ k = n + 1
    BY <1>1, <2>5
  <2>7. \A k \in 1..n :
          LET f1 == stack'[k]
              e  == IF k = n + 1 THEN lim' ELSE stack'[k + 1].olim
          IN  /\ k = 1 => f1.kind = "struct" /\ e = Len(msg)
              /\ k # 1 /\ f1.kind = "struct" => f1.oindex = e /\ e <= f1.olim
              /\ k # 1 /\ f1.kind # "struct" => f1.olim = e /\ f1.end <= e
    BY <1>2, <2>3, <2>4
  <2>8. n + 1 # 1
    BY <1>1
  <2> QED
    BY <2>1, <2>5, <2>6, <2>7, <2>8
<1>7. CASE Ends \/ LastEnds \/ Pops
  <2>1. stack' = Outer
    BY <1>7 DEF Ends, LastEnds, Pops
  <2>2. Shrunk(n)
    BY <1>1, <2>1, OuterShrinks
  <2>3. n = 1 => lim' = lim
    BY <1>1, <1>7, OuterFacts DEF Ends, LastEnds, Pops
  <2>4. n # 1 => lim' = F.olim
    BY <1>1, <1>7, OuterFacts DEF Ends, LastEnds, Pops
  <2> HIDE DEF n
  <2>5. Len(stack') = n - 1 /\ (stack' = <<>> <=> n = 1)
    BY <2>2 DEF Shrunk
  <2>6. ASSUME NEW k \in 1..(n - 1)
        PROVE  /\ stack'[k] = stack[k] /\ k \in 1..n /\ k # n /\ n # 1
               /\ k = n - 1 => k + 1 = n
               /\ k # n - 1 => stack'[k + 1] = stack[k + 1]
    BY <1>1, <2>2 DEF Shrunk
  <2>7. ASSUME NEW k \in 1..(n - 1)
        PROVE  (IF k = n - 1 THEN lim' ELSE stack'[k + 1].olim) = (IF k = n THEN lim ELSE stack[k + 1].olim)
    BY <1>1, <2>4, <2>6
  <2> QED
    BY <1>1, <1>2, <2>3, <2>5, <2>6, <2>7
<1> QED
  BY <1>5, <1>6, <1>7 DEF Effect

LEMMA DepthStep ==
  ASSUME IInv, ~Idle, Effect, Kept
  PROVE  DepthInv'
<1> DEFINE n == Len(stack)
           deep == n - (IF F.kind = "packed" THEN 1 ELSE 0)
<1>1. /\ TypeOK /\ n \in Nat /\ n >= 1 /\ stack[n] = F /\ FrameOK(F)
      /\ F.kind # "struct" => n # 1
      /\ depth \in Nat /\ began.depth \in Nat /\ MaxDepth \in Nat /\ began' = began
  BY InnermostFacts, DepthAssumption DEF IInv, Kept, TypeOK, DepthInv
<1>2. /\ depth >= began.depth + deep /\ deep <= MaxDepth + 1
      /\ err = None => depth = began.depth + deep
  BY DEF IInv, DepthInv, DepthCounts, Calling
<1>3. \A k \in 1..n : /\ stack[k].kind = "packed" => k = n
                      /\ stack[k].kind = "map" => began.depth + k <= MaxDepth
                      /\ stack[k].kind = "struct" => k <= MaxDepth + 1
  BY DEF IInv, DepthInv
<1>4. SUFFICES ASSUME NEW m, m = Len(stack')
               PROVE  /\ m \in Nat
                      /\ stack' # <<>> =>
                           LET c == m - (IF stack'[m].kind = "packed" THEN 1 ELSE 0)
                           IN  /\ depth' >= began.depth + c /\ c <= MaxDepth + 1
                               /\ err' = None => depth' = began.depth + c
                      /\ stack' = <<>> /\ result' = None => depth' <= began.depth
                      /\ \A k \in 1..m : /\ stack'[k].kind = "packed" => k = m
                                         /\ stack'[k].kind = "map" => began.depth + k <= MaxDepth
                                         /\ stack'[k].kind = "struct" => k <= MaxDepth + 1
  BY <1>1, <1>4 DEF DepthInv, DepthCounts, Calling, Idle, F
<1>5. CASE Reads
  <2>1. Replaced(n)
    BY <1>1, <1>5, ReadsReplace
  <2>2. PICK f : /\ Going(f) /\ m = n /\ stack' # <<>>
                 /\ \A k \in 1..n : stack'[k] = IF k = n THEN f ELSE stack[k]
    BY <1>4, <2>1 DEF Replaced
  <2>3. \A k \in 1..n : stack'[k].kind = stack[k].kind
    BY <1>1, <2>2 DEF Going
  <2>4. stack'[m].kind = F.kind
    BY <1>1, <2>2, <2>3
  <2>5. err = None /\ (depth' = depth \/ (depth' = depth + 1 /\ err' # None))
    BY <1>5 DEF Reads
  <2> HIDE DEF n
  <2> QED
    BY <1>1, <1>2, <1>3, <2>2, <2>3, <2>4, <2>5
<1>6. CASE Calls \/ Starts
  <2>1. PICK f, g : /\ Going(f) /\ stack' = Append(With(f), g)
                    /\ \/ g.kind = "struct" /\ depth' = depth + 1 /\ depth <= MaxDepth
                       \/ g.kind = "map" /\ depth' = depth + 1 /\ depth + 1 <= MaxDepth
                       \/ g.kind = "packed" /\ depth' = depth
    BY <1>6 DEF Calls, Starts
  <2>2. err = None /\ F.kind # "packed"
    BY <1>6 DEF Calls, Starts
  <2>3. Grown(n, f, g)
    BY <1>1, <2>1, PushFacts DEF Grown
  <2>4. \A k \in 1..n : stack'[k].kind = stack[k].kind
    BY <1>1, <2>1, <2>3 DEF Going, Grown
  <2>5. m = n + 1 /\ stack'[m] = g
    BY <1>4, <2>3 DEF Grown
  <2> HIDE DEF n
  <2>6. \A k \in 1..m : k = m \/ (k \in 1..n /\ stack'[k].kind # "packed")
    BY <1>1, <1>3, <2>2, <2>4, <2>5
  <2>7. depth = began.depth + n
    BY <1>1, <1>2, <2>2
  <2>8. \A k \in 1..m : /\ stack'[k].kind = "packed" => k = m
                        /\ stack'[k].kind = "map" => began.depth + k <= MaxDepth
                        /\ stack'[k].kind = "struct" => k <= MaxDepth + 1
    <3>1. ASSUME NEW k \in 1..n
          PROVE  /\ stack'[k].kind = "map" => began.depth + k <= MaxDepth
                 /\ stack'[k].kind = "struct" => k <= MaxDepth + 1
      BY <1>3, <2>4
    <3>2. /\ stack'[m].kind = "map" => began.depth + m <= MaxDepth
          /\ stack'[m].kind = "struct" => m <= MaxDepth + 1
      BY <1>1, <2>1, <2>5, <2>7
    <3> QED
      BY <2>6, <3>1, <3>2
  <2>9. stack'[m].kind # "packed" => depth' = began.depth + m /\ m <= MaxDepth + 1
    BY <1>1, <2>1, <2>5, <2>7
  <2>10. stack'[m].kind = "packed" => depth' = began.depth + m - 1 /\ m - 1 <= MaxDepth + 1
    BY <1>1, <1>2, <2>1, <2>2, <2>5, <2>7
  <2>11. m \in Nat /\ stack' # <<>>
    BY <1>1, <2>3, <2>5 DEF Grown
  <2> QED
    BY <1>1, <2>8, <2>9, <2>10, <2>11
<1>7. CASE Ends \/ LastEnds \/ Pops
  <2>1. stack' = Outer
    BY <1>7 DEF Ends, LastEnds, Pops
  <2>2. Shrunk(n) /\ (Outer = <<>> <=> n = 1)
    BY <1>1, <2>1, OuterShrinks, OuterFacts
  <2>3. m = n - 1 /\ (stack' = <<>> <=> n = 1) /\ \A k \in 1..m : stack'[k] = stack[k]
    BY <1>4, <2>2 DEF Shrunk
  <2>4. \A k \in 1..m : k \in 1..n /\ k # n /\ stack'[k].kind # "packed"
    <3> HIDE DEF n
    <3>1. \A k \in 1..m : k \in 1..n /\ k # n
      BY <1>1, <2>3
    <3> QED
      BY <1>3, <2>3, <3>1
  <2>5. stack' # <<>> => m \in 1..m
    <3> HIDE DEF n
    <3> QED
      BY <1>1, <2>3
  <2>6. CASE Ends
    <3>1. /\ F.kind = "struct" /\ stack' # <<>>
          /\ \/ depth' = depth - 1 /\ err' = err
             \/ depth' = depth /\ err' # None
      BY <2>1, <2>6 DEF Ends
    <3> HIDE DEF n
    <3> QED
      BY <1>1, <1>2, <1>3, <2>3, <2>4, <2>5, <3>1
  <2>7. CASE LastEnds
    <3>1. /\ F.kind = "struct" /\ stack' = <<>> /\ n = 1
          /\ \/ depth' = depth - 1 /\ result' = err
             \/ depth' = depth /\ result' # None
      BY <2>2, <2>7 DEF LastEnds
    <3> HIDE DEF n
    <3> QED
      BY <1>1, <1>2, <1>3, <2>3, <2>4, <3>1
  <2>8. CASE Pops
    <3>1. /\ n # 1
          /\ \/ F.kind = "map" /\ depth' = depth - 1 /\ err = None /\ err' = None
             \/ F.kind = "map" /\ depth' = depth /\ err' # None
             \/ F.kind = "packed" /\ depth' = depth /\ (err' = err \/ err' # None)
      BY <1>1, <2>8 DEF Pops
    <3> HIDE DEF n
    <3> QED
      BY <1>1, <1>2, <1>3, <2>3, <2>4, <2>5, <3>1
  <2> QED
    BY <1>7, <2>6, <2>7, <2>8
<1> QED
  BY <1>5, <1>6, <1>7 DEF Effect

LEMMA CallersStep ==
  ASSUME IInv, ~Idle, Effect, Kept
  PROVE  CallersInv'
<1> DEFINE n == Len(stack)
<1>1. /\ TypeOK /\ n \in Nat /\ n >= 1 /\ stack[n] = F /\ (F.kind # "struct" => n # 1)
      /\ F.kind = "packed" => err = None
  BY InnermostFacts DEF IInv, CallersInv
<1>2. \A k \in 1..n : k # n => stack[k].p # 0 /\ stack[k].kind # "packed"
  BY DEF IInv, CallersInv, DepthInv
<1>3. SUFFICES ASSUME NEW m, m = Len(stack')
               PROVE  /\ \A k \in 1..m : k # m => stack'[k].p # 0
                      /\ stack' # <<>> /\ stack'[m].kind = "packed" => err' = None
  BY <1>3 DEF CallersInv, Idle, F
<1>4. CASE Reads
  <2>1. Replaced(n)
    BY <1>1, <1>4, ReadsReplace
  <2>2. PICK f : /\ Going(f) /\ m = n /\ stack' # <<>>
                 /\ \A k \in 1..n : stack'[k] = IF k = n THEN f ELSE stack[k]
    BY <1>3, <2>1 DEF Replaced
  <2>3. stack'[n].kind = "packed" => err' = None
    BY <1>1, <1>4, <2>2 DEF Reads, Going
  <2> HIDE DEF n
  <2> QED
    BY <1>2, <2>2, <2>3
<1>5. CASE Calls \/ Starts
  <2>1. PICK f, g : Going(f) /\ f.p # 0 /\ stack' = Append(With(f), g) /\ err' = None
    BY <1>5 DEF Calls, Starts
  <2>2. Grown(n, f, g)
    BY <1>1, <2>1, PushFacts DEF Grown
  <2>3. m = n + 1
    BY <1>3, <2>2 DEF Grown
  <2> HIDE DEF n
  <2>4. \A k \in 1..m : k # m => k \in 1..n
    BY <1>1, <2>3
  <2> QED
    BY <1>2, <2>1, <2>2, <2>4 DEF Grown
<1>6. CASE Ends \/ LastEnds \/ Pops
  <2>1. stack' = Outer
    BY <1>6 DEF Ends, LastEnds, Pops
  <2>2. Shrunk(n)
    BY <1>1, <2>1, OuterShrinks
  <2>3. m = n - 1 /\ (stack' = <<>> <=> n = 1) /\ \A k \in 1..m : stack'[k] = stack[k]
    BY <1>3, <2>2 DEF Shrunk
  <2> HIDE DEF n
  <2>4. (\A k \in 1..m : k \in 1..n /\ k # n) /\ (stack' # <<>> => m \in 1..m)
    BY <1>1, <2>3
  <2> QED
    BY <1>2, <2>3, <2>4
<1> QED
  BY <1>4, <1>5, <1>6 DEF Effect

LEMMA SearchStep ==
  ASSUME IInv, ~Idle, Effect
  PROVE  SearchInv'
<1> DEFINE n == Len(stack)
<1>1. TypeOK /\ n \in Nat /\ n >= 1
  BY InnermostFacts DEF IInv
<1>2. \A k \in 1..n : stack[k].kind = "struct" => SearchOK(stack[k])
  BY DEF IInv, SearchInv
<1>3. SUFFICES \A k \in 1..Len(stack') : stack'[k].kind = "struct" => SearchOK(stack'[k])
  BY DEF SearchInv, SearchOK
<1>4. CASE Reads
  <2>1. Replaced(n)
    BY <1>1, <1>4, ReadsReplace
  <2> HIDE DEF n
  <2> QED
    BY <1>2, <2>1 DEF Replaced, Going
<1>5. CASE Calls \/ Starts
  <2>1. PICK f, g : /\ Going(f) /\ stack' = Append(With(f), g) /\ (g.kind = "struct" => SearchOK(g))
    BY <1>5 DEF Calls, Starts
  <2>2. Grown(n, f, g)
    BY <1>1, <2>1, PushFacts DEF Grown
  <2> HIDE DEF n
  <2>3. \A k \in 1..Len(stack') : k \in 1..n \/ k = n + 1
    BY <1>1, <2>2 DEF Grown
  <2> QED
    BY <1>2, <2>1, <2>2, <2>3 DEF Going, Grown
<1>6. CASE Ends \/ LastEnds \/ Pops
  <2>1. stack' = Outer
    BY <1>6 DEF Ends, LastEnds, Pops
  <2>2. Shrunk(n)
    BY <1>1, <2>1, OuterShrinks
  <2> HIDE DEF n
  <2>3. \A k \in 1..Len(stack') : k \in 1..n /\ stack'[k] = stack[k]
    BY <1>1, <2>2 DEF Shrunk
  <2> QED
    BY <1>2, <2>3
<1> QED
  BY <1>4, <1>5, <1>6 DEF Effect

-----------------------------------------------------------------------------
(* the steps of the client *)

LEMMA ClientTypes ==
  ASSUME IInv, Unmarshal \/ UnmarshalSelf \/ Zero \/ Rewind \/ NewBuffer
  PROVE  IInv' /\ Idle
<1>1. /\ TypeOK /\ Idle /\ lim = Len(msg) /\ Len(msg) \in Nat /\ index \in 0..lim /\ depth \in Nat
      /\ root \in DOMAIN Fields /\ calls \in Nat /\ MaxDepth \in Nat
  <2>1. Idle
    BY DEF Unmarshal, UnmarshalSelf, Zero, Rewind, NewBuffer, Client
  <2>2. calls \in Nat
    BY DepthAssumption DEF IInv, TypeOK
  <2> QED
    BY <2>1, <2>2, BufFacts, RootsAssumption, DepthAssumption DEF IInv, MessagesNest, TypeOK
<1>2. CASE Unmarshal
  <2> DEFINE g == Frame("struct", root, Pb, 0, index, 0)
  <2>1. /\ stack' = <<g>> /\ depth' = depth + 1 /\ began'.depth = depth
        /\ UNCHANGED <<root, msg, lim, index, objs>>
        /\ calls' = calls + 1 /\ calls < MaxCalls
    BY <1>2 DEF Unmarshal, Client, memory
  <2>2. FrameOK(g) /\ SearchOK(g) /\ g.kind = "struct"
    BY <1>1, NewFrame DEF Positions
  <2> HIDE DEF g
  <2>3. Len(stack') = 1 /\ stack'[1] = g /\ stack' \in Seq({stack'[k] : k \in 1..Len(stack')}) /\ stack' # <<>>
    BY <2>1
  <2>4. \A k \in 1..Len(stack') : k = 1 /\ stack'[k] = g
    BY <2>3
  <2>5. TypeOK'
    <3>1. \A k \in 1..Len(stack') : FrameOK(stack[k])'
      BY <2>1, <2>2, <2>4 DEF FrameOK, Positions
    <3>2. /\ root' \in Roots /\ msg' \in Seq(Bytes) /\ Len(msg') < Word /\ lim' \in Positions' /\ index' \in 0..lim'
          /\ objs' \in Nat
      BY <1>1, <2>1 DEF IInv, TypeOK, Positions
    <3>3. depth' \in Nat /\ calls' \in 0..MaxCalls
      BY <1>1, <2>1, DepthAssumption
    <3> QED
      BY <2>3, <3>1, <3>2, <3>3 DEF TypeOK
  <2>6. MessagesNest'
    BY <1>1, <2>1, <2>2, <2>3, <2>4 DEF MessagesNest, End, Idle
  <2>7. DepthInv'
    BY <1>1, <2>1, <2>2, <2>3, <2>4 DEF DepthInv, DepthCounts, Calling, Idle, F
  <2>8. SearchInv'
    BY <2>2, <2>4 DEF SearchInv, SearchOK
  <2>9. CallersInv'
    BY <2>2, <2>3, <2>4 DEF CallersInv, F
  <2> QED
    BY <1>1, <2>5, <2>6, <2>7, <2>8, <2>9 DEF IInv
<1>3. CASE UnmarshalSelf \/ Zero \/ Rewind \/ NewBuffer
  <2>1. /\ UNCHANGED <<root, msg, lim, stack, err, objs, began, calls>>
        /\ \/ index' \in {index, lim} /\ depth' = depth /\ result' = NotCalled
           \/ index' = 0 /\ depth' = 0 /\ result' = result
    BY <1>3 DEF UnmarshalSelf, Zero, Rewind, NewBuffer, buffer, memory
  <2>2. stack' = <<>> /\ stack = <<>> /\ Len(stack') = 0
    BY <1>1, <2>1 DEF Idle
  <2>3. TypeOK'
    BY <1>1, <2>1, <2>2 DEF TypeOK, Positions
  <2>4. MessagesNest'
    BY <1>1, <2>1, <2>2 DEF MessagesNest, Idle
  <2>5. DepthInv'
    <3>1. began.depth \in Nat /\ (result = None => depth <= began.depth) /\ NotCalled # None
      BY <1>1 DEF IInv, DepthInv, DepthCounts, NotCalled
    <3> QED
      BY <1>1, <2>1, <2>2, <3>1 DEF DepthInv, DepthCounts, Idle
  <2>6. SearchInv' /\ CallersInv'
    BY <2>2 DEF SearchInv, CallersInv, Idle
  <2> QED
    BY <1>1, <2>3, <2>4, <2>5, <2>6 DEF IInv
<1> QED
  BY <1>2, <1>3

LEMMA InitIInv ==
  ASSUME Init
  PROVE  IInv
<1>1. msg \in Seq(Bytes) /\ Len(msg) \in Nat /\ Len(msg) < Word
  BY MessagesAssumption DEF Init
<1>2. stack = <<>> /\ Len(stack) = 0 /\ stack \in Seq({stack[k] : k \in 1..Len(stack)})
  BY DEF Init
<1>3. TypeOK
  BY <1>1, <1>2, DepthAssumption DEF Init, TypeOK, Positions
<1>4. MessagesNest
  BY <1>2 DEF Init, MessagesNest, Idle
<1>5. DepthInv
  BY <1>2 DEF Init, DepthInv, DepthCounts, Idle
<1>6. SearchInv /\ CallersInv
  BY <1>2 DEF SearchInv, CallersInv, Idle
<1> QED
  BY <1>3, <1>4, <1>5, <1>6 DEF IInv

LEMMA Inductive ==
  ASSUME IInv, [Next]_vars
  PROVE  IInv'
<1>1. CASE Step
  <2>1. Effect /\ Kept /\ ~Idle
    BY <1>1, StepEffect
  <2> QED
    BY <2>1, TypeStep, NestStep, DepthStep, SearchStep, CallersStep DEF IInv
<1>2. CASE Unmarshal \/ UnmarshalSelf \/ Zero \/ Rewind \/ NewBuffer
  BY <1>2, ClientTypes
<1>3. CASE UNCHANGED vars
  BY <1>3 DEF vars, buffer, memory, IInv, TypeOK, MessagesNest, DepthInv, DepthCounts, SearchInv, CallersInv,
              SearchOK, FrameOK, Positions, End, Calling, Idle, F
<1> QED
  BY <1>1, <1>2, <1>3 DEF Next

\* Every effect reads on, ends a call, or fails.
LEMMA EffectReadsOn ==
  ASSUME IInv, ~Idle, ~Idle', Effect
  PROVE  ReadsOn
<1>1. /\ TypeOK /\ index \in Nat /\ lim \in Nat /\ index <= lim
      /\ F.kind = "struct" /\ Len(stack) # 1 => F.oindex = lim
      /\ Len(stack) \in Nat
  BY InnermostFacts, BufFacts DEF IInv
<1>2. CASE Reads
  BY <1>1, <1>2 DEF Reads, ReadsOn
<1>3. CASE Calls \/ Starts
  <2>1. lim' \in Nat
    BY <1>1, <1>3 DEF Calls, Starts
  <2>2. index' > index
    BY <1>1, <1>3, <2>1 DEF Calls, Starts
  <2> QED
    BY <2>2 DEF ReadsOn
<1>4. CASE Ends \/ LastEnds \/ Pops
  <2>1. stack' = Outer
    BY <1>4 DEF Ends, LastEnds, Pops
  <2>2. Len(stack') = Len(stack) - 1 /\ (Outer = <<>> <=> Len(stack) = 1)
    BY <1>1, <2>1, OuterFacts, OuterShrinks DEF Shrunk
  <2>3. ~LastEnds
    BY DEF LastEnds, Idle
  <2>4. index' >= index /\ index' \in Nat
    BY <1>1, <1>4, <2>2, <2>3 DEF Ends, Pops
  <2> QED
    BY <1>1, <2>2, <2>4 DEF ReadsOn
<1> QED
  BY <1>2, <1>3, <1>4 DEF Effect

-----------------------------------------------------------------------------
(* the theorems *)

THEOREM Invariance == Spec => []IInv
<1>1. Init => IInv
  BY InitIInv
<1>2. IInv /\ [Next]_vars => IInv'
  BY Inductive
<1> QED
  BY <1>1, <1>2, PTL DEF Spec

\* Whatever the bytes are, no step of Unmarshal moves the read position out of the bytes of the
\* message that is being decoded, nor these out of the client's slice, and every call in progress
\* has a struct type, a field of it, and a search within its fields.
THEOREM TypeCorrect == Spec => []TypeOK
<1>1. IInv => TypeOK
  BY DEF IInv
<1> QED
  BY <1>1, Invariance, PTL

\* The bytes and the position that a field decoder saves and restores around the nested
\* unmarshal_struct are, on every path, also the failing ones, the caller's own; map entries and
\* packed numbers end in the bytes they are read from.
THEOREM NestingKept == Spec => []MessagesNest
<1>1. IInv => MessagesNest
  BY DEF IInv
<1> QED
  BY <1>1, Invariance, PTL

\* recursion_depth is the number of nested calls in progress, at most one more than
\* MaxRecursionDepth, until an error leaves it too high; it is never too low, and a call that
\* succeeds gives back what it took.
THEOREM DepthCorrect == Spec => []DepthCounts
<1>1. IInv => DepthCounts
  BY DEF IInv, DepthInv
<1> QED
  BY <1>1, Invariance, PTL

\* unmarshal_struct's search for the field of a tag, which starts where the last one ended and goes
\* back only when tags jump back, is right for any order of the tags and for any struct type.
THEOREM SearchCorrect == Spec => []SearchFinds
<1>1. IInv => SearchFinds
  BY DEF IInv, SearchInv, SearchOK, SearchFinds
<1> QED
  BY <1>1, Invariance, PTL

\* Each step within a call of Unmarshal reads on, ends a nested call or fails: no bytes make it
\* loop.
THEOREM CallsEnd == Spec => UnmarshalEnds
<1>1. IInv /\ [Next]_vars => [ReadsOn]_vars
  <2> SUFFICES ASSUME IInv, Next, ~Idle, ~Idle'
               PROVE  ReadsOn
    BY DEF ReadsOn
  <2>1. Step
    BY ClientTypes DEF Next
  <2> QED
    BY <2>1, StepEffect, EffectReadsOn
<1> QED
  BY <1>1, Invariance, PTL DEF Spec, UnmarshalEnds
=============================================================================
