----------------------------- MODULE Scanner_proofs -----------------------------
(***************************************************************************)
(* Whatever bytes a Buffer holds and whatever a client calls: the scanning *)
(* methods never index outside the buffer, their loops end, the items they *)
(* return stand alone, and they are the items of MessageItems, in order.   *)
(***************************************************************************)
EXTENDS ScannerRefinement, Wire_proofs, FiniteSetTheorems

USE DEF None, EOF, Overflow, BadWire, BadLen, NotFound, Read, Fail

-----------------------------------------------------------------------------
(* the item at the read position *)

LEMMA KeyFacts ==
  ASSUME TypeOK
  PROVE  Key.index \in Ahead(buf, index) /\ (Key.err = None => Key.index > index)
BY DecodeVarintFacts DEF TypeOK, Positions, Key

LEMMA ValueFacts ==
  ASSUME TypeOK
  PROVE  /\ Value.index \in Ahead(buf, Key.index)
         /\ (KeyWire(Key.x) = WireBytes /\ Value.err = None) =>
              Value.x \in Ahead(buf, Key.index) /\ Value.x <= Value.index
<1>1. buf \in Seq(Bytes) /\ Key.index \in Nat /\ Key.index <= Len(buf)
  BY KeyFacts DEF TypeOK, Ahead
<1> QED
  BY <1>1, SkipFacts DEF Value

\* A position ahead of the read position is a position.
LEMMA AheadIsPosition ==
  ASSUME TypeOK, NEW i \in Nat, NEW j \in Ahead(buf, i)
  PROVE  j \in Positions
BY DEF TypeOK, Positions, Ahead

LEMMA ItemFacts ==
  ASSUME TypeOK
  PROVE  ItemHere.full \in Slices /\ ItemHere.val \in Slices
<1> DEFINE from == IF KeyWire(Key.x) = WireBytes /\ Value.err = None THEN Value.x ELSE Key.index
<1>1. index \in Positions /\ Len(buf) \in Nat
  BY DEF TypeOK, Positions
<1>2. Key.index \in Positions /\ index <= Key.index
  BY <1>1, KeyFacts, AheadIsPosition DEF Positions, Ahead
<1>3. Value.index \in Positions /\ Key.index <= Value.index
  BY <1>2, ValueFacts, AheadIsPosition DEF Positions, Ahead
<1>4. from \in Positions /\ from <= Value.index
  BY <1>1, <1>2, <1>3, ValueFacts, AheadIsPosition DEF Positions, Ahead
<1>5. ItemHere.full = <<index, Value.index>> /\ ItemHere.val = <<from, Value.index>>
  BY DEF ItemHere, Item
<1> HIDE DEF from
<1> QED
  BY <1>1, <1>2, <1>3, <1>4, <1>5 DEF Slices, Positions

LEMMA NothingFacts ==
  ASSUME TypeOK, NEW e, NEW k
  PROVE  /\ Nothing(e).full \in Slices /\ Nothing(e).val \in Slices
         /\ Count(k, e).full \in Slices /\ Count(k, e).val \in Slices
<1>1. <<0, 0>> \in Slices
  BY DEF TypeOK, Slices, Positions
<1> QED
  BY <1>1 DEF Nothing, Count, Item, NilSlice

LEMMA WantedFacts ==
  ASSUME TypeOK
  PROVE  Wanted(ItemHere).full \in Slices /\ Wanted(ItemHere).val \in Slices
BY ItemFacts, NothingFacts DEF Wanted

LEMMA CallFacts ==
  /\ Idle \in Calls /\ NextCall \in Calls /\ Call("Rewind", 0, FALSE, 0) \in Calls
  /\ \A f \in Names, id \in Ids, s \in Sorteds, wt \in {0, WireVarint, WireBytes} : Call(f, id, s, wt) \in Calls
BY ArgumentsAssumption DEF Idle, NextCall, Call, Calls, Names, WireVarint, WireBytes

-----------------------------------------------------------------------------
(* the steps *)

LEMMA ReturnTyped ==
  ASSUME TypeOK, NEW c \in Calls, NEW got, NEW i \in Positions, NEW misled \in BOOLEAN,
         got.full \in Slices, got.val \in Slices, Return(c, got, i, misled)
  PROVE  TypeOK'
<1> USE DEF TypeOK, Return, Positions, Slices
<1>1. UNCHANGED buf
  OBVIOUS
<1>2. index' \in Positions' /\ idx' \in Positions' /\ n' \in Nat
  OBVIOUS
<1>3. call' \in Calls' /\ reply'.to \in Calls'
  BY CallFacts DEF Calls, Names
<1>4. reply'.got.full \in Slices' /\ reply'.got.val \in Slices'
  OBVIOUS
<1> QED
  BY <1>1, <1>2, <1>3, <1>4

LEMMA StartTyped ==
  ASSUME TypeOK, NEW c \in Calls, Start(c)
  PROVE  TypeOK'
BY CallFacts, NothingFacts DEF TypeOK, Start, Positions, Slices, Calls, Names, NoReply

LEMMA ContinueTyped ==
  ASSUME TypeOK, NEW i \in Positions, NEW k \in Nat, Continue(i, k)
  PROVE  TypeOK'
BY DEF TypeOK, Continue, Positions, Slices, Calls, Names

\* Where the item at the read position leaves it.
LEMMA PlaceFacts ==
  ASSUME TypeOK
  PROVE  index \in Positions /\ Key.index \in Positions /\ Value.index \in Positions
<1>1. index \in Nat /\ Key.index \in Nat
  BY KeyFacts DEF TypeOK, Positions, Ahead
<1> QED
  BY <1>1, KeyFacts, ValueFacts, AheadIsPosition DEF TypeOK

LEMMA NextTyped == TypeOK /\ NextMethod => TypeOK'
<1> SUFFICES ASSUME TypeOK, NextMethod PROVE TypeOK'
  OBVIOUS
<1>1. CASE NextAtEnd
  BY <1>1, ReturnTyped, PlaceFacts, NothingFacts, CallFacts DEF NextAtEnd
<1>2. CASE NextBadKey
  BY <1>2, ReturnTyped, PlaceFacts, NothingFacts, CallFacts DEF NextBadKey
<1>3. CASE NextItem
  <2>1. Return(NextCall, ItemHere, Value.index, Value.err # None)
    BY <1>3 DEF NextItem
  <2> QED
    BY <2>1, ReturnTyped, PlaceFacts, ItemFacts, CallFacts
<1> QED
  BY <1>1, <1>2, <1>3 DEF NextMethod

LEMMA FindTyped == TypeOK /\ (StartFind \/ FindMethod) => TypeOK'
<1> SUFFICES ASSUME TypeOK, StartFind \/ FindMethod PROVE TypeOK'
  OBVIOUS
<1> call \in Calls /\ n \in Nat
  BY DEF TypeOK
<1>1. CASE StartFind
  BY <1>1, StartTyped, CallFacts DEF StartFind, Names
<1>2. CASE FindAtEnd
  BY <1>2, ReturnTyped, PlaceFacts, NothingFacts DEF FindAtEnd
<1>3. CASE FindBadKey
  BY <1>3, ReturnTyped, PlaceFacts, NothingFacts DEF FindBadKey
<1>4. CASE FindMatch
  <2>1. Return(call, Wanted(ItemHere), Value.index, Value.err # None)
    BY <1>4 DEF FindMatch
  <2> QED
    BY <2>1, ReturnTyped, PlaceFacts, WantedFacts
<1>5. CASE FindBeyond
  BY <1>5, ReturnTyped, PlaceFacts, NothingFacts DEF FindBeyond
<1>6. CASE FindSkip
  BY <1>6, ContinueTyped, PlaceFacts DEF FindSkip
<1>7. CASE FindSkipFails
  BY <1>7, ReturnTyped, PlaceFacts, NothingFacts DEF FindSkipFails
<1> QED
  BY <1>1, <1>2, <1>3, <1>4, <1>5, <1>6, <1>7 DEF FindMethod

LEMMA CountTyped == TypeOK /\ (StartCount \/ CountMethod) => TypeOK'
<1> SUFFICES ASSUME TypeOK, StartCount \/ CountMethod PROVE TypeOK'
  OBVIOUS
<1> call \in Calls /\ n \in Nat /\ idx \in Positions
  BY DEF TypeOK
<1>1. CASE StartCount
  <2> PICK tag \in Ids, wt \in {WireVarint, WireBytes} : Start(Call("count_ahead", tag, FALSE, wt))
    BY <1>1 DEF StartCount
  <2>1. Call("count_ahead", tag, FALSE, wt) \in Calls
    BY ArgumentsAssumption DEF Call, Calls, Names, WireVarint, WireBytes
  <2> QED
    BY <2>1, StartTyped
<1>2. CASE CountItem
  BY <1>2, ContinueTyped, PlaceFacts DEF CountItem
<1>3. CASE CountDone
  <2> PICK e : Return(call, Count(n, e), idx, FALSE)
    BY <1>3 DEF CountDone
  <2> QED
    BY ReturnTyped, NothingFacts
<1> QED
  BY <1>1, <1>2, <1>3 DEF CountMethod

LEMMA RewindTyped == TypeOK /\ Rewind => TypeOK'
<1> SUFFICES ASSUME TypeOK, Rewind PROVE TypeOK'
  OBVIOUS
<1>1. index' = 0 /\ astray' = FALSE /\ UNCHANGED <<buf, call, idx, n, Calls, Slices>>
  BY DEF Rewind, Calls, Names, Slices, Positions
<1>2. reply'.to \in Calls' /\ reply'.got.full \in Slices' /\ reply'.got.val \in Slices'
  BY <1>1, CallFacts, NothingFacts DEF Rewind
<1>3. index' \in Positions' /\ idx' \in Positions'
  BY <1>1 DEF TypeOK, Positions
<1> QED
  BY <1>1, <1>2, <1>3 DEF TypeOK

LEMMA InitTyped == Init => TypeOK
<1> SUFFICES ASSUME Init PROVE TypeOK
  OBVIOUS
<1>1. buf \in Seq(Bytes)
  BY BuffersAssumption DEF Init
<1>2. 0 \in Positions /\ <<0, 0>> \in Slices
  BY <1>1 DEF Positions, Slices
<1>3. reply.to \in Calls /\ reply.got.full \in Slices /\ reply.got.val \in Slices
  BY <1>2, CallFacts DEF Init, NoReply, Nothing, Item, NilSlice
<1> QED
  BY <1>1, <1>2, <1>3, CallFacts DEF Init, TypeOK

LEMMA StepTyped == TypeOK /\ [Next]_vars => TypeOK'
<1> SUFFICES ASSUME TypeOK, [Next]_vars PROVE TypeOK'
  OBVIOUS
<1>1. CASE UNCHANGED vars
  BY <1>1 DEF vars, TypeOK, Positions, Slices, Calls, Names
<1> QED
  BY <1>1, NextTyped, FindTyped, CountTyped, RewindTyped DEF Next

\* Whatever bytes the Buffer holds, corrupt, truncated or with lengths near the end of a word,
\* and whatever the client calls in whatever order: the read position and every slice that Next,
\* Find, FindBytes and count_ahead hand out stay in the buffer, so none of them panics.
THEOREM TypeCorrect == Spec => []TypeOK
<1>1. Init => TypeOK
  BY InitTyped
<1>2. TypeOK /\ [Next]_vars => TypeOK'
  BY StepTyped
<1> QED
  BY <1>1, <1>2, PTL DEF Spec

-----------------------------------------------------------------------------
(* the loops *)

LEMMA ItemMovesAhead ==
  ASSUME TypeOK, GoodKey
  PROVE  Value.index > index
BY KeyFacts, ValueFacts DEF TypeOK, GoodKey, Positions, Ahead

LEMMA CallsAreNamed ==
  ASSUME TypeOK, call' = call, call # Idle, Next
  PROVE  FindSkip \/ CountItem \/ Rewind
BY DEF Next, NextMethod, NextAtEnd, NextBadKey, NextItem, StartFind, FindMethod, FindAtEnd, FindBadKey,
  FindMatch, FindBeyond, FindSkipFails, StartCount, CountMethod, CountDone, Return, Start

\* Each turn of the loops of Find and count_ahead starts further on than the last, whatever the
\* bytes are: a length that wraps a position around cannot make them read the same item again.
THEOREM LoopsMoveAhead == Spec => LoopsEnd
<1>1. TypeOK /\ [Next]_vars => [LoopMovesAhead]_vars
  <2> SUFFICES ASSUME TypeOK, Next, call # Idle, call' = call PROVE index' > index
    BY DEF LoopMovesAhead
  <2>1. CASE FindSkip
    BY <2>1, ItemMovesAhead DEF FindSkip, Passing, Continue
  <2>2. CASE CountItem
    BY <2>2, ItemMovesAhead DEF CountItem, Counted, Continue
  <2>3. CASE Rewind
    BY <2>3 DEF Rewind
  <2> QED
    BY <2>1, <2>2, <2>3, CallsAreNamed
<1> QED
  BY <1>1, TypeCorrect, PTL DEF Spec, LoopsEnd

-----------------------------------------------------------------------------
(* the items that are returned *)

\* FullStandsAlone, of what a call returns
StandsAlone(got) ==
  (got.err = None /\ got.full # NilSlice) =>
    LET at    == got.full[1]
        full  == SubSeq(buf, at + 1, got.full[2])
        key   == DecodeVarint(full, 0)
        value == skip(full, key.index, KeyWire(key.x))
    IN  /\ key.err = None /\ value.err = None
        /\ value.index = Len(full)
        /\ <<KeyId(key.x), KeyWire(key.x)>> = <<got.id, got.wt>>
        /\ got.val[1] = at + IF KeyWire(key.x) = WireBytes THEN value.x ELSE key.index

LEMMA ItemAlone ==
  ASSUME TypeOK, GoodKey
  PROVE  StandsAlone(ItemHere)
<1> SUFFICES ASSUME ItemHere.err = None PROVE StandsAlone(ItemHere)
  BY DEF StandsAlone
<1> DEFINE end   == Value.index
           full  == SubSeq(buf, index + 1, end)
           wire  == KeyWire(Key.x)
           key   == DecodeVarint(full, 0)
           value == skip(full, key.index, wire)
           from  == IF wire = WireBytes THEN Value.x ELSE Key.index
<1>1. Key.err = None /\ Value.err = None
  BY DEF GoodKey, ItemHere, Item
<1>2. buf \in Seq(Bytes) /\ index \in Nat /\ Key.index \in Nat /\ end \in Nat
      /\ index <= Key.index /\ Key.index <= end /\ end <= Len(buf)
  BY KeyFacts, ValueFacts DEF TypeOK, Positions, Ahead
<1>3. /\ ItemHere.id = KeyId(Key.x) /\ ItemHere.wt = wire
      /\ ItemHere.full = <<index, end>> /\ ItemHere.val = <<from, end>>
  BY <1>1 DEF ItemHere, Item
<1> HIDE DEF end, from
<1>4. Piece(buf, index, end, full) /\ Len(full) = end - index
  BY <1>2, PieceFacts DEF Piece
<1> HIDE DEF full
<1>5. key = Read(Key.x, Key.index - index)
  <2>1. DecodeVarint(full, index - index) = Read(Key.x, Key.index - index)
    <3>1. DecodeVarint(buf, index).err = None /\ DecodeVarint(buf, index).index <= end /\ index <= end
      BY <1>1, <1>2 DEF Key
    <3>2. DecodeVarint(full, index - index) = Read(DecodeVarint(buf, index).x, DecodeVarint(buf, index).index - index)
      BY <1>2, <1>4, <3>1, DecodeVarintAlone
    <3> QED
      BY <3>2 DEF Key
  <2> QED
    BY <1>2, <2>1
<1> HIDE DEF key
<1>6. key.x = Key.x /\ key.index = Key.index - index /\ key.err = None
  BY <1>5
<1>7. value = skip(full, Key.index - index, wire)
  BY <1>6
<1>8. /\ value.err = None /\ value.index = end - index
      /\ wire = WireBytes => value.x = Value.x - index
  <2>1. skip(buf, Key.index, wire) = Value /\ Value.err = None /\ Value.index = end
    BY <1>1 DEF Value, end
  <2>2. /\ skip(full, Key.index - index, wire).err = None
        /\ skip(full, Key.index - index, wire).index = end - index
        /\ wire = WireBytes => skip(full, Key.index - index, wire).x = skip(buf, Key.index, wire).x - index
    BY <1>2, <1>4, <2>1, SkipAlone
  <2> QED
    BY <1>7, <2>1, <2>2
<1>9. from = index + IF wire = WireBytes THEN value.x ELSE key.index
  <2>1. wire = WireBytes => Value.x \in Nat
    BY <1>1, ValueFacts DEF Ahead
  <2> QED
    BY <1>2, <1>6, <1>8, <2>1 DEF from
<1>10. ItemHere.full[1] = index /\ ItemHere.full[2] = end /\ ItemHere.val[1] = from
  BY <1>3
<1>11. /\ SubSeq(buf, ItemHere.full[1] + 1, ItemHere.full[2]) = full
       /\ DecodeVarint(full, 0) = key
       /\ skip(full, key.index, KeyWire(key.x)) = value
  BY <1>6, <1>10 DEF full, key
<1> HIDE DEF value
<1> QED
  BY <1>3, <1>4, <1>6, <1>8, <1>9, <1>10, <1>11 DEF StandsAlone

LEMMA ReturnAlone ==
  ASSUME NEW c, NEW got, NEW i, NEW misled, StandsAlone(got), Return(c, got, i, misled)
  PROVE  FullStandsAlone'
<1>1. buf' = buf /\ reply'.got = got
  BY DEF Return
<1> QED
  BY <1>1 DEF StandsAlone, FullStandsAlone

LEMMA NothingAlone ==
  ASSUME NEW e, NEW k
  PROVE  StandsAlone(Nothing(e)) /\ StandsAlone(Count(k, e))
BY DEF StandsAlone, Nothing, Count, Item

LEMMA WantedAlone ==
  ASSUME TypeOK, GoodKey
  PROVE  StandsAlone(Wanted(ItemHere))
BY ItemAlone, NothingAlone, Zenon DEF Wanted

LEMMA StepAlone ==
  ASSUME TypeOK, FullStandsAlone, [Next]_vars
  PROVE  FullStandsAlone'
<1>1. ASSUME NEW c, Start(c) PROVE FullStandsAlone'
  <2>1. reply'.got = Nothing(None)
    BY <1>1 DEF Start, NoReply
  <2> QED
    BY <2>1 DEF FullStandsAlone, Nothing, Item
<1>2. ASSUME reply' = reply, buf' = buf PROVE FullStandsAlone'
  BY <1>2 DEF FullStandsAlone
<1>3. CASE NextMethod
  <2>1. CASE NextAtEnd
    BY <2>1, ReturnAlone, NothingAlone DEF NextAtEnd
  <2>2. CASE NextBadKey
    BY <2>2, ReturnAlone, NothingAlone DEF NextBadKey
  <2>3. CASE NextItem
    <3>1. GoodKey /\ Return(NextCall, ItemHere, Value.index, Value.err # None)
      BY <2>3 DEF NextItem
    <3> QED
      BY <3>1, ReturnAlone, ItemAlone
  <2> QED
    BY <1>3, <2>1, <2>2, <2>3 DEF NextMethod
<1>4. CASE StartFind
  BY <1>1, <1>4 DEF StartFind
<1>5. CASE FindMethod
  <2>1. CASE FindAtEnd
    BY <2>1, ReturnAlone, NothingAlone DEF FindAtEnd
  <2>2. CASE FindBadKey
    BY <2>2, ReturnAlone, NothingAlone DEF FindBadKey
  <2>3. CASE FindMatch
    <3>1. GoodKey /\ Return(call, Wanted(ItemHere), Value.index, Value.err # None)
      BY <2>3 DEF FindMatch
    <3> QED
      BY <3>1, ReturnAlone, WantedAlone
  <2>4. CASE FindBeyond
    BY <2>4, ReturnAlone, NothingAlone DEF FindBeyond
  <2>5. CASE FindSkip
    BY <1>2, <2>5 DEF FindSkip, Continue
  <2>6. CASE FindSkipFails
    BY <2>6, ReturnAlone, NothingAlone DEF FindSkipFails
  <2> QED
    BY <1>5, <2>1, <2>2, <2>3, <2>4, <2>5, <2>6 DEF FindMethod
<1>6. CASE StartCount
  BY <1>1, <1>6 DEF StartCount
<1>7. CASE CountMethod
  <2>1. CASE CountItem
    BY <1>2, <2>1 DEF CountItem, Continue
  <2>2. CASE CountDone
    <3> PICK e : Return(call, Count(n, e), idx, FALSE)
      BY <2>2 DEF CountDone
    <3> QED
      BY ReturnAlone, NothingAlone
  <2> QED
    BY <1>7, <2>1, <2>2 DEF CountMethod
<1>8. CASE Rewind
  <2>1. reply'.got = Nothing(None)
    BY <1>8 DEF Rewind
  <2> QED
    BY <2>1 DEF FullStandsAlone, Nothing, Item
<1>9. CASE UNCHANGED vars
  BY <1>2, <1>9 DEF vars
<1> QED
  BY <1>3, <1>4, <1>5, <1>6, <1>7, <1>8, <1>9 DEF Next

\* Every item that Next, Find or FindBytes returns is, cut out of the buffer, a message of one item:
\* its key and its value are read there as they were in the buffer, and nothing is left, although
\* DecodeVarint may read them on another path, and sums of positions are smaller.
THEOREM ItemsStandAlone == Spec => []FullStandsAlone
<1>1. Init => FullStandsAlone
  BY DEF Init, NoReply, FullStandsAlone, Nothing, Item
<1>2. TypeOK /\ FullStandsAlone /\ [Next]_vars => FullStandsAlone'
  BY StepAlone
<1> QED
  BY <1>1, <1>2, TypeCorrect, PTL DEF Spec
-----------------------------------------------------------------------------
(* sets that are defined along the items of a message *)

\* D[i], and what f is at the places that E leads to from i
Gather(D, E, f, i) == D[i] \cup UNION {f[j] : j \in E[i]}

\* f is so from k on.
Gathers(D, E, m, k, f) == DOMAIN f = k..m /\ \A i \in k..m : f[i] = Gather(D, E, f, i)

\* E leads ahead.
LeadsAhead(E, m) == \A i \in 0..m : \A j \in E[i] : j \in (i + 1)..m

LEMMA GatheredExists ==
  ASSUME NEW m \in Nat, NEW D, NEW E, LeadsAhead(E, m)
  PROVE  \E f : f = [i \in 0..m |-> Gather(D, E, f, i)]
<1> DEFINE S == {k \in 0..m : \E f : Gathers(D, E, m, k, f)}
<1>1. ASSUME NEW k \in 0..m, NEW f, NEW g, \A j \in (k + 1)..m : f[j] = g[j]
      PROVE  Gather(D, E, f, k) = Gather(D, E, g, k)
  <2>1. \A j \in E[k] : f[j] = g[j]
    BY <1>1 DEF LeadsAhead
  <2> QED
    BY <2>1 DEF Gather
<1>2. \E f : Gathers(D, E, m, m, f)
  <2> DEFINE f == [i \in m..m |-> D[i]]
  <2>1. E[m] = {}
    BY DEF LeadsAhead
  <2>2. ASSUME NEW i \in m..m PROVE f[i] = Gather(D, E, f, i)
    <3>1. i = m /\ f[i] = D[i]
      OBVIOUS
    <3> QED
      BY <2>1, <3>1 DEF Gather
  <2>3. DOMAIN f = m..m
    OBVIOUS
  <2> HIDE DEF f
  <2> QED
    BY <2>2, <2>3 DEF Gathers
<1>3. ASSUME NEW k \in 0..(m - 1), NEW f, Gathers(D, E, m, k + 1, f) PROVE \E h : Gathers(D, E, m, k, h)
  <2>1. DOMAIN f = (k + 1)..m /\ \A i \in (k + 1)..m : f[i] = Gather(D, E, f, i)
    BY <1>3 DEF Gathers
  <2> DEFINE v == Gather(D, E, f, k)
             h == [i \in k..m |-> IF i = k THEN v ELSE f[i]]
  <2> HIDE DEF v
  <2>2. k \in 0..m /\ \A i \in (k + 1)..m : i # k /\ i \in k..m /\ i \in 0..m
    OBVIOUS
  <2>3. \A j \in (k + 1)..m : h[j] = f[j]
    BY <2>2
  <2>4. DOMAIN h = k..m /\ h[k] = v
    OBVIOUS
  <2> HIDE DEF h
  <2>5. ASSUME NEW i \in k..m PROVE h[i] = Gather(D, E, h, i)
    <3>1. i \in 0..m /\ \A j \in (i + 1)..m : j \in (k + 1)..m
      OBVIOUS
    <3>2. \A j \in (i + 1)..m : f[j] = h[j]
      BY <2>3, <3>1
    <3>3. Gather(D, E, f, i) = Gather(D, E, h, i)
      BY <1>1, <3>1, <3>2
    <3>4. CASE i = k
      BY <2>4, <3>3, <3>4 DEF v
    <3>5. CASE i # k
      <4>1. i \in (k + 1)..m
        BY <3>5
      <4> QED
        BY <2>1, <2>3, <3>3, <4>1
    <3> QED
      BY <3>4, <3>5
  <2> QED
    BY <2>4, <2>5 DEF Gathers
<1>4. 0 \in S
  <2>1. m \in S /\ \A k \in 0..(m - 1) : k + 1 \in S => k \in S
    BY <1>2, <1>3
  <2> HIDE DEF S
  <2>2. 0..m \subseteq S
    BY <2>1, Downwards
  <2> QED
    BY <2>2
<1>5. PICK f : DOMAIN f = 0..m /\ \A i \in 0..m : f[i] = Gather(D, E, f, i)
  BY <1>4 DEF Gathers
<1> DEFINE g == [i \in 0..m |-> f[i]]
<1>6. \A j \in 0..m : g[j] = f[j]
  OBVIOUS
<1>7. ASSUME NEW i \in 0..m PROVE Gather(D, E, f, i) = Gather(D, E, g, i) /\ g[i] = Gather(D, E, g, i)
  <2>1. \A j \in (i + 1)..m : j \in 0..m
    OBVIOUS
  <2>2. \A j \in (i + 1)..m : f[j] = g[j]
    BY <1>6, <2>1
  <2> HIDE DEF g
  <2>3. Gather(D, E, f, i) = Gather(D, E, g, i)
    BY <1>1, <2>2
  <2> QED
    BY <1>5, <1>6, <2>3
<1>8. g = [i \in 0..m |-> Gather(D, E, g, i)]
  <2>1. g = [i \in 0..m |-> g[i]]
    BY <1>6
  <2> HIDE DEF g
  <2> QED
    BY <1>7, <2>1
<1> QED
  BY <1>8

LEMMA GatheredAhead ==
  ASSUME NEW m \in Nat, NEW D, NEW E, LeadsAhead(E, m), \A i \in 0..m : D[i] \subseteq i..m,
         NEW f, \A i \in 0..m : f[i] = Gather(D, E, f, i)
  PROVE  \A i \in 0..m : f[i] \subseteq i..m
<1> DEFINE S == {k \in 0..m : \A i \in k..m : f[i] \subseteq i..m}
<1>1. ASSUME NEW k \in 0..m, \A j \in (k + 1)..m : f[j] \subseteq j..m PROVE f[k] \subseteq k..m
  <2>1. ASSUME NEW j \in E[k] PROVE f[j] \subseteq k..m
    <3>1. j \in (k + 1)..m
      BY DEF LeadsAhead
    <3>2. f[j] \subseteq j..m /\ j..m \subseteq k..m
      BY <1>1, <3>1
    <3> QED
      BY <3>2
  <2>2. f[k] = D[k] \cup UNION {f[j] : j \in E[k]}
    BY DEF Gather
  <2> QED
    BY <2>1, <2>2
<1>2. m \in S
  <2>1. \A j \in (m + 1)..m : f[j] \subseteq j..m
    OBVIOUS
  <2>2. f[m] \subseteq m..m
    BY <1>1, <2>1
  <2>3. \A i \in m..m : i = m
    OBVIOUS
  <2> QED
    BY <2>2, <2>3
<1>3. ASSUME NEW k \in 0..(m - 1), k + 1 \in S PROVE k \in S
  <2>1. \A j \in (k + 1)..m : f[j] \subseteq j..m
    BY <1>3
  <2>2. f[k] \subseteq k..m
    BY <1>1, <2>1
  <2>3. \A i \in k..m : i = k \/ i \in (k + 1)..m
    OBVIOUS
  <2>4. k \in 0..m
    OBVIOUS
  <2> QED
    BY <2>1, <2>2, <2>3, <2>4
<1>4. 0 \in S
  <2> HIDE DEF S
  <2>1. 0..m \subseteq S
    BY <1>2, <1>3, Downwards
  <2> QED
    BY <2>1
<1> QED
  BY <1>4

\* the ends of the items that start at i
EndsAt(b, i) == {j \in i..Len(b) : i < j /\ Items!IsItem(SubSeq(b, i + 1, j))}

\* MessageItems.Reached, from each place
Places(b) == LET From[i \in 0..Len(b)] == {i} \cup UNION {From[j] : j \in EndsAt(b, i)} IN From

LEMMA PlacesFrom ==
  ASSUME NEW b \in Seq(Bytes), NEW i \in 0..Len(b)
  PROVE  /\ Places(b)[i] = {i} \cup UNION {Places(b)[j] : j \in EndsAt(b, i)}
         /\ Places(b)[i] \subseteq i..Len(b)
<1> DEFINE m == Len(b)
           D == [k \in 0..m |-> {k}]
           E == [k \in 0..m |-> EndsAt(b, k)]
<1>1. m \in Nat
  OBVIOUS
<1>2. LeadsAhead(E, m) /\ \A k \in 0..m : D[k] \subseteq k..m
  BY DEF LeadsAhead, EndsAt
<1>3. ASSUME NEW f, NEW k \in 0..m
      PROVE  Gather(D, E, f, k) = {k} \cup UNION {f[j] : j \in EndsAt(b, k)}
  BY DEF Gather
<1> HIDE DEF D, E
<1>4. PICK g : g = [k \in 0..m |-> Gather(D, E, g, k)]
  BY <1>1, <1>2, GatheredExists
<1>5. [k \in 0..m |-> Gather(D, E, g, k)] = [k \in 0..m |-> {k} \cup UNION {g[j] : j \in EndsAt(b, k)}]
  BY <1>3
<1>6. \E f : f = [k \in 0..Len(b) |-> {k} \cup UNION {f[j] : j \in EndsAt(b, k)}]
  BY <1>4, <1>5
<1>7. Places(b) = [k \in 0..Len(b) |-> {k} \cup UNION {Places(b)[j] : j \in EndsAt(b, k)}]
  BY <1>6 DEF Places
<1>8. \A k \in 0..m : Places(b)[k] = {k} \cup UNION {Places(b)[j] : j \in EndsAt(b, k)}
  BY <1>7
<1>9. \A k \in 0..m : Places(b)[k] = Gather(D, E, Places(b), k)
  BY <1>3, <1>8
<1> QED
  BY <1>1, <1>2, <1>8, <1>9, GatheredAhead

\* the ends of the items at i that have this tag and this wire type
SamesAt(b, tag, wt, i) ==
  {j \in EndsAt(b, i) : Items!IdOf(SubSeq(b, i + 1, j)) = tag /\ Items!WireOf(SubSeq(b, i + 1, j)) = wt}

\* MessageItems.Alike, from each place
Alikes(b, tag, wt) ==
  LET From[i \in 0..Len(b)] == UNION {{j} \cup From[j] : j \in SamesAt(b, tag, wt, i)} IN From

LEMMA AlikesFrom ==
  ASSUME NEW b \in Seq(Bytes), NEW tag, NEW wt, NEW i \in 0..Len(b)
  PROVE  /\ Alikes(b, tag, wt)[i] = UNION {{j} \cup Alikes(b, tag, wt)[j] : j \in SamesAt(b, tag, wt, i)}
         /\ Alikes(b, tag, wt)[i] \subseteq i..Len(b)
         /\ i \notin Alikes(b, tag, wt)[i]
<1> DEFINE m == Len(b)
           E == [k \in 0..m |-> SamesAt(b, tag, wt, k)]
           A == Alikes(b, tag, wt)
<1>1. m \in Nat
  OBVIOUS
<1>2. LeadsAhead(E, m) /\ \A k \in 0..m : E[k] \subseteq k..m
  BY DEF LeadsAhead, EndsAt, SamesAt
<1>3. ASSUME NEW f, NEW k \in 0..m
      PROVE  Gather(E, E, f, k) = UNION {{j} \cup f[j] : j \in SamesAt(b, tag, wt, k)}
  <2>1. E[k] = SamesAt(b, tag, wt, k)
    OBVIOUS
  <2> HIDE DEF E
  <2> QED
    BY <2>1 DEF Gather
<1>4. \A k \in 0..m : E[k] = SamesAt(b, tag, wt, k)
  OBVIOUS
<1> HIDE DEF E
<1>5. PICK g : g = [k \in 0..m |-> Gather(E, E, g, k)]
  BY <1>1, <1>2, GatheredExists
<1>6. [k \in 0..m |-> Gather(E, E, g, k)] = [k \in 0..m |-> UNION {{j} \cup g[j] : j \in SamesAt(b, tag, wt, k)}]
  BY <1>3
<1>7. \E f : f = [k \in 0..Len(b) |-> UNION {{j} \cup f[j] : j \in SamesAt(b, tag, wt, k)}]
  BY <1>5, <1>6
<1>8. A = [k \in 0..Len(b) |-> UNION {{j} \cup A[j] : j \in SamesAt(b, tag, wt, k)}]
  BY <1>7 DEF Alikes
<1> HIDE DEF A
<1>9. \A k \in 0..m : A[k] = UNION {{j} \cup A[j] : j \in SamesAt(b, tag, wt, k)}
  BY <1>8
<1>10. \A k \in 0..m : A[k] = Gather(E, E, A, k)
  BY <1>3, <1>9
<1>11. \A k \in 0..m : A[k] \subseteq k..m
  BY <1>1, <1>2, <1>10, GatheredAhead
<1>12. i \notin A[i]
  <2>1. ASSUME NEW j \in SamesAt(b, tag, wt, i) PROVE i # j /\ i \notin A[j]
    <3>1. j \in (i + 1)..m
      BY <1>2, <1>4 DEF LeadsAhead
    <3>2. j \in 0..m /\ i # j /\ i \notin j..m
      BY <1>1, <3>1
    <3> QED
      BY <1>11, <3>2
  <2> QED
    BY <1>9, <2>1
<1> QED
  BY <1>9, <1>11, <1>12 DEF A

-----------------------------------------------------------------------------
(* MessageItems, in terms of the bytes *)

\* the position of MessageItems
Pos == IF astray THEN -1 ELSE IF call = Idle THEN index ELSE idx

LEMMA SameGrammar ==
  ASSUME NEW s
  PROVE  /\ Items!IsItem(s) <=> Grammar!IsItem(s)
         /\ Items!Keyed(s) <=> Grammar!Keyed(s)
         /\ Items!IdOf(s) = Grammar!IdOf(s)
         /\ Items!WireOf(s) = Grammar!WireOf(s)
         /\ Items!ValueStart(s) = Grammar!ValueStart(s)
<1> USE DEF Items!Prefix, Items!Rest, Items!IsNumeral, Items!IsVarint, Items!ValueOf, Items!Lengths, Items!Delimited,
  Items!IsValue, Items!HasKey, Items!KeyLen, Items!Keyed, Items!IdOf, Items!WireOf, Items!IsItem, Items!ValueStart,
  Grammar!Prefix, Grammar!Rest, Grammar!IsNumeral, Grammar!IsVarint, Grammar!ValueOf, Grammar!Lengths, Grammar!Delimited,
  Grammar!IsValue, Grammar!HasKey, Grammar!KeyLen, Grammar!Keyed, Grammar!IdOf, Grammar!WireOf, Grammar!IsItem, Grammar!ValueStart
<1>1. Items!IsItem(s) <=> Grammar!IsItem(s)
  OBVIOUS
<1>2. Items!Keyed(s) <=> Grammar!Keyed(s)
  OBVIOUS
<1>3. Items!IdOf(s) = Grammar!IdOf(s)
  OBVIOUS
<1>4. Items!WireOf(s) = Grammar!WireOf(s)
  OBVIOUS
<1>5. Items!ValueStart(s) = Grammar!ValueStart(s)
  OBVIOUS
<1> QED
  BY <1>1, <1>2, <1>3, <1>4, <1>5

LEMMA SameEnds ==
  ASSUME NEW i
  PROVE  Items!ItemEnds(i) = EndsAt(buf, i)
BY DEF Items!ItemEnds, Items!ItemAt, Items!Slice, EndsAt

LEMMA SameReached == Items!Reached = Places(buf)[Pos]
BY DEF Items!Reached, Items!ItemEnds, Items!ItemAt, Items!Slice, EndsAt, Places, Pos

LEMMA SameAlike ==
  ASSUME NEW tag, NEW wt
  PROVE  Items!Alike(tag, wt) = Alikes(buf, tag, wt)[Pos]
BY DEF Items!Alike, Items!ItemEnds, Items!ItemAt, Items!Slice, EndsAt, SamesAt, Alikes, Pos

LEMMA PrimedTables ==
  ASSUME buf' = buf
  PROVE  /\ Places(buf)' = Places(buf)
         /\ \A tag, wt : Alikes(buf, tag, wt)' = Alikes(buf, tag, wt)
OBVIOUS

\* where a search from at may end
IsStop(b, at, id, sorted, i) ==
  /\ i \in Places(b)[at] /\ i < Len(b) /\ Items!Keyed(SubSeq(b, i + 1, Len(b)))
  /\ Items!IdOf(SubSeq(b, i + 1, Len(b))) = id \/ (sorted /\ Items!IdOf(SubSeq(b, i + 1, Len(b))) > id)

FirstStop(b, at, id, sorted, i) ==
  /\ i \in Nat
  /\ IsStop(b, at, id, sorted, i)
  /\ \A j \in 0..Len(b) : IsStop(b, at, id, sorted, j) => i <= j

LEMMA FindPromised ==
  ASSUME buf \in Seq(Bytes), Pos \in 0..Len(buf), NEW id, NEW sorted, NEW got
  PROVE  /\ (\A i \in 0..Len(buf) : ~IsStop(buf, Pos, id, sorted, i)) =>
              /\ Len(buf) \in Places(buf)[Pos] /\ Items!IsMiss(got) /\ Pos' = Len(buf) => Items!FindReply(id, sorted, got)
              /\ Len(buf) \notin Places(buf)[Pos] /\ Items!IsBad(got) /\ Pos' = -1 => Items!FindReply(id, sorted, got)
         /\ \A i : FirstStop(buf, Pos, id, sorted, i) =>
              LET found == Items!IdOf(SubSeq(buf, i + 1, Len(buf)))
              IN  /\ found # id /\ Items!IsMiss(got) /\ Pos' = -1 => Items!FindReply(id, sorted, got)
                  /\ found = id /\ EndsAt(buf, i) = {} /\ Items!IsBad(got) /\ Pos' = -1 => Items!FindReply(id, sorted, got)
                  /\ \A j \in EndsAt(buf, i) :
                       found = id /\ Items!IsItemReply(got, i, j) /\ Pos' = j => Items!FindReply(id, sorted, got)
<1> DEFINE keyed == {i \in Items!Reached : i < Len(buf) /\ Items!Keyed(Items!Suffix(i))}
           stops == {i \in keyed : Items!IdOf(Items!Suffix(i)) = id \/ (sorted /\ Items!IdOf(Items!Suffix(i)) > id)}
           stop  == CHOOSE i \in stops : \A j \in stops : i <= j
<1>1. Items!FindReply(id, sorted, got) <=>
        IF stops = {}
        THEN IF Len(buf) \in Items!Reached
             THEN Items!IsMiss(got) /\ Pos' = Len(buf) ELSE Items!IsBad(got) /\ Pos' = Items!Lost
        ELSE IF Items!IdOf(Items!Suffix(stop)) # id THEN Items!IsMiss(got) /\ Pos' = Items!Lost
        ELSE \/ \E j \in Items!ItemEnds(stop) : Items!IsItemReply(got, stop, j) /\ Pos' = j
             \/ Items!ItemEnds(stop) = {} /\ Items!IsBad(got) /\ Pos' = Items!Lost
  BY DEF Items!FindReply, Pos
<1>2. \A i : Items!Suffix(i) = SubSeq(buf, i + 1, Len(buf))
  BY DEF Items!Suffix, Items!Slice
<1>3. Items!Reached = Places(buf)[Pos] /\ Places(buf)[Pos] \subseteq 0..Len(buf)
  <2>1. Places(buf)[Pos] \subseteq Pos..Len(buf) /\ Pos..Len(buf) \subseteq 0..Len(buf)
    BY PlacesFrom
  <2> QED
    BY <2>1, SameReached
<1>4. \A i : i \in stops <=> IsStop(buf, Pos, id, sorted, i)
  BY <1>2, <1>3 DEF IsStop
<1>5. stops \subseteq 0..Len(buf) /\ Len(buf) \in Nat
  BY <1>3
<1> HIDE DEF stops
<1>6. ASSUME NEW i, FirstStop(buf, Pos, id, sorted, i) PROVE stop = i /\ stops # {}
  <2>1. i \in stops /\ \A j \in stops : i <= j
    BY <1>4, <1>5, <1>6 DEF FirstStop
  <2>2. stop \in stops /\ \A j \in stops : stop <= j
    BY <2>1
  <2> HIDE DEF stop
  <2>3. stop <= i /\ i <= stop
    BY <2>1, <2>2
  <2>4. stop \in Nat /\ i \in Nat
    BY <1>5, <2>1, <2>2
  <2> QED
    BY <2>1, <2>3, <2>4
<1> HIDE DEF stop
<1>7. \A i : Items!ItemEnds(i) = EndsAt(buf, i)
  BY SameEnds
<1>8. Items!Lost = -1
  BY DEF Items!Lost
<1>9. (\A i \in 0..Len(buf) : ~IsStop(buf, Pos, id, sorted, i)) => stops = {}
  BY <1>4, <1>5
<1>10. ASSUME NEW i, FirstStop(buf, Pos, id, sorted, i)
       PROVE  Items!FindReply(id, sorted, got) <=>
                IF Items!IdOf(SubSeq(buf, i + 1, Len(buf))) # id THEN Items!IsMiss(got) /\ Pos' = -1
                ELSE \/ \E j \in EndsAt(buf, i) : Items!IsItemReply(got, i, j) /\ Pos' = j
                     \/ EndsAt(buf, i) = {} /\ Items!IsBad(got) /\ Pos' = -1
  <2>1. stop = i /\ stops # {}
    BY <1>6, <1>10
  <2>2. Items!FindReply(id, sorted, got) <=>
          IF Items!IdOf(Items!Suffix(i)) # id THEN Items!IsMiss(got) /\ Pos' = Items!Lost
          ELSE \/ \E j \in Items!ItemEnds(i) : Items!IsItemReply(got, i, j) /\ Pos' = j
               \/ Items!ItemEnds(i) = {} /\ Items!IsBad(got) /\ Pos' = Items!Lost
    BY <1>1, <2>1
  <2>3. Items!Suffix(i) = SubSeq(buf, i + 1, Len(buf)) /\ Items!ItemEnds(i) = EndsAt(buf, i)
    BY <1>2, <1>7
  <2> QED
    BY <1>8, <2>2, <2>3
<1>11. stops = {} => (Items!FindReply(id, sorted, got) <=>
                        IF Len(buf) \in Places(buf)[Pos]
                        THEN Items!IsMiss(got) /\ Pos' = Len(buf) ELSE Items!IsBad(got) /\ Pos' = -1)
  BY <1>1, <1>3, <1>8
<1> QED
  BY <1>9, <1>10, <1>11

-----------------------------------------------------------------------------
(* the item at the read position is the one that the grammar says *)

Short == Len(buf) < Word

LEMMA KeyHere ==
  ASSUME TypeOK, Short, index < Len(buf)
  PROVE  /\ GoodKey <=> Items!Keyed(SubSeq(buf, index + 1, Len(buf)))
         /\ GoodKey => Items!IdOf(SubSeq(buf, index + 1, Len(buf))) = KeyId(Key.x)
<1> DEFINE s == Between(buf, index, Len(buf))
<1>1. buf \in Seq(Bytes) /\ index \in Nat /\ index <= Len(buf) /\ Len(buf) \in Nat /\ Len(buf) <= Len(buf)
  BY DEF TypeOK, Positions
<1>2. Key.index <= Len(buf)
  BY <1>1, KeyFacts DEF Ahead
<1>3. /\ Grammar!Keyed(s) <=> (Key.err = None /\ Key.index <= Len(buf))
      /\ Grammar!Keyed(s) => Grammar!IdOf(s) = KeyId(Key.x)
  BY <1>1, KeyReads DEF Key, Short
<1>4. GoodKey <=> Key.err = None
  BY <1>1 DEF GoodKey, AtEnd
<1>5. (Items!Keyed(s) <=> Grammar!Keyed(s)) /\ Items!IdOf(s) = Grammar!IdOf(s)
  BY SameGrammar
<1> QED
  BY <1>2, <1>3, <1>4, <1>5 DEF Between

LEMMA ItemIs ==
  ASSUME TypeOK, Short, NEW j \in index..Len(buf)
  PROVE  LET s == SubSeq(buf, index + 1, j)
         IN  /\ Items!IsItem(s) <=> (Key.err = None /\ Value.err = None /\ Value.index = j)
             /\ Items!IsItem(s) =>
                  /\ index + Items!ValueStart(s) = IF KeyWire(Key.x) = WireBytes THEN Value.x ELSE Key.index
                  /\ Items!IdOf(s) = KeyId(Key.x) /\ Items!WireOf(s) = KeyWire(Key.x)
<1> DEFINE s == Between(buf, index, j)
<1>1. buf \in Seq(Bytes) /\ index \in Nat /\ j \in Nat /\ index <= j /\ j <= Len(buf)
  BY DEF TypeOK, Positions
<1>2. /\ Grammar!IsItem(s) <=> (Key.err = None /\ Value.err = None /\ Value.index = j)
      /\ Grammar!IsItem(s) =>
           /\ index + Grammar!ValueStart(s) = IF KeyWire(Key.x) = WireBytes THEN Value.x ELSE Key.index
           /\ Grammar!IdOf(s) = KeyId(Key.x) /\ Grammar!WireOf(s) = KeyWire(Key.x)
  BY <1>1, ItemReads DEF Key, Value, Short
<1>3. /\ Items!IsItem(s) <=> Grammar!IsItem(s)
      /\ Items!IdOf(s) = Grammar!IdOf(s) /\ Items!WireOf(s) = Grammar!WireOf(s)
      /\ Items!ValueStart(s) = Grammar!ValueStart(s)
  BY SameGrammar
<1> QED
  BY <1>2, <1>3 DEF Between

LEMMA EndsHere ==
  ASSUME TypeOK, Short
  PROVE  /\ GoodKey /\ Value.err = None => EndsAt(buf, index) = {Value.index} /\ index < Value.index
         /\ ~(GoodKey /\ Value.err = None) => EndsAt(buf, index) = {}
<1>1. index \in Nat /\ Len(buf) \in Nat /\ index <= Len(buf)
  BY DEF TypeOK, Positions
<1>2. ASSUME NEW j \in index..Len(buf), index < j
      PROVE  Items!IsItem(SubSeq(buf, index + 1, j)) <=> (GoodKey /\ Value.err = None /\ Value.index = j)
  <2>1. ~AtEnd
    BY <1>1, <1>2 DEF AtEnd
  <2> QED
    BY <2>1, ItemIs DEF GoodKey
<1>3. GoodKey => Value.index \in index..Len(buf) /\ index < Value.index
  <2>1. Value.index \in Positions
    BY PlaceFacts
  <2>2. GoodKey => index < Value.index
    BY <1>1, <2>1, ItemMovesAhead DEF Positions
  <2> QED
    BY <1>1, <2>1, <2>2 DEF Positions
<1> QED
  BY <1>2, <1>3 DEF EndsAt

LEMMA ItemHereIs ==
  ASSUME TypeOK, Short, GoodKey, Value.err = None
  PROVE  /\ Items!IsItemReply(ItemHere, index, Value.index)
         /\ Items!IdOf(SubSeq(buf, index + 1, Value.index)) = KeyId(Key.x)
         /\ Items!WireOf(SubSeq(buf, index + 1, Value.index)) = KeyWire(Key.x)
<1> DEFINE s == SubSeq(buf, index + 1, Value.index)
           from == IF KeyWire(Key.x) = WireBytes THEN Value.x ELSE Key.index
<1>1. Value.index \in index..Len(buf)
  <2>1. Value.index \in EndsAt(buf, index)
    BY EndsHere
  <2> QED
    BY <2>1 DEF EndsAt
<1>2. /\ index + Items!ValueStart(s) = from
      /\ Items!IdOf(s) = KeyId(Key.x) /\ Items!WireOf(s) = KeyWire(Key.x)
  <2>1. Key.err = None
    BY DEF GoodKey
  <2> QED
    BY <1>1, <2>1, ItemIs
<1>3. ItemHere = Item(KeyId(Key.x), <<index, Value.index>>, <<from, Value.index>>, KeyWire(Key.x), Value.err)
  BY DEF ItemHere
<1>4. /\ ItemHere.id = KeyId(Key.x) /\ ItemHere.full = <<index, Value.index>> /\ ItemHere.val = <<from, Value.index>>
      /\ ItemHere.wt = KeyWire(Key.x) /\ ItemHere.err = None
  BY <1>3 DEF Item
<1> HIDE DEF from
<1> QED
  BY <1>2, <1>4 DEF Items!IsItemReply, Items!Slice

-----------------------------------------------------------------------------
(* the errors of the wire primitives are not the one of a search that found nothing *)

WireErrors == {None, EOF, Overflow, BadWire, BadLen}

LEMMA VarintErrors ==
  ASSUME NEW b, NEW i
  PROVE  DecodeVarint(b, i).err \in WireErrors
<1>1. decodeVarintSlow(b, i).err \in WireErrors
  BY DEF decodeVarintSlow, WireErrors
<1>2. decodeVarintFast(b, i).err \in WireErrors
  BY DEF decodeVarintFast, WireErrors
<1>3. CASE DecodeVarint(b, i) \in {decodeVarintSlow(b, i), decodeVarintFast(b, i)}
  BY <1>1, <1>2, <1>3
<1>4. CASE DecodeVarint(b, i) = Fail(EOF, i)
  BY <1>4 DEF WireErrors
<1>5. CASE DecodeVarint(b, i) = Read(Byte(b, i), i + 1)
  BY <1>5 DEF WireErrors
<1> QED
  BY <1>3, <1>4, <1>5 DEF DecodeVarint

LEMMA SkipErrors ==
  ASSUME NEW b, NEW i, NEW wire
  PROVE  skip(b, i, wire).err \in WireErrors
<1>1. SkipVarint(b, i).err \in WireErrors
  BY DEF SkipVarint, WireErrors
<1>2. \A k : SkipFixed(b, i, k).err \in WireErrors
  BY DEF SkipFixed, WireErrors
<1>3. RawLength(b, i).err \in WireErrors
  BY VarintErrors DEF RawLength, WireErrors
<1>4. DecodeRawBytes(b, i).err \in WireErrors
  BY <1>3 DEF DecodeRawBytes, WireErrors
<1>5. Fail(BadWire, i).err \in WireErrors
  BY DEF WireErrors
<1> QED
  BY <1>1, <1>2, <1>4, <1>5 DEF skip

LEMMA ErrorsAreBad ==
  ASSUME NEW e \in WireErrors, e # None
  PROVE  e # NotFound
BY DEF WireErrors

LEMMA NothingIs ==
  /\ Items!IsEnd(Nothing(None))
  /\ Items!IsMiss(Nothing(NotFound))
  /\ \A e \in WireErrors \ {None} : Items!IsBad(Nothing(e))
<1>1. \A x : Nothing(x).id = 0 /\ Nothing(x).wt = 0 /\ Nothing(x).full = <<0, 0>> /\ Nothing(x).val = <<0, 0>>
             /\ Nothing(x).err = x
  BY DEF Nothing, Item, NilSlice
<1>2. \A e \in WireErrors \ {None} : e # NotFound
  BY ErrorsAreBad
<1> QED
  BY <1>1, <1>2 DEF Items!IsEnd, Items!IsMiss, Items!IsBad

-----------------------------------------------------------------------------
(* what a call in progress has passed *)

\* every place that the search has not passed is still ahead
Searched ==
  Finding =>
    /\ Places(buf)[index] \subseteq Places(buf)[idx]
    /\ \A i \in Places(buf)[idx] :
         i \in Places(buf)[index] \/ (i < Len(buf) /\ ~IsStop(buf, idx, call.id, call.sorted, i))

\* what is counted and what is still ahead make up the items that are alike
CountedSoFar ==
  Counting =>
    Cardinality(Alikes(buf, call.id, call.wt)[idx]) = n + Cardinality(Alikes(buf, call.id, call.wt)[index])

Waiting == call # Idle => reply.to.name = "none"

OnTheWay == Short /\ Waiting /\ Searched /\ CountedSoFar

LEMMA IdleNames == (Finding => call # Idle /\ ~Counting) /\ (Counting => call # Idle /\ ~Finding)
BY DEF Finding, Counting, Idle, Call

LEMMA PlacesHere ==
  ASSUME TypeOK, Short
  PROVE  /\ Places(buf)[index] \subseteq index..Len(buf) /\ index \in Places(buf)[index]
         /\ GoodKey /\ Value.err = None => Places(buf)[index] = {index} \cup Places(buf)[Value.index]
         /\ ~(GoodKey /\ Value.err = None) => Places(buf)[index] = {index}
<1>1. buf \in Seq(Bytes) /\ index \in 0..Len(buf)
  BY DEF TypeOK, Positions
<1>2. /\ Places(buf)[index] = {index} \cup UNION {Places(buf)[j] : j \in EndsAt(buf, index)}
      /\ Places(buf)[index] \subseteq index..Len(buf)
  BY <1>1, PlacesFrom
<1>3. CASE GoodKey /\ Value.err = None
  <2>1. EndsAt(buf, index) = {Value.index}
    BY <1>3, EndsHere
  <2> QED
    BY <1>2, <1>3, <2>1
<1>4. CASE ~(GoodKey /\ Value.err = None)
  <2>1. EndsAt(buf, index) = {}
    BY <1>4, EndsHere
  <2> QED
    BY <1>2, <1>4, <2>1
<1> QED
  BY <1>3, <1>4

LEMMA AlikesHere ==
  ASSUME TypeOK, Short, NEW tag, NEW wt
  PROVE  LET alike == GoodKey /\ Value.err = None /\ KeyId(Key.x) = tag /\ KeyWire(Key.x) = wt
         IN  /\ alike => /\ Alikes(buf, tag, wt)[index] = {Value.index} \cup Alikes(buf, tag, wt)[Value.index]
                         /\ Value.index \notin Alikes(buf, tag, wt)[Value.index]
             /\ ~alike => Alikes(buf, tag, wt)[index] = {}
<1> DEFINE alike == GoodKey /\ Value.err = None /\ KeyId(Key.x) = tag /\ KeyWire(Key.x) = wt
<1>1. buf \in Seq(Bytes) /\ index \in 0..Len(buf) /\ Value.index \in 0..Len(buf)
  BY PlaceFacts DEF TypeOK, Positions
<1>2. Alikes(buf, tag, wt)[index] = UNION {{j} \cup Alikes(buf, tag, wt)[j] : j \in SamesAt(buf, tag, wt, index)}
  BY <1>1, AlikesFrom
<1>3. alike => SamesAt(buf, tag, wt, index) = {Value.index}
  BY EndsHere, ItemHereIs DEF SamesAt
<1>4. ~alike => SamesAt(buf, tag, wt, index) = {}
  BY EndsHere, ItemHereIs DEF SamesAt
<1>5. Value.index \notin Alikes(buf, tag, wt)[Value.index]
  BY <1>1, AlikesFrom
<1> HIDE DEF alike
<1>6. alike => Alikes(buf, tag, wt)[index] = {Value.index} \cup Alikes(buf, tag, wt)[Value.index]
  BY <1>2, <1>3
<1>7. ~alike => Alikes(buf, tag, wt)[index] = {}
  BY <1>2, <1>4
<1> QED
  BY <1>5, <1>6, <1>7 DEF alike

LEMMA AlikesFinite ==
  ASSUME NEW b \in Seq(Bytes), NEW tag, NEW wt, NEW i \in 0..Len(b)
  PROVE  IsFiniteSet(Alikes(b, tag, wt)[i]) /\ Cardinality(Alikes(b, tag, wt)[i]) \in Nat
<1>1. Alikes(b, tag, wt)[i] \subseteq i..Len(b)
  BY AlikesFrom
<1>2. IsFiniteSet(i..Len(b))
  BY FS_Interval
<1>3. IsFiniteSet(Alikes(b, tag, wt)[i])
  BY <1>1, <1>2, FS_Subset
<1> QED
  BY <1>3, FS_CardinalityType

-----------------------------------------------------------------------------
(* the steps keep it *)

LEMMA IdleOnTheWay ==
  ASSUME OnTheWay, buf' = buf, call' = Idle
  PROVE  OnTheWay'
<1>1. ~Finding' /\ ~Counting'
  BY DEF Finding, Counting, Idle, Call
<1>2. Short'
  BY DEF OnTheWay, Short
<1> QED
  BY <1>1, <1>2 DEF OnTheWay, Waiting, Searched, CountedSoFar

LEMMA StartOnTheWay ==
  ASSUME TypeOK, OnTheWay, NEW c, Start(c)
  PROVE  OnTheWay'
<1>1. buf' = buf /\ index' = index /\ idx' = index /\ n' = 0 /\ reply' = NoReply /\ call' = c
  BY DEF Start
<1>2. Short' /\ Waiting'
  BY <1>1 DEF OnTheWay, Short, Waiting, NoReply, Idle, Call
<1>3. Searched'
  BY <1>1 DEF Searched
<1>4. CountedSoFar'
  <2>1. \A tag, wt : Cardinality(Alikes(buf, tag, wt)[index]) \in Nat
    BY AlikesFinite DEF TypeOK, Positions
  <2>2. \A tag, wt : Cardinality(Alikes(buf, tag, wt)[index]) = 0 + Cardinality(Alikes(buf, tag, wt)[index])
    BY <2>1
  <2> QED
    BY <1>1, <2>2 DEF CountedSoFar
<1> QED
  BY <1>2, <1>3, <1>4 DEF OnTheWay

LEMMA SkipOnTheWay ==
  ASSUME TypeOK, OnTheWay, FindSkip
  PROVE  OnTheWay'
<1>1. buf' = buf /\ index' = Value.index /\ idx' = idx /\ call' = call /\ reply' = reply
  BY DEF FindSkip, Continue
<1>2. Finding /\ GoodKey /\ Value.err = None /\ KeyId(Key.x) # call.id /\ ~Beyond
  BY DEF FindSkip, Passing
<1>3. Short' /\ Waiting' /\ CountedSoFar'
  <2>1. ~Counting'
    BY <1>1, <1>2, IdleNames DEF Counting
  <2> QED
    BY <1>1, <2>1 DEF OnTheWay, Short, Waiting, CountedSoFar
<1>4. Places(buf)[index] = {index} \cup Places(buf)[Value.index]
  BY <1>2, PlacesHere DEF OnTheWay
<1>5. index < Len(buf) /\ ~IsStop(buf, idx, call.id, call.sorted, index)
  <2>1. index < Len(buf)
    BY <1>2 DEF GoodKey, AtEnd, TypeOK, Positions
  <2>2. Items!IdOf(SubSeq(buf, index + 1, Len(buf))) = KeyId(Key.x)
    BY <1>2, <2>1, KeyHere DEF OnTheWay
  <2> QED
    BY <1>2, <2>1, <2>2 DEF IsStop, Beyond
<1>6. Searched'
  <2>1. /\ Places(buf)[index] \subseteq Places(buf)[idx]
        /\ \A i \in Places(buf)[idx] :
             i \in Places(buf)[index] \/ (i < Len(buf) /\ ~IsStop(buf, idx, call.id, call.sorted, i))
    BY <1>2 DEF OnTheWay, Searched
  <2>2. /\ Places(buf)[Value.index] \subseteq Places(buf)[idx]
        /\ \A i \in Places(buf)[idx] :
             i \in Places(buf)[Value.index] \/ (i < Len(buf) /\ ~IsStop(buf, idx, call.id, call.sorted, i))
    BY <1>4, <1>5, <2>1
  <2> QED
    BY <1>1, <2>2 DEF Searched
<1> QED
  BY <1>3, <1>6 DEF OnTheWay

LEMMA CountOnTheWay ==
  ASSUME TypeOK, OnTheWay, CountItem
  PROVE  OnTheWay'
<1> DEFINE A == Alikes(buf, call.id, call.wt)
<1>1. buf' = buf /\ index' = Value.index /\ idx' = idx /\ call' = call /\ reply' = reply /\ n' = n + 1
  BY DEF CountItem, Continue
<1>2. Counting /\ GoodKey /\ Value.err = None /\ KeyId(Key.x) = call.id /\ KeyWire(Key.x) = call.wt
  BY DEF CountItem, Counted
<1>3. Short' /\ Waiting' /\ Searched'
  <2>1. ~Finding'
    BY <1>1, <1>2, IdleNames DEF Finding
  <2> QED
    BY <1>1, <2>1 DEF OnTheWay, Short, Waiting, Searched
<1>4. A[index] = {Value.index} \cup A[Value.index] /\ Value.index \notin A[Value.index]
  BY <1>2, AlikesHere DEF OnTheWay
<1>5. IsFiniteSet(A[Value.index]) /\ Cardinality(A[Value.index]) \in Nat
  BY PlaceFacts, AlikesFinite DEF TypeOK, Positions
<1>6. Cardinality(A[idx]) = n + Cardinality(A[index])
  BY <1>2 DEF OnTheWay, CountedSoFar
<1> HIDE DEF A
<1>7. Cardinality(A[index]) = Cardinality(A[Value.index]) + 1
  <2>1. Cardinality(A[Value.index] \cup {Value.index}) = Cardinality(A[Value.index]) + 1
    BY <1>4, <1>5, FS_AddElement
  <2>2. {Value.index} \cup A[Value.index] = A[Value.index] \cup {Value.index}
    OBVIOUS
  <2> QED
    BY <1>4, <2>1, <2>2
<1>8. Cardinality(A[idx]) = (n + 1) + Cardinality(A[Value.index])
  BY <1>5, <1>6, <1>7 DEF TypeOK
<1>9. CountedSoFar'
  BY <1>1, <1>8 DEF CountedSoFar, A
<1> QED
  BY <1>3, <1>9 DEF OnTheWay

-----------------------------------------------------------------------------
(* the steps are steps of MessageItems *)

LEMMA LostStays ==
  ASSUME astray, astray', buf' = buf
  PROVE  Items!Next
<1>1. Pos = Items!Lost /\ Pos' = Items!Lost
  BY DEF Pos, Items!Lost
<1> QED
  BY <1>1 DEF Items!Next, Pos

LEMMA ReturnPromised ==
  ASSUME TypeOK, NEW c, NEW got, NEW i, NEW misled \in BOOLEAN, Return(c, got, i, misled),
         (~astray /\ Pos' = IF misled THEN -1 ELSE i) => Items!Promised(c, got)
  PROVE  Items!Next
<1>1. reply'.to = c /\ reply'.got = got /\ buf' = buf /\ index' = i /\ call' = Idle /\ astray' = (astray \/ misled)
  BY DEF Return
<1>2. CASE astray
  BY <1>1, <1>2, LostStays
<1>3. CASE ~astray
  <2>1. Pos' = IF misled THEN -1 ELSE i
    BY <1>1, <1>3 DEF Pos
  <2>2. Pos # Items!Lost
    BY <1>3 DEF Pos, TypeOK, Positions, Items!Lost
  <2>3. Items!Promised(reply'.to, reply'.got)
    BY <1>1, <1>3, <2>1
  <2> QED
    BY <1>1, <2>2, <2>3 DEF Items!Next, Pos
<1> QED
  BY <1>2, <1>3

\* the client waits
LEMMA StillWaiting ==
  ASSUME buf' = buf, astray' = astray, reply'.to.name = "none", Pos' = Pos
  PROVE  Items!Next
BY DEF Items!Next, Pos

LEMMA NextPromised ==
  ASSUME TypeOK, OnTheWay, NextMethod
  PROVE  Items!Next
<1>1. call = Idle /\ (~astray => Pos = index) /\ NextCall.name = "Next" /\ index \in Nat /\ Len(buf) \in Nat /\ index <= Len(buf)
  <2>1. call = Idle
    BY DEF NextMethod, NextAtEnd, NextBadKey, NextItem
  <2>2. ~astray => Pos = index
    BY <2>1 DEF Pos
  <2>3. NextCall.name = "Next"
    BY DEF NextCall, Call
  <2>4. index \in Nat /\ Len(buf) \in Nat /\ index <= Len(buf)
    BY DEF TypeOK, Positions
  <2> QED
    BY <2>1, <2>2, <2>3, <2>4
<1>2. ASSUME NEW got, Items!NextReply(got) PROVE Items!Promised(NextCall, got)
  BY <1>1, <1>2 DEF Items!Promised
<1>3. Items!ItemEnds(index) = EndsAt(buf, index)
  BY SameEnds
<1>4. ASSUME NEW got, NEW e \in WireErrors, got.err = e, e # None, index < Len(buf), EndsAt(buf, index) = {},
             ~astray, Pos' = -1
      PROVE  Items!Promised(NextCall, got)
  <2>1. Items!IsBad(got)
    BY <1>4, ErrorsAreBad DEF Items!IsBad
  <2> QED
    BY <1>1, <1>2, <1>3, <1>4, <2>1 DEF Items!NextReply, Pos, Items!Lost
<1>5. CASE NextAtEnd
  <2>1. AtEnd /\ Return(NextCall, Nothing(None), index, FALSE)
    BY <1>5 DEF NextAtEnd
  <2>2. (~astray /\ Pos' = index) => Items!Promised(NextCall, Nothing(None))
    BY <1>1, <1>2, <2>1, NothingIs DEF Items!NextReply, Pos, AtEnd
  <2> QED
    BY <2>1, <2>2, ReturnPromised
<1>6. CASE NextBadKey
  <2>1. BadKey /\ Return(NextCall, Nothing(Key.err), Key.index, TRUE)
    BY <1>6 DEF NextBadKey
  <2>2. EndsAt(buf, index) = {} /\ index < Len(buf) /\ Key.err # None
    BY <1>1, <2>1, EndsHere DEF GoodKey, BadKey, AtEnd, OnTheWay
  <2>3. Key.err \in WireErrors
    BY VarintErrors DEF Key
  <2>4. Nothing(Key.err).err = Key.err
    BY DEF Nothing, Item
  <2>5. (~astray /\ Pos' = -1) => Items!Promised(NextCall, Nothing(Key.err))
    BY <1>4, <2>2, <2>3, <2>4
  <2> QED
    BY <2>1, <2>5, ReturnPromised
<1>7. CASE NextItem
  <2>1. GoodKey /\ Return(NextCall, ItemHere, Value.index, Value.err # None)
    BY <1>7 DEF NextItem
  <2>2. CASE Value.err = None
    <3>1. EndsAt(buf, index) = {Value.index} /\ Items!IsItemReply(ItemHere, index, Value.index)
      BY <2>1, <2>2, EndsHere, ItemHereIs DEF OnTheWay
    <3>2. (~astray /\ Pos' = Value.index) => Items!Promised(NextCall, ItemHere)
      BY <1>1, <1>2, <1>3, <3>1 DEF Items!NextReply, Pos
    <3> QED
      BY <2>1, <2>2, <3>2, ReturnPromised
  <2>3. CASE Value.err # None
    <3>1. EndsAt(buf, index) = {} /\ index < Len(buf)
      BY <1>1, <2>1, <2>3, EndsHere DEF GoodKey, AtEnd, OnTheWay
    <3>2. Value.err \in WireErrors
      BY SkipErrors DEF Value
    <3>3. ItemHere.err = Value.err
      BY DEF ItemHere, Item
    <3>4. (~astray /\ Pos' = -1) => Items!Promised(NextCall, ItemHere)
      BY <1>4, <2>3, <3>1, <3>2, <3>3
    <3> QED
      BY <2>1, <2>3, <3>4, ReturnPromised
  <2> QED
    BY <2>2, <2>3
<1> QED
  BY <1>5, <1>6, <1>7 DEF NextMethod

-----------------------------------------------------------------------------
(* Find and FindBytes *)

LEMMA FoundNothing ==
  ASSUME Finding, NEW got, got.err # None, Items!FindReply(call.id, call.sorted, got)
  PROVE  Items!Promised(call, got)
BY Zenon DEF Finding, Items!Promised, Items!FindBytesReply

\* a search that has come to index
LEMMA SearchHere ==
  ASSUME TypeOK, OnTheWay, Finding, ~astray
  PROVE  /\ Pos = idx /\ Pos \in 0..Len(buf) /\ buf \in Seq(Bytes) /\ index \in Nat /\ Len(buf) \in Nat /\ index <= Len(buf)
         /\ ~(GoodKey /\ (KeyId(Key.x) = call.id \/ Beyond)) /\ ~(GoodKey /\ Value.err = None) =>
              /\ \A i \in 0..Len(buf) : ~IsStop(buf, Pos, call.id, call.sorted, i)
              /\ Len(buf) \in Places(buf)[Pos] <=> AtEnd
         /\ GoodKey /\ (KeyId(Key.x) = call.id \/ Beyond) =>
              /\ FirstStop(buf, Pos, call.id, call.sorted, index)
              /\ Items!IdOf(SubSeq(buf, index + 1, Len(buf))) = KeyId(Key.x)
<1>1. Pos = idx /\ idx \in 0..Len(buf) /\ buf \in Seq(Bytes) /\ index \in Nat /\ Len(buf) \in Nat /\ index <= Len(buf)
  BY IdleNames DEF Pos, TypeOK, Positions
<1>2. /\ Places(buf)[index] \subseteq Places(buf)[idx]
      /\ \A i \in Places(buf)[idx] :
           i \in Places(buf)[index] \/ (i < Len(buf) /\ ~IsStop(buf, idx, call.id, call.sorted, i))
  BY DEF OnTheWay, Searched
<1>3. /\ Places(buf)[index] \subseteq index..Len(buf) /\ index \in Places(buf)[index]
      /\ ~(GoodKey /\ Value.err = None) => Places(buf)[index] = {index}
  BY PlacesHere DEF OnTheWay
<1>4. index < Len(buf) => /\ GoodKey <=> Items!Keyed(SubSeq(buf, index + 1, Len(buf)))
                          /\ GoodKey => Items!IdOf(SubSeq(buf, index + 1, Len(buf))) = KeyId(Key.x)
  BY KeyHere DEF OnTheWay
<1>5. AtEnd <=> ~(index < Len(buf))
  BY <1>1 DEF AtEnd
<1>6. IsStop(buf, idx, call.id, call.sorted, index) <=> (GoodKey /\ (KeyId(Key.x) = call.id \/ Beyond))
  <2>1. index \in Places(buf)[idx]
    BY <1>2, <1>3
  <2>2. GoodKey => index < Len(buf)
    BY <1>5 DEF GoodKey
  <2> QED
    BY <1>4, <2>1, <2>2 DEF IsStop, Beyond
<1>7. \A i : IsStop(buf, idx, call.id, call.sorted, i) => i \in Places(buf)[index]
  BY <1>2 DEF IsStop
<1>8. ASSUME ~(GoodKey /\ (KeyId(Key.x) = call.id \/ Beyond)), ~(GoodKey /\ Value.err = None)
      PROVE  /\ \A i \in 0..Len(buf) : ~IsStop(buf, Pos, call.id, call.sorted, i)
             /\ Len(buf) \in Places(buf)[Pos] <=> AtEnd
  <2>1. Places(buf)[index] = {index}
    BY <1>3, <1>8
  <2>2. \A i \in 0..Len(buf) : ~IsStop(buf, idx, call.id, call.sorted, i)
    BY <1>6, <1>7, <1>8, <2>1
  <2>3. Len(buf) \in Places(buf)[idx] <=> Len(buf) = index
    BY <1>1, <1>2, <2>1
  <2> QED
    BY <1>1, <2>2, <2>3 DEF AtEnd
<1>9. ASSUME GoodKey, KeyId(Key.x) = call.id \/ Beyond
      PROVE  /\ FirstStop(buf, Pos, call.id, call.sorted, index)
             /\ Items!IdOf(SubSeq(buf, index + 1, Len(buf))) = KeyId(Key.x)
  <2>1. \A j \in 0..Len(buf) : IsStop(buf, idx, call.id, call.sorted, j) => index <= j
    BY <1>1, <1>3, <1>7
  <2>2. FirstStop(buf, idx, call.id, call.sorted, index)
    BY <1>1, <1>6, <1>9, <2>1 DEF FirstStop
  <2>3. index < Len(buf)
    BY <1>5, <1>9 DEF GoodKey
  <2> QED
    BY <1>1, <1>4, <1>9, <2>2, <2>3
<1> QED
  BY <1>1, <1>8, <1>9

\* A search ends without an item.
LEMMA MissPromised ==
  ASSUME TypeOK, OnTheWay, Finding, ~astray
  PROVE  /\ AtEnd /\ Pos' = index => Items!Promised(call, Nothing(NotFound))
         /\ BadKey /\ Pos' = -1 => Items!Promised(call, Nothing(Key.err))
         /\ GoodKey /\ Beyond /\ KeyId(Key.x) # call.id /\ Pos' = -1 => Items!Promised(call, Nothing(NotFound))
         /\ Passing /\ Value.err # None /\ Pos' = -1 => Items!Promised(call, Nothing(Value.err))
<1>1. \A e : Nothing(e).err = e
  BY DEF Nothing, Item
<1>2. Key.err \in WireErrors /\ Value.err \in WireErrors
  BY VarintErrors, SkipErrors DEF Key, Value
<1>3. Pos \in 0..Len(buf) /\ buf \in Seq(Bytes)
  BY SearchHere
<1>4. ASSUME NEW e \in WireErrors, e # None, ~(GoodKey /\ (KeyId(Key.x) = call.id \/ Beyond)),
             ~(GoodKey /\ Value.err = None), ~AtEnd, Pos' = -1
      PROVE  Items!Promised(call, Nothing(e))
  <2>1. /\ \A i \in 0..Len(buf) : ~IsStop(buf, Pos, call.id, call.sorted, i)
        /\ Len(buf) \notin Places(buf)[Pos]
    BY <1>4, SearchHere
  <2>2. Items!FindReply(call.id, call.sorted, Nothing(e))
    BY <1>3, <1>4, <2>1, NothingIs, FindPromised
  <2> QED
    BY <1>1, <1>4, <2>2, FoundNothing
<1>5. ASSUME AtEnd, Pos' = index PROVE Items!Promised(call, Nothing(NotFound))
  <2>1. ~GoodKey /\ index = Len(buf)
    BY <1>5 DEF GoodKey, AtEnd
  <2>2. /\ \A i \in 0..Len(buf) : ~IsStop(buf, Pos, call.id, call.sorted, i)
        /\ Len(buf) \in Places(buf)[Pos]
    BY <1>5, <2>1, SearchHere
  <2>3. Items!FindReply(call.id, call.sorted, Nothing(NotFound))
    BY <1>3, <1>5, <2>1, <2>2, NothingIs, FindPromised
  <2> QED
    BY <1>1, <2>3, FoundNothing
<1>6. ASSUME BadKey, Pos' = -1 PROVE Items!Promised(call, Nothing(Key.err))
  <2>1. ~GoodKey /\ ~AtEnd /\ Key.err # None
    BY <1>6 DEF GoodKey, BadKey
  <2> QED
    BY <1>2, <1>4, <1>6, <2>1
<1>7. ASSUME GoodKey, Beyond, KeyId(Key.x) # call.id, Pos' = -1 PROVE Items!Promised(call, Nothing(NotFound))
  <2>1. /\ FirstStop(buf, Pos, call.id, call.sorted, index)
        /\ Items!IdOf(SubSeq(buf, index + 1, Len(buf))) # call.id
    BY <1>7, SearchHere
  <2>2. Items!FindReply(call.id, call.sorted, Nothing(NotFound))
    BY <1>3, <1>7, <2>1, NothingIs, FindPromised
  <2> QED
    BY <1>1, <2>2, FoundNothing
<1>8. ASSUME Passing, Value.err # None, Pos' = -1 PROVE Items!Promised(call, Nothing(Value.err))
  <2>1. ~(KeyId(Key.x) = call.id \/ Beyond) /\ ~AtEnd
    BY <1>8 DEF Passing, GoodKey
  <2> QED
    BY <1>2, <1>4, <1>8, <2>1
<1> QED
  BY <1>5, <1>6, <1>7, <1>8

\* It ends at an item with its id.
LEMMA MatchPromised ==
  ASSUME TypeOK, OnTheWay, Finding, ~astray, GoodKey, KeyId(Key.x) = call.id,
         Pos' = IF Value.err # None THEN -1 ELSE Value.index
  PROVE  Items!Promised(call, Wanted(ItemHere))
<1>1. /\ FirstStop(buf, Pos, call.id, call.sorted, index)
      /\ Items!IdOf(SubSeq(buf, index + 1, Len(buf))) = call.id
      /\ Pos \in 0..Len(buf) /\ buf \in Seq(Bytes)
  BY SearchHere
<1>2. ItemHere.err = Value.err /\ ItemHere.id = call.id /\ ItemHere.wt = KeyWire(Key.x)
  BY DEF ItemHere, Item
<1>3. CASE Value.err # None
  <2>1. Wanted(ItemHere) = ItemHere
    BY <1>2, <1>3 DEF Wanted
  <2>2. Items!IsBad(ItemHere)
    BY <1>2, <1>3, SkipErrors, ErrorsAreBad DEF Value, Items!IsBad
  <2>3. EndsAt(buf, index) = {}
    BY <1>3, EndsHere DEF OnTheWay
  <2>4. Items!FindReply(call.id, call.sorted, ItemHere)
    BY <1>1, <1>3, <2>2, <2>3, FindPromised
  <2> QED
    BY <1>2, <1>3, <2>1, <2>4, FoundNothing
<1>4. CASE Value.err = None
  <2>1. /\ Items!IsItemReply(ItemHere, index, Value.index) /\ EndsAt(buf, index) = {Value.index}
        /\ Items!WireOf(SubSeq(buf, index + 1, Value.index)) = KeyWire(Key.x)
        /\ index < Value.index
    BY <1>4, ItemHereIs, EndsHere DEF OnTheWay
  <2>2. ASSUME NEW got, Items!IsItemReply(got, index, Value.index)
        PROVE  Items!FindReply(call.id, call.sorted, got)
    BY <1>1, <1>4, <2>1, <2>2, FindPromised
  <2>3. Items!FindReply(call.id, call.sorted, ItemHere)
    BY <2>1, <2>2
  <2>4. CASE call.name = "Find"
    <3>1. Wanted(ItemHere) = ItemHere
      BY <2>4 DEF Wanted
    <3> QED
      BY <2>3, <2>4, <3>1 DEF Items!Promised
  <2>5. CASE call.name = "FindBytes" /\ KeyWire(Key.x) = WireBytes
    <3>1. Wanted(ItemHere) = ItemHere
      BY <1>2, <2>5 DEF Wanted
    <3>2. Items!FindBytesReply(call.id, call.sorted, ItemHere)
      BY <1>2, <2>3, <2>5 DEF Items!FindBytesReply, WireBytes
    <3> QED
      BY <2>5, <3>1, <3>2 DEF Items!Promised
  <2>6. CASE call.name = "FindBytes" /\ KeyWire(Key.x) # WireBytes
    <3> DEFINE got == Nothing(NotFound)
               wt == KeyWire(Key.x)
               found == [got EXCEPT !.err = "none", !.id = call.id, !.wt = wt, !.full = <<index, Pos'>>,
                                    !.val = <<index + Items!ValueStart(Items!Slice(index, Pos')), Pos'>>]
    <3>1. Wanted(ItemHere) = got
      BY <1>2, <1>4, <2>6 DEF Wanted
    <3>2. Pos' = Value.index
      BY <1>4
    <3>3. Items!ItemAt(index, Pos')
      <4>1. Value.index \in EndsAt(buf, index)
        BY <2>1
      <4> QED
        BY <3>2, <4>1 DEF EndsAt, Items!ItemAt, Items!Slice
    <3>4. wt \in {0, 1, 5}
      <4>1. Items!IsValue(wt, Items!Rest(SubSeq(buf, index + 1, Value.index), Items!KeyLen(SubSeq(buf, index + 1, Value.index))))
        BY <2>1, <3>2, <3>3 DEF Items!ItemAt, Items!Slice, Items!IsItem
      <4> HIDE DEF wt
      <4>2. wt \in {0, 1, 2, 5}
        BY <4>1 DEF Items!IsValue
      <4> QED
        BY <2>6, <4>2 DEF wt, WireBytes
    <3>5. index \in Pos..Pos'
      <4>1. index \in Places(buf)[Pos] /\ Pos \in 0..Len(buf) /\ index \in Nat /\ Value.index \in Nat
        BY <1>1, PlaceFacts DEF FirstStop, IsStop, TypeOK, Positions
      <4>2. Places(buf)[Pos] \subseteq Pos..Len(buf)
        BY <1>1, PlacesFrom
      <4> QED
        BY <2>1, <3>2, <4>1, <4>2
    <3>6. Items!IsItemReply(found, index, Value.index)
      <4>1. got = [id |-> 0, full |-> NilSlice, val |-> NilSlice, wt |-> 0, err |-> NotFound, n |-> 0]
        BY DEF Nothing, Item
      <4>2. /\ found.err = "none" /\ found.id = call.id /\ found.wt = wt /\ found.full = <<index, Value.index>>
            /\ found.val = <<index + Items!ValueStart(Items!Slice(index, Value.index)), Value.index>>
        BY <3>2, <4>1
      <4>3. Items!IdOf(Items!Slice(index, Value.index)) = call.id /\ Items!WireOf(Items!Slice(index, Value.index)) = wt
        BY <1>4, ItemHereIs DEF OnTheWay, Items!Slice
      <4> HIDE DEF found, wt
      <4> QED
        BY <4>2, <4>3 DEF Items!IsItemReply
    <3>7. Items!FindReply(call.id, call.sorted, found)
      BY <2>2, <3>6
    <3>8. Items!IsMiss(got)
      BY NothingIs, Zenon
    <3>9. Items!FindBytesReply(call.id, call.sorted, got)
      <4> HIDE DEF wt, got
      <4> QED
        BY <3>3, <3>4, <3>5, <3>7, <3>8, Zenon DEF Items!FindBytesReply, Pos
    <3> QED
      BY <2>6, <3>1, <3>9 DEF Items!Promised
  <2> QED
    BY <2>4, <2>5, <2>6 DEF Finding
<1> QED
  BY <1>3, <1>4

LEMMA FindMethodPromised ==
  ASSUME TypeOK, OnTheWay, FindMethod
  PROVE  Items!Next
<1>1. Finding
  BY DEF FindMethod, FindAtEnd, FindBadKey, FindMatch, FindBeyond, FindSkip, FindSkipFails, Passing
<1>2. CASE FindAtEnd
  <2>1. AtEnd /\ Return(call, Nothing(NotFound), index, FALSE)
    BY <1>2 DEF FindAtEnd
  <2> QED
    BY <1>1, <2>1, MissPromised, ReturnPromised
<1>3. CASE FindBadKey
  <2>1. BadKey /\ Return(call, Nothing(Key.err), Key.index, TRUE)
    BY <1>3 DEF FindBadKey
  <2> QED
    BY <1>1, <2>1, MissPromised, ReturnPromised
<1>4. CASE FindMatch
  <2>1. GoodKey /\ KeyId(Key.x) = call.id /\ Return(call, Wanted(ItemHere), Value.index, Value.err # None)
    BY <1>4 DEF FindMatch
  <2>2. (~astray /\ Pos' = IF Value.err # None THEN -1 ELSE Value.index) => Items!Promised(call, Wanted(ItemHere))
    BY <1>1, <2>1, MatchPromised
  <2> QED
    BY <2>1, <2>2, ReturnPromised
<1>5. CASE FindBeyond
  <2>1. GoodKey /\ Beyond /\ Return(call, Nothing(NotFound), Key.index, TRUE)
    BY <1>5 DEF FindBeyond
  <2>2. KeyId(Key.x) # call.id
    <3>1. call.id \in Nat /\ KeyId(Key.x) \in Nat /\ KeyId(Key.x) > call.id
      BY <2>1, DecodeVarintNat DEF TypeOK, Positions, Calls, Key, KeyId, Beyond
    <3> QED
      BY <3>1
  <2> QED
    BY <1>1, <2>1, <2>2, MissPromised, ReturnPromised
<1>6. CASE FindSkip
  <2>1. buf' = buf /\ astray' = astray /\ reply' = reply /\ call' = call /\ idx' = idx /\ call # Idle
    BY <1>1, <1>6, IdleNames DEF FindSkip, Continue
  <2>2. reply'.to.name = "none" /\ Pos' = Pos
    BY <2>1 DEF OnTheWay, Waiting, Pos
  <2> QED
    BY <2>1, <2>2, StillWaiting
<1>7. CASE FindSkipFails
  <2>1. Passing /\ Value.err # None /\ Return(call, Nothing(Value.err), Value.index, TRUE)
    BY <1>7 DEF FindSkipFails
  <2> QED
    BY <1>1, <2>1, MissPromised, ReturnPromised
<1> QED
  BY <1>2, <1>3, <1>4, <1>5, <1>6, <1>7 DEF FindMethod

LEMMA CountMethodPromised ==
  ASSUME TypeOK, OnTheWay, CountMethod
  PROVE  Items!Next
<1>1. Counting /\ call # Idle
  BY IdleNames DEF CountMethod, CountItem, CountDone
<1>2. CASE CountItem
  <2>1. buf' = buf /\ astray' = astray /\ reply' = reply /\ call' = call /\ idx' = idx
    BY <1>2 DEF CountItem, Continue
  <2>2. reply'.to.name = "none" /\ Pos' = Pos
    BY <1>1, <2>1 DEF OnTheWay, Waiting, Pos
  <2> QED
    BY <2>1, <2>2, StillWaiting
<1>3. CASE CountDone
  <2>1. PICK e : Return(call, Count(n, e), idx, FALSE)
    BY <1>3 DEF CountDone
  <2>2. ~Counted
    BY <1>3 DEF CountDone
  <2>3. Alikes(buf, call.id, call.wt)[index] = {}
    BY <2>2, AlikesHere DEF Counted, OnTheWay
  <2>4. n = Cardinality(Alikes(buf, call.id, call.wt)[idx])
    <3>1. Cardinality(Alikes(buf, call.id, call.wt)[index]) = 0
      BY <2>3, FS_EmptySet
    <3>2. Cardinality(Alikes(buf, call.id, call.wt)[idx]) = n + Cardinality(Alikes(buf, call.id, call.wt)[index])
      BY <1>1 DEF OnTheWay, CountedSoFar
    <3> QED
      BY <3>1, <3>2 DEF TypeOK
  <2>5. Count(n, e).n = n
    BY DEF Count, Nothing, Item
  <2>6. ASSUME ~astray, Pos' = idx PROVE Items!Promised(call, Count(n, e))
    <3>1. Pos = idx
      BY <1>1, <2>6 DEF Pos
    <3>2. Items!Alike(call.id, call.wt) = Alikes(buf, call.id, call.wt)[idx]
      BY <3>1, SameAlike
    <3>3. \A S : Items!Cardinality(S) = Cardinality(S)
      BY DEF Items!Cardinality, Cardinality
    <3>4. n = Items!Cardinality(Items!Alike(call.id, call.wt))
      BY <2>4, <3>2, <3>3
    <3>5. Items!CountReply(call.id, call.wt, n)
      BY <2>6, <3>1, <3>4 DEF Items!CountReply, Pos
    <3> QED
      BY <1>1, <2>5, <3>5 DEF Items!Promised, Counting
  <2> QED
    BY <2>1, <2>6, ReturnPromised
<1> QED
  BY <1>2, <1>3 DEF CountMethod

LEMMA StartPromised ==
  ASSUME OnTheWay, NEW c, Start(c)
  PROVE  Items!Next
<1>1. buf' = buf /\ astray' = astray /\ call = Idle /\ call' = c /\ index' = index /\ idx' = index /\ reply' = NoReply
  BY DEF Start
<1>2. reply'.to.name = "none" /\ Pos' = Pos
  BY <1>1 DEF NoReply, Idle, Call, Pos
<1> QED
  BY <1>1, <1>2, StillWaiting

LEMMA RewindPromised ==
  ASSUME Rewind
  PROVE  Items!Next
<1>1. buf' = buf /\ ~astray' /\ call' = Idle /\ index' = 0 /\ reply'.to = Call("Rewind", 0, FALSE, 0)
  BY DEF Rewind
<1>2. reply'.to.name = "Rewind" /\ Pos' = 0
  BY <1>1 DEF Call, Pos
<1> QED
  BY <1>1, <1>2 DEF Items!Next, Pos

LEMMA StepPromised ==
  ASSUME TypeOK, OnTheWay, Next
  PROVE  Items!Next /\ OnTheWay'
<1>1. ASSUME NEW c, NEW got, NEW i, NEW misled, Return(c, got, i, misled) PROVE OnTheWay'
  BY <1>1, IdleOnTheWay DEF Return
<1>2. CASE NextMethod
  <2>1. OnTheWay'
    BY <1>1, <1>2 DEF NextMethod, NextAtEnd, NextBadKey, NextItem
  <2> QED
    BY <1>2, <2>1, NextPromised
<1>3. CASE StartFind
  BY <1>3, StartPromised, StartOnTheWay DEF StartFind
<1>4. CASE FindMethod
  <2>1. FindSkip => OnTheWay'
    BY SkipOnTheWay
  <2>2. OnTheWay'
    BY <1>1, <1>4, <2>1 DEF FindMethod, FindAtEnd, FindBadKey, FindMatch, FindBeyond, FindSkipFails
  <2> QED
    BY <1>4, <2>2, FindMethodPromised
<1>5. CASE StartCount
  BY <1>5, StartPromised, StartOnTheWay DEF StartCount
<1>6. CASE CountMethod
  <2>1. CountItem => OnTheWay'
    BY CountOnTheWay
  <2>2. CountDone => OnTheWay'
    BY <1>1 DEF CountDone
  <2> QED
    BY <1>6, <2>1, <2>2, CountMethodPromised DEF CountMethod
<1>7. CASE Rewind
  <2>1. buf' = buf /\ call' = Idle
    BY <1>7 DEF Rewind
  <2> QED
    BY <1>7, <2>1, RewindPromised, IdleOnTheWay
<1> QED
  BY <1>2, <1>3, <1>4, <1>5, <1>6, <1>7 DEF Next

\* The scanning methods keep the promises of MessageItems, whatever the bytes and whatever the client
\* calls in whatever order: Next returns the items that the grammar of messages finds in the bytes,
\* one after the other, Find and FindBytes the first one with the id, and count_ahead the number of
\* items that are alike and leaves the position alone; where the bytes are no items there is an error.
THEOREM Refinement == Spec => ReadsItems
<1>1. Init => OnTheWay /\ Items!Init
  <2> SUFFICES ASSUME Init PROVE OnTheWay /\ Items!Init
    OBVIOUS
  <2>1. buf \in Buffers /\ index = 0 /\ call = Idle /\ astray = FALSE
    BY DEF Init
  <2>2. Short
    BY <2>1, BuffersAssumption DEF Short
  <2>3. ~Finding /\ ~Counting
    BY <2>1, IdleNames
  <2>4. Pos = 0
    BY <2>1 DEF Pos
  <2> QED
    BY <2>1, <2>2, <2>3, <2>4 DEF OnTheWay, Waiting, Searched, CountedSoFar, Items!Init, Pos
<1>2. TypeOK /\ OnTheWay /\ [Next]_vars => OnTheWay' /\ [Items!Next]_<<buf, Pos, reply>>
  <2> SUFFICES ASSUME TypeOK, OnTheWay, UNCHANGED vars
               PROVE  OnTheWay' /\ UNCHANGED <<buf, Pos, reply>>
    BY StepPromised
  <2>1. UNCHANGED <<buf, index, call, idx, n, reply, astray>>
    BY DEF vars
  <2>2. OnTheWay'
    BY <2>1 DEF OnTheWay, Short, Waiting, Searched, CountedSoFar, Finding, Counting
  <2> QED
    BY <2>1, <2>2 DEF Pos
<1>3. TypeOK /\ OnTheWay /\ [Next]_vars => OnTheWay' /\ [Items!Next]_<<buf, IF astray THEN -1 ELSE IF call = Idle THEN index ELSE idx, reply>>
  BY <1>2 DEF Pos
<1> QED
  BY <1>1, <1>3, TypeCorrect, PTL DEF Spec, ReadsItems, Items!SafeSpec
=============================================================================
