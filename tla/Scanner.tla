--------------------------------- MODULE Scanner ---------------------------------
(***************************************************************************)
(* A Buffer as a reader of the items of a message (lib.go): Next, Find,    *)
(* FindBytes, count_ahead and Rewind.  The client calls them in any order; *)
(* the loops of Find and count_ahead take one step per item.               *)
(* A returned slice is the pair of positions it runs between: it shares the*)
(* Buffer's memory.                                                        *)
(***************************************************************************)
EXTENDS Wire

CONSTANTS
  Buffers,  \* the byte strings that are read
  Ids,      \* the ids clients look for
  Sorteds   \* the values of Find's argument `sorted'

\* the length of a slice is an int
ASSUME BuffersAssumption == Buffers \subseteq Seq(Bytes) /\ \A b \in Buffers : Len(b) < Word
ASSUME ArgumentsAssumption == Ids \subseteq Nat /\ Sorteds \subseteq BOOLEAN

VARIABLES
  buf,     \* p.buf
  index,   \* p.index
  call,    \* the call in progress: name, id or tag, sorted, wire type
  idx,     \* where it began: count_ahead's idx; of a Find, which does not keep it, history
  n,       \* the n of count_ahead
  reply,   \* what the last call returned, until the next call
  astray   \* history: since the last Rewind a call had an error, or a sorted Find stopped early

vars == <<buf, index, call, idx, n, reply, astray>>

Call(name, id, sorted, wt) == [name |-> name, id |-> id, sorted |-> sorted, wt |-> wt]
Idle == Call("none", 0, FALSE, 0)

NilSlice == <<0, 0>>
Item(id, full, val, wt, err) == [id |-> id, full |-> full, val |-> val, wt |-> wt, err |-> err, n |-> 0]
Nothing(err) == Item(0, NilSlice, NilSlice, 0, err)
Count(k, err) == [Nothing(err) EXCEPT !.n = k]

NoReply == [to |-> Idle, got |-> Nothing(None)]

Init ==
  /\ buf \in Buffers
  /\ index = 0
  /\ call = Idle
  /\ idx = 0
  /\ n = 0
  /\ reply = NoReply
  /\ astray = FALSE

-----------------------------------------------------------------------------
(* the item at the read position *)

Key      == DecodeVarint(buf, index)
Value    == skip(buf, Key.index, KeyWire(Key.x))
AtEnd    == index = Len(buf)
GoodKey  == ~AtEnd /\ Key.err = None
BadKey   == ~AtEnd /\ Key.err # None

\* what it is; without its bytes val is what was passed over
ItemHere ==
  LET from == IF KeyWire(Key.x) = WireBytes /\ Value.err = None THEN Value.x ELSE Key.index
  IN  Item(KeyId(Key.x), <<index, Value.index>>, <<from, Value.index>>, KeyWire(Key.x), Value.err)

\* c returns got and leaves p.index at i
Return(c, got, i, misled) ==
  /\ reply' = [to |-> c, got |-> got]
  /\ index' = i
  /\ astray' = (astray \/ misled)
  /\ call' = Idle
  /\ idx' = 0
  /\ n' = 0
  /\ UNCHANGED buf

\* a method with a loop is called
Start(c) ==
  /\ call = Idle
  /\ call' = c
  /\ idx' = index
  /\ n' = 0
  /\ reply' = NoReply
  /\ UNCHANGED <<buf, index, astray>>

\* the loop goes on with the item at i
Continue(i, k) ==
  /\ index' = i
  /\ n' = k
  /\ UNCHANGED <<buf, call, idx, reply, astray>>

-----------------------------------------------------------------------------
(* Next *)

NextCall == Call("Next", 0, FALSE, 0)

NextAtEnd  == call = Idle /\ AtEnd /\ Return(NextCall, Nothing(None), index, FALSE)
NextBadKey == call = Idle /\ BadKey /\ Return(NextCall, Nothing(Key.err), Key.index, TRUE)
NextItem   == call = Idle /\ GoodKey /\ Return(NextCall, ItemHere, Value.index, Value.err # None)

NextMethod == NextAtEnd \/ NextBadKey \/ NextItem

(* Find and FindBytes *)

Finding == call.name \in {"Find", "FindBytes"}

StartFind == \E f \in {"Find", "FindBytes"}, id \in Ids, s \in Sorteds : Start(Call(f, id, s, 0))

\* FindBytes has no use for an item of another wire type; its search is over all the same
Wanted(got) ==
  IF call.name = "FindBytes" /\ got.err = None /\ got.wt # WireBytes THEN Nothing(NotFound) ELSE got

FindAtEnd  == Finding /\ AtEnd /\ Return(call, Nothing(NotFound), index, FALSE)
FindBadKey == Finding /\ BadKey /\ Return(call, Nothing(Key.err), Key.index, TRUE)

FindMatch ==
  /\ Finding
  /\ GoodKey
  /\ KeyId(Key.x) = call.id
  /\ Return(call, Wanted(ItemHere), Value.index, Value.err # None)

\* mutant: every search gives up at a larger id
Beyond_Always == KeyId(Key.x) > call.id

\* a message sorted by id has no more items with this one
Beyond == call.sorted /\ KeyId(Key.x) > call.id

\* the key has been read and its value has not
FindBeyond ==
  /\ Finding
  /\ GoodKey
  /\ Beyond
  /\ Return(call, Nothing(NotFound), Key.index, TRUE)

Passing == Finding /\ GoodKey /\ KeyId(Key.x) # call.id /\ ~Beyond

FindSkip     == Passing /\ Value.err = None /\ Continue(Value.index, n)
FindSkipFails == Passing /\ Value.err # None /\ Return(call, Nothing(Value.err), Value.index, TRUE)

FindMethod == FindAtEnd \/ FindBadKey \/ FindMatch \/ FindBeyond \/ FindSkip \/ FindSkipFails

(* count_ahead *)

Counting == call.name = "count_ahead"

StartCount == \E tag \in Ids, wt \in {WireVarint, WireBytes} : Start(Call("count_ahead", tag, FALSE, wt))

Counted == GoodKey /\ KeyId(Key.x) = call.id /\ KeyWire(Key.x) = call.wt /\ Value.err = None

CountItem == Counting /\ Counted /\ Continue(Value.index, n + 1)

CountDone ==
  /\ Counting
  /\ ~Counted
  /\ LET err == IF AtEnd THEN None ELSE IF BadKey THEN Key.err ELSE Value.err
     IN  Return(call, Count(n, err), idx, FALSE)

CountMethod == CountItem \/ CountDone

(* Rewind *)

Rewind ==
  /\ call = Idle
  /\ index' = 0
  /\ astray' = FALSE
  /\ reply' = [to |-> Call("Rewind", 0, FALSE, 0), got |-> Nothing(None)]
  /\ UNCHANGED <<buf, call, idx, n>>

Next == NextMethod \/ StartFind \/ FindMethod \/ StartCount \/ CountMethod \/ Rewind

Spec == Init /\ [][Next]_vars

-----------------------------------------------------------------------------
(* Properties *)

Positions == 0..Len(buf)
Slices == {r \in Positions \X Positions : r[1] <= r[2]}

Names == {"none", "Next", "Find", "FindBytes", "count_ahead", "Rewind"}
Calls == [name : Names, id : Nat, sorted : BOOLEAN, wt : Nat]

\* Whatever the bytes are, the read position and every slice handed out lie in the buffer, in
\* order: no index or slice expression of Next, Find, count_ahead or the wire decoders panics.
TypeOK ==
  /\ buf \in Seq(Bytes)
  /\ index \in Positions
  /\ call \in Calls
  /\ idx \in Positions
  /\ n \in Nat
  /\ reply.to \in Calls
  /\ reply.got.full \in Slices
  /\ reply.got.val \in Slices
  /\ astray \in BOOLEAN

\* "The entire item is useful because it is itself a valid protobuf message": read on its own
\* (where DecodeVarint takes its other path, for want of bytes) it is the same item, and all
\* of it.
FullStandsAlone ==
  (reply.got.err = None /\ reply.got.full # NilSlice) =>
    LET at    == reply.got.full[1]
        full  == SubSeq(buf, at + 1, reply.got.full[2])
        key   == DecodeVarint(full, 0)
        value == skip(full, key.index, KeyWire(key.x))
    IN  /\ key.err = None /\ value.err = None
        /\ value.index = Len(full)
        /\ <<KeyId(key.x), KeyWire(key.x)>> = <<reply.got.id, reply.got.wt>>
        /\ reply.got.val[1] = at + IF KeyWire(key.x) = WireBytes THEN value.x ELSE key.index

\* Every turn of the loops of Find and count_ahead moves the position ahead, also where a
\* corrupt length wraps around: a call ends after at most Len(buf) turns.
LoopMovesAhead == (call # Idle /\ call' = call) => index' > index

LoopsEnd == [][LoopMovesAhead]_vars
=============================================================================
