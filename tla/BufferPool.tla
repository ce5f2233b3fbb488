-------------------------------- MODULE BufferPool --------------------------------
(***************************************************************************)
(* Marshal and Unmarshal of several goroutines, which take the Buffers they*)
(* work with from one sync.Pool: newBuffer and release (lib.go), and the   *)
(* calls that use them (encode.go, decode.go).  Types that marshal         *)
(* themselves call Marshal and Unmarshal again, with Buffers of their own. *)
(*                                                                         *)
(* The fields of a struct and the items of a message are records of a kind *)
(* and what there is in them.  Structs have an array of numbers (those at  *)
(* Paths), a struct within, and one that unmarshals itself; `at' is the    *)
(* path to a struct.                                                       *)
(***************************************************************************)
EXTENDS Integers, Sequences, FiniteSets

CONSTANTS
  Procs,      \* the goroutines
  Buffers,    \* addresses of Buffers
  Values,     \* what is marshaled
  Messages,   \* what is unmarshaled
  MaxDepths,  \* values of the global variable MaxRecursionDepth
  ArrayLen,   \* the length of the array in a struct
  Paths       \* to the structs that have an array

ASSUME BufferPoolAssumption ==
  MaxDepths # {} /\ MaxDepths \subseteq Nat /\ ArrayLen \in Nat

VARIABLES
  MaxRecursionDepth,  \* the global variable
  buffer_pool,        \* the Buffers in the pool
  heap,               \* the fields of each Buffer
  stack,              \* of each goroutine, the calls that it is in
  structs,            \* of each goroutine, the arrays of the struct that it unmarshals into
  request,            \* of each goroutine, what it has called, and with what
  reply               \* what it got, when it has returned

vars == <<MaxRecursionDepth, buffer_pool, heap, stack, structs, request, reply>>

None == "no error"

Item(kind, of) == [kind |-> kind, of |-> of, x |-> 0]

Number(x)    == [Item("number", <<>>) EXCEPT !.x = x]
Packed(ns)   == Item("packed", ns)
Inner(m)     == Item("message", m)
Custom(m)    == Item("custom", m)
Duration(m)  == Item("duration", m)
Failing      == Item("failing", <<>>)
Bad          == Item("bad", <<>>)

\* a Buffer is a record of its fields; Immutable is FALSE in all of these.  The index of an
\* array has the address of the array: a struct of a goroutine.
NoIndexes == [a \in Procs \X Paths |-> 0]

NewBuffer(max) == [buf |-> <<>>, index |-> 0, err |-> None, depth |-> 0, array_indexes |-> NoIndexes, max |-> max]

\* A call: its Buffer and, while it packs numbers, a second one; what is left to encode or to pack;
\* the struct that it decodes into, what it returns, and where it is: it enters a struct, it runs,
\* or it is in release.
Frame(op, b, todo, at) ==
  [op |-> op, b |-> b, scratch |-> {}, todo |-> todo, numbers |-> <<>>, at |-> at,
   saved |-> [buf |-> <<>>, index |-> 0], result |-> [bytes |-> <<>>, err |-> None],
   pc |-> IF op = "Unmarshal" \/ op = "message" THEN "enter" ELSE "run"]

NoRequest == [op |-> "none", of |-> <<>>, max |-> 0, into |-> [at \in Paths |-> [k \in 1..ArrayLen |-> 0]]]

Init ==
  /\ MaxRecursionDepth \in MaxDepths
  /\ buffer_pool = {}
  /\ heap = [b \in Buffers |-> NewBuffer(0)]
  /\ stack = [p \in Procs |-> <<>>]
  /\ structs = [p \in Procs |-> NoRequest.into]
  /\ request = [p \in Procs |-> NoRequest]
  /\ reply = [p \in Procs |-> {}]

-----------------------------------------------------------------------------
(* Buffers *)

BuffersOf(f) == {f.b} \cup f.scratch
InUse(p)     == UNION {BuffersOf(stack[p][k]) : k \in DOMAIN stack[p]}
Unused       == Buffers \ (buffer_pool \cup UNION {InUse(p) : p \in Procs})

\* mutant: MaxRecursionDepth is that of the last call
newBuffer_Max(h, e) == [h EXCEPT !.buf = e]

newBuffer(h, e) == [h EXCEPT !.buf = e, !.max = MaxRecursionDepth]

\* Get takes any Buffer of the pool, or a new one even when there are some.
Gets(b, e, other) ==
  /\ b \in buffer_pool \cup (IF Unused = {} THEN {} ELSE {CHOOSE u \in Unused : TRUE})
  /\ buffer_pool' = buffer_pool \ {b}
  /\ heap' = [other EXCEPT ![b] = newBuffer(IF b \in buffer_pool THEN @ ELSE NewBuffer(MaxRecursionDepth), e)]

\* mutants: release leaves a field as it is
Cleared_Index(h) == [h EXCEPT !.buf = <<>>, !.err = None, !.depth = 0, !.array_indexes = NoIndexes]
Cleared_Err(h)   == [h EXCEPT !.buf = <<>>, !.index = 0, !.depth = 0, !.array_indexes = NoIndexes]

Cleared(h) == [h EXCEPT !.buf = <<>>, !.index = 0, !.err = None, !.depth = 0, !.array_indexes = NoIndexes]

noteError(h, e) == [h EXCEPT !.err = IF @ = None THEN e ELSE @]

\* memory that nobody refers to any more
Freed(b) == [heap EXCEPT ![b] = NewBuffer(0)]

\* The pool may drop what is in it.
Collect ==
  /\ \E b \in buffer_pool : buffer_pool' = buffer_pool \ {b} /\ heap' = Freed(b)
  /\ UNCHANGED <<MaxRecursionDepth, stack, structs, request, reply>>

\* It is not safe to change it during calls.
SetMaxRecursionDepth ==
  /\ \A p \in Procs : stack[p] = <<>>
  /\ MaxRecursionDepth' \in MaxDepths
  /\ UNCHANGED <<buffer_pool, heap, stack, structs, request, reply>>

-----------------------------------------------------------------------------
(* the stack of a goroutine *)

Top(p)   == stack[p][Len(stack[p])]
Below(p) == SubSeq(stack[p], 1, Len(stack[p]) - 1)

Runs(p, op) == stack[p] # <<>> /\ Top(p).op = op /\ Top(p).pc = "run"

Becomes(p, f)  == stack' = [stack EXCEPT ![p] = Append(Below(p), f)]
Calls(p, f, g) == stack' = [stack EXCEPT ![p] = Append(Append(Below(p), f), g)]

Bytes(p) == heap[Top(p).b].buf
Put(h, items) == [h EXCEPT !.buf = @ \o items]

Call(p, op, of, e, todo) ==
  /\ request[p] = NoRequest
  /\ \E b \in Buffers : Gets(b, e, heap) /\ stack' = [stack EXCEPT ![p] = <<Frame(op, b, todo, <<>>)>>]
  /\ request' = [request EXCEPT ![p] = [op |-> op, of |-> of, max |-> MaxRecursionDepth, into |-> structs[p]]]
  /\ UNCHANGED <<MaxRecursionDepth, structs, reply>>

Marshal(p)   == \E v \in Values : Call(p, "Marshal", v, <<>>, v)
Unmarshal(p) == \E m \in Messages : Call(p, "Unmarshal", m, m, <<>>)

\* The client takes the answer, and zeroes the struct for the next call.
Take(p) ==
  /\ reply[p] # {}
  /\ reply' = [reply EXCEPT ![p] = {}]
  /\ request' = [request EXCEPT ![p] = NoRequest]
  /\ structs' = [structs EXCEPT ![p] = NoRequest.into]
  /\ UNCHANGED <<MaxRecursionDepth, buffer_pool, heap, stack>>

\* What the call on top returns goes to the one below, or to the client.
Deliver(p, f, hs) ==
  LET r == f.result
      n == Len(stack[p]) - 1
      g == stack[p][n]
  IN  IF Below(p) = <<>>
      THEN /\ reply' = [reply EXCEPT ![p] = {[bytes |-> r.bytes, err |-> r.err, struct |-> structs[p]]}]
           /\ stack' = [stack EXCEPT ![p] = <<>>]
           /\ heap' = hs
      ELSE /\ stack' = [stack EXCEPT ![p] =
                          [Below(p) EXCEPT ![n] = IF g.op = "Marshal" THEN g ELSE [g EXCEPT !.result.err = r.err]]]
           /\ heap' = [hs EXCEPT ![g.b] =
                         IF g.op # "Marshal" THEN @
                         ELSE IF r.err # None THEN noteError(@, r.err)
                         ELSE IF r.bytes = <<>> THEN @ ELSE Put(@, <<Custom(r.bytes)>>)]
           /\ UNCHANGED reply

-----------------------------------------------------------------------------
(* release, of the scratch buffer if there is one *)

Releasing(f) == IF f.scratch = {} THEN f.b ELSE CHOOSE b \in f.scratch : TRUE

StartRelease(p, f) == Becomes(p, [f EXCEPT !.pc = "clear"])

Clear(p) ==
  /\ stack[p] # <<>> /\ Top(p).pc = "clear"
  /\ Becomes(p, [Top(p) EXCEPT !.pc = "put"])
  /\ heap' = [heap EXCEPT ![Releasing(Top(p))] = Cleared(@)]
  /\ UNCHANGED <<MaxRecursionDepth, buffer_pool, structs, request, reply>>

\* mutant: the scratch buffer is used again after its release
WithoutScratch_Not(f) == f

WithoutScratch(f) == [f EXCEPT !.scratch = {}]

PutBack(p) ==
  /\ stack[p] # <<>> /\ Top(p).pc = "put"
  /\ buffer_pool' = buffer_pool \cup {Releasing(Top(p))}
  /\ IF Top(p).scratch # {}
     THEN /\ Becomes(p, [WithoutScratch(Top(p)) EXCEPT !.pc = "run"])
          /\ UNCHANGED <<heap, reply>>
     ELSE Deliver(p, Top(p), heap)
  /\ UNCHANGED <<MaxRecursionDepth, structs, request>>

-----------------------------------------------------------------------------
(* Marshal *)

Encoding(p, kind) == Runs(p, "Marshal") /\ Top(p).scratch = {} /\ Top(p).todo # <<>> /\ Head(Top(p).todo).kind = kind

Field(p) == Head(Top(p).todo)
Next1(p) == [Top(p) EXCEPT !.todo = Tail(@)]

EncodeNumber(p) ==
  /\ Encoding(p, "number")
  /\ Becomes(p, Next1(p))
  /\ heap' = [heap EXCEPT ![Top(p).b] = Put(@, <<Field(p)>>)]
  /\ UNCHANGED <<MaxRecursionDepth, buffer_pool, structs, request, reply>>

\* MarshalProtobuf3 of a field calls Marshal ...
EncodeMarshaler(p) ==
  /\ Encoding(p, "custom")
  /\ \E b \in Buffers : Gets(b, <<>>, heap) /\ Calls(p, Next1(p), Frame("Marshal", b, Field(p).of, <<>>))
  /\ UNCHANGED <<MaxRecursionDepth, structs, request, reply>>

\* ... or fails, and the encoder goes on with the other fields
EncodeFailing(p) ==
  /\ Encoding(p, "failing")
  /\ Becomes(p, Next1(p))
  /\ heap' = [heap EXCEPT ![Top(p).b] = noteError(@, "failed")]
  /\ UNCHANGED <<MaxRecursionDepth, buffer_pool, structs, request, reply>>

\* a slice of numbers that is not empty
StartPacked(p) ==
  /\ Encoding(p, "packed")
  /\ IF Field(p).of = <<>>
     THEN Becomes(p, Next1(p)) /\ UNCHANGED <<buffer_pool, heap>>
     ELSE \E b \in Buffers : /\ Gets(b, <<>>, heap)
                             /\ Becomes(p, [Next1(p) EXCEPT !.scratch = {b}, !.numbers = Field(p).of])
  /\ UNCHANGED <<MaxRecursionDepth, structs, request, reply>>

Packs(p) == Runs(p, "Marshal") /\ Top(p).scratch # {}

PackNumber(p) ==
  /\ Packs(p) /\ Top(p).numbers # <<>>
  /\ Becomes(p, [Top(p) EXCEPT !.numbers = Tail(@)])
  /\ heap' = [heap EXCEPT ![Releasing(Top(p))] = Put(@, <<Head(Top(p).numbers)>>)]
  /\ UNCHANGED <<MaxRecursionDepth, buffer_pool, structs, request, reply>>

AppendPacked(p) ==
  /\ Packs(p) /\ Top(p).numbers = <<>>
  /\ heap' = [heap EXCEPT ![Top(p).b] = Put(@, <<Packed(heap[Releasing(Top(p))].buf)>>)]
  /\ StartRelease(p, Top(p))
  /\ UNCHANGED <<MaxRecursionDepth, buffer_pool, structs, request, reply>>

EndMarshal(p) ==
  /\ Runs(p, "Marshal") /\ Top(p).scratch = {} /\ Top(p).todo = <<>>
  /\ LET h == heap[Top(p).b]
     IN  StartRelease(p, [Top(p) EXCEPT !.result = [bytes |-> IF h.err = None THEN h.buf ELSE <<>>, err |-> h.err]])
  /\ UNCHANGED <<MaxRecursionDepth, buffer_pool, heap, structs, request, reply>>

-----------------------------------------------------------------------------
(* Unmarshal *)

\* The call on top ends its struct.  A message within another one has narrowed the Buffer to itself.
EndStruct(p, h, err) ==
  LET f == [Top(p) EXCEPT !.result.err = err]
  IN  IF f.op = "Unmarshal"
      THEN /\ StartRelease(p, f)
           /\ heap' = [heap EXCEPT ![f.b] = h]
           /\ UNCHANGED reply
      ELSE Deliver(p, f, [heap EXCEPT ![f.b] = [h EXCEPT !.buf = f.saved.buf, !.index = f.saved.index]])

\* A depth that is too large is left as it is.
Enter(p) ==
  /\ stack[p] # <<>> /\ Top(p).pc = "enter"
  /\ LET h == [heap[Top(p).b] EXCEPT !.depth = @ + 1]
     IN  IF h.depth > h.max THEN EndStruct(p, h, "too deep")
         ELSE /\ Becomes(p, [Top(p) EXCEPT !.pc = "run"])
              /\ heap' = [heap EXCEPT ![Top(p).b] = h]
              /\ UNCHANGED reply
  /\ UNCHANGED <<MaxRecursionDepth, buffer_pool, structs, request>>

InStruct(p) == Runs(p, "Unmarshal") \/ Runs(p, "message")
AtEnd(p)    == heap[Top(p).b].index = Len(Bytes(p))
Current(p)  == Bytes(p)[heap[Top(p).b].index + 1]

Decoding(p, kind) == InStruct(p) /\ Top(p).result.err = None /\ ~AtEnd(p) /\ Current(p).kind = kind

Advanced(p) == [heap EXCEPT ![Top(p).b].index = @ + 1]

\* the next element of the array, if the struct has one that is not full
DecodeNumber(p) ==
  /\ Decoding(p, "number")
  /\ LET a == <<p, Top(p).at>>
         i == heap[Top(p).b].array_indexes[a]
     IN  IF Top(p).at \in Paths /\ i < ArrayLen
         THEN /\ structs' = [structs EXCEPT ![p][Top(p).at][i + 1] = Current(p).x]
              /\ heap' = [Advanced(p) EXCEPT ![Top(p).b].array_indexes[a] = i + 1]
         ELSE heap' = Advanced(p) /\ UNCHANGED structs
  /\ UNCHANGED <<MaxRecursionDepth, buffer_pool, stack, request, reply>>

DecodeBad(p) ==
  /\ Decoding(p, "bad")
  /\ Becomes(p, [Top(p) EXCEPT !.result.err = "bad"])
  /\ heap' = Advanced(p)
  /\ UNCHANGED <<MaxRecursionDepth, buffer_pool, structs, request, reply>>

\* The Buffer is used for the message within, too.
DecodeMessage(p) ==
  /\ Decoding(p, "message")
  /\ LET b == Top(p).b
     IN  /\ Calls(p, Top(p), [Frame("message", b, <<>>, Append(Top(p).at, "message"))
                               EXCEPT !.saved = [buf |-> Bytes(p), index |-> heap[b].index + 1]])
         /\ heap' = [heap EXCEPT ![b].buf = Current(p).of, ![b].index = 0]
  /\ UNCHANGED <<MaxRecursionDepth, buffer_pool, structs, request, reply>>

\* UnmarshalProtobuf3 of a field calls Unmarshal, with a Buffer of its own.
DecodeUnmarshaler(p) ==
  /\ Decoding(p, "custom")
  /\ \E b \in Buffers : /\ Gets(b, Current(p).of, Advanced(p))
                        /\ Calls(p, Top(p), Frame("Unmarshal", b, <<>>, Append(Top(p).at, "custom")))
  /\ UNCHANGED <<MaxRecursionDepth, structs, request, reply>>

\* So does dec_Duration.  (It advances the Buffer below at its end; nobody reads it in between.)
StartDuration(p) ==
  /\ Decoding(p, "duration")
  /\ \E b \in Buffers : Gets(b, Current(p).of, Advanced(p)) /\ Calls(p, Top(p), Frame("duration", b, <<>>, Top(p).at))
  /\ UNCHANGED <<MaxRecursionDepth, structs, request, reply>>

\* An error leaves the Buffer to the garbage collector.
DecodeDuration(p) ==
  /\ Runs(p, "duration")
  /\ IF AtEnd(p) THEN StartRelease(p, Top(p)) /\ UNCHANGED <<heap, reply>>
     ELSE IF Current(p).kind = "number" THEN heap' = Advanced(p) /\ UNCHANGED <<stack, reply>>
     ELSE Deliver(p, [Top(p) EXCEPT !.result.err = "bad"], Freed(Top(p).b))
  /\ UNCHANGED <<MaxRecursionDepth, buffer_pool, structs, request>>

Leave(p) ==
  /\ InStruct(p)
  /\ Top(p).result.err # None \/ AtEnd(p)
  /\ EndStruct(p, [heap[Top(p).b] EXCEPT !.depth = @ - 1], Top(p).result.err)
  /\ UNCHANGED <<MaxRecursionDepth, buffer_pool, structs, request>>

-----------------------------------------------------------------------------

Step(p) ==
  \/ EncodeNumber(p) \/ EncodeMarshaler(p) \/ EncodeFailing(p) \/ EndMarshal(p)
  \/ StartPacked(p) \/ PackNumber(p) \/ AppendPacked(p)
  \/ Enter(p) \/ Leave(p)
  \/ DecodeNumber(p) \/ DecodeBad(p) \/ DecodeMessage(p) \/ DecodeUnmarshaler(p)
  \/ StartDuration(p) \/ DecodeDuration(p)
  \/ Clear(p) \/ PutBack(p)

Next == (\E p \in Procs : Marshal(p) \/ Unmarshal(p) \/ Take(p) \/ Step(p)) \/ Collect \/ SetMaxRecursionDepth

Spec == Init /\ [][Next]_vars

-----------------------------------------------------------------------------

TypeOK ==
  /\ MaxRecursionDepth \in MaxDepths
  /\ buffer_pool \subseteq Buffers
  /\ \A b \in Buffers : heap[b].index \in 0..Len(heap[b].buf) /\ heap[b].depth \in Nat /\ heap[b].max \in MaxDepths \cup {0}
  /\ \A p \in Procs : InUse(p) \subseteq Buffers /\ Cardinality(reply[p]) <= 1
  /\ \A p \in Procs, at \in Paths : Len(structs[p][at]) = ArrayLen

\* No Buffer is used by two goroutines, or by two calls of one, or while it is in the pool.  Only a
\* message within another one shares the Buffer of the call below it.
Exclusive ==
  /\ \A p, q \in Procs : p # q => InUse(p) \cap InUse(q) = {}
  /\ \A p \in Procs : InUse(p) \cap buffer_pool = {}
  /\ \A p \in Procs : \A j, k \in DOMAIN stack[p] :
       /\ j < k /\ BuffersOf(stack[p][j]) \cap BuffersOf(stack[p][k]) # {} => stack[p][k].op = "message"
       /\ stack[p][j].b \notin stack[p][j].scratch

\* A Buffer in the pool holds on to no bytes and is as a new one, but for MaxRecursionDepth, which
\* newBuffer sets: nothing that a call did, whether it ended well or not, is seen by the next one.
PooledAreNew == \A b \in buffer_pool : heap[b] = NewBuffer(heap[b].max)
=============================================================================
