---------------------------------- MODULE Decoder ----------------------------------
(***************************************************************************)
(* Unmarshal (decode.go): the loop of unmarshal_struct over the items of a *)
(* message, with its remembered search for the field of a key, and the     *)
(* field decoders, which call it again for nested messages and swap the    *)
(* Buffer's bytes for those of the nested one meanwhile.  One step decodes *)
(* one item, or starts or ends a nested call; the calls in progress are    *)
(* frames of a stack.                                                      *)
(*                                                                         *)
(* The bytes of a nested message are a slice of the same memory: o.buf is  *)
(* msg up to lim, and a position counts from the start of msg.  Memory is  *)
(* a function from addresses (an object and an offset) to what a field     *)
(* holds; an address it lacks holds the zero value, and so does a pointer  *)
(* to a number or a string that is nil.                                    *)
(***************************************************************************)
EXTENDS Types

CONSTANTS
  Roots,     \* the types that are unmarshaled
  Messages,  \* for each type in Roots, the byte strings
  MaxDepth,  \* MaxRecursionDepth
  MaxCalls   \* bound: the calls of Unmarshal

ASSUME RootsAssumption == Roots \subseteq DOMAIN Fields
\* no slice is longer than an int can say
ASSUME MessagesAssumption ==
  \A t \in Roots : Messages[t] \subseteq Seq(Bytes) /\ \A s \in Messages[t] : Len(s) < Word
ASSUME DepthAssumption == MaxDepth \in Nat /\ MaxCalls \in Nat

VARIABLES
  root,    \* the type of *pb
  msg,     \* the bytes the Buffer was made of
  lim,     \* the end of o.buf
  index,   \* o.index
  depth,   \* o.recursion_depth
  filled,  \* o.array_indexes
  stack,   \* the calls of unmarshal_struct, dec_new_map and the packed decoders in progress
  err,     \* the error that is being returned
  mem,     \* the memory of *pb and of what it points to
  objs,    \* the objects allocated so far
  result,  \* what Unmarshal returned
  began,   \* history: how the last call of Unmarshal began
  calls    \* how often Unmarshal was called

buffer == <<lim, index, depth, filled>>
memory == <<mem, objs>>
vars == <<root, msg, buffer, stack, err, memory, result, began, calls>>

TooDeep   == "reached MaxRecursionDepth"
BadTag    == "illegal tag"
BadType   == "bad wiretype"
BadMap    == "bad map data tag"
Rejected  == "error of UnmarshalProtobuf3"
NotCalled == "not called"

Buf == SubSeq(msg, 1, lim)

\* what is at an address, zero if nothing was stored there
Get(a, zero) == IF a \in DOMAIN mem THEN mem[a] ELSE zero
Put(a, v)    == [x \in DOMAIN mem \cup {a} |-> IF x = a THEN v ELSE mem[x]]

Filled(a)      == IF a \in DOMAIN filled THEN filled[a] ELSE 0
saveIndex(a, k) == [x \in DOMAIN filled \cup {a} |-> IF x = a THEN k ELSE filled[x]]

Empty == [x \in {} |-> 0]
Pb    == <<0, 0>>
New   == <<objs, 0>>  \* a new object

Slot(a, k, size) == <<a[1], a[2] + k * size>>

\* A call in progress: what it decodes into, from field p of its caller; the end of a map entry
\* or of packed numbers, and how many of these there are; the remembered search (pidx counts
\* from 1); obuf and oi, for the caller; the slot of an array that it fills.
Frame(kind, type, base, end, oindex, slot) ==
  [kind |-> kind, type |-> type, base |-> base, end |-> end, pidx |-> 1, ptag |-> -1, p |-> 0,
   y |-> <<>>, olim |-> lim, oindex |-> oindex, slot |-> slot]

Idle   == stack = <<>>
F      == stack[Len(stack)]
Outer  == SubSeq(stack, 1, Len(stack) - 1)
With(f) == [stack EXCEPT ![Len(stack)] = f]

Init ==
  /\ root \in Roots
  /\ msg \in Messages[root]
  /\ lim = Len(msg) /\ index = 0 /\ depth = 0 /\ filled = Empty
  /\ stack = <<>> /\ err = None
  /\ mem = Empty /\ objs = 1
  /\ result = NotCalled
  /\ began = [at |-> 0, depth |-> 0, fresh |-> TRUE, zeroed |-> TRUE]
  /\ calls = 0

-----------------------------------------------------------------------------
(* the client; at the end only Rewind is left to it *)

Client == Idle /\ calls < MaxCalls

Unmarshal ==
  /\ Client
  /\ calls' = calls + 1
  /\ result' = NotCalled
  /\ began' = [at |-> index, depth |-> depth, fresh |-> filled = Empty, zeroed |-> mem = Empty]
  /\ stack' = <<Frame("struct", root, Pb, 0, index, 0)>>
  /\ depth' = depth + 1
  /\ UNCHANGED <<root, msg, lim, index, filled, err, memory>>

\* of a pb that unmarshals itself: it gets the rest of the buffer, and returns what it likes
UnmarshalSelf ==
  /\ Client
  /\ index' = lim /\ result' = NotCalled
  /\ UNCHANGED <<root, msg, lim, depth, filled, stack, err, memory, began, calls>>

\* *pb = T{}
Zero ==
  /\ Client
  /\ mem' = Empty /\ result' = NotCalled
  /\ UNCHANGED <<root, msg, buffer, stack, err, objs, began, calls>>

Rewind ==
  /\ Idle
  /\ index' = 0 /\ depth' = 0
  /\ UNCHANGED <<root, msg, lim, filled, stack, err, memory, result, began, calls>>

NewBuffer ==
  /\ Client
  /\ index' = 0 /\ depth' = 0 /\ filled' = Empty
  /\ UNCHANGED <<root, msg, lim, stack, err, memory, result, began, calls>>

-----------------------------------------------------------------------------
(* field decoders; i is the position after the key, f the frame with the field found *)

P(f)  == Fields[f.type][f.p]
At(f) == <<f.base[1], f.base[2] + P(f).at>>

Payload(raw) == SubSeq(msg, raw.x + 1, raw.index)

\* The value of an item, for those who decode it themselves.  Where a length is cut short the
\* position differs from what skip leaves.
get(i, wire) ==
  IF wire # WireBytes THEN LET v == skip(Buf, i, wire) IN [v EXCEPT !.x = i]
  ELSE LET n == DecodeVarint(Buf, i)
           v == SkipFixed(Buf, n.index, n.x)
       IN  IF n.err # None THEN n ELSE [v EXCEPT !.x = n.index]

\* The field decoder has read r, and is done.
Took(f, r) ==
  /\ stack' = With(f)
  /\ index' = r.index
  /\ err' = r.err
  /\ UNCHANGED <<lim, depth, objs>>

Store(a, v, ok) == mem' = IF ok THEN Put(a, v) ELSE mem

\* every integer type, bool and float, and pointers to them
DecNumber(f, i) ==
  LET u == valDec(P(f).val, Buf, i)
  IN  /\ P(f).dec \in {"number", "ptrNumber"}
      /\ Took(f, u)
      /\ Store(At(f), Stored(u.x, P(f).word), u.err = None)
      /\ UNCHANGED filled

\* string, *string and []byte
DecBytes(f, i) ==
  LET raw == DecodeRawBytes(Buf, i)
  IN  /\ P(f).dec \in {"bytes", "ptrBytes"}
      /\ Took(f, raw)
      /\ Store(At(f), Payload(raw), raw.err = None)
      /\ UNCHANGED filled

\* [N]byte: what does not fit is dropped, and the next value starts over
DecByteArray(f, i) ==
  LET raw == DecodeRawBytes(Buf, i)
      Into(k) == Slot(At(f), k - 1, 1)
      copied  == {k \in 1..Len(Payload(raw)) : k <= P(f).len}
  IN  /\ P(f).dec = "byteArray"
      /\ Took(f, raw)
      /\ mem' = IF raw.err # None THEN mem
                ELSE [x \in DOMAIN mem \cup {Into(k) : k \in copied} |->
                        IF \E k \in copied : x = Into(k)
                        THEN Payload(raw)[CHOOSE k \in copied : x = Into(k)] ELSE mem[x]]
      /\ UNCHANGED filled

\* []string and [][]byte
DecStrings(f, i) ==
  LET raw == DecodeRawBytes(Buf, i)
  IN  /\ P(f).dec = "strings"
      /\ Took(f, raw)
      /\ Store(At(f), Append(Get(At(f), <<>>), Payload(raw)), raw.err = None)
      /\ UNCHANGED filled

\* [N]string: what does not fit is dropped
DecStringArray(f, i) ==
  LET raw == DecodeRawBytes(Buf, i)
      k   == Filled(At(f))
      ok  == raw.err = None /\ k < P(f).len
  IN  /\ P(f).dec = "stringArray"
      /\ Took(f, raw)
      /\ Store(Slot(At(f), k, 1), Payload(raw), ok)
      /\ filled' = IF ok THEN saveIndex(At(f), k + 1) ELSE filled

\* Types that unmarshal themselves may have no use for the bytes; with e they return an error.
\* An element of a slice or an array counts even so, a pointer to one does not.
DecCustom(f, i) ==
  LET v == get(i, P(f).wire)
      k == Filled(At(f))
      room  == v.err = None /\ (P(f).dec = "customArray" => k < P(f).len)
      list  == Get(At(f), <<>>)
  IN  \E e \in {None, Rejected} :
        /\ e = Rejected => room
        /\ Took(f, [v EXCEPT !.err = IF v.err = None THEN e ELSE v.err])
        /\ \/ /\ P(f).dec \in {"custom", "ptrCustom"}
              /\ Store(At(f), Payload(v), room /\ e = None)
              /\ UNCHANGED filled
           \/ /\ P(f).dec = "customs"
              /\ Store(At(f), Append(list, IF e = None THEN Payload(v) ELSE <<>>), room)
              /\ UNCHANGED filled
           \/ /\ P(f).dec = "customArray"
              /\ Store(Slot(At(f), k, 1), Payload(v), room /\ e = None)
              /\ filled' = IF room THEN saveIndex(At(f), k + 1) ELSE filled
           \/ /\ P(f).dec = "ptrCustoms"
              /\ Store(At(f), Append(list, Payload(v)), room /\ e = None)
              /\ UNCHANGED filled
           \/ /\ P(f).dec = "ptrCustomArray"
              /\ LET fits == room /\ e = None /\ k < P(f).len
                 IN  /\ Store(Slot(At(f), k, 1), Payload(v), fits)
                     /\ filled' = IF fits THEN saveIndex(At(f), k + 1) ELSE filled

\* [0]T
DecNothing(f, i) == P(f).dec = "nothing" /\ Took(f, Read(0, i)) /\ UNCHANGED <<mem, filled>>

DecLeaf(f, i) ==
  \/ DecNumber(f, i) \/ DecBytes(f, i) \/ DecByteArray(f, i)
  \/ DecStrings(f, i) \/ DecStringArray(f, i) \/ DecCustom(f, i) \/ DecNothing(f, i)

\* The bytes of packed numbers, or of nested messages, are read first; an error there is the
\* field decoder's.
DecFails(f, r) == r.err # None /\ Took(f, r) /\ UNCHANGED <<mem, filled>>

\* mutant: the end is not compared with that of the buffer
PackedBytes_Unbounded(n) ==
  LET end == (n.index + n.x) % Word
  IN  IF n.err # None THEN n ELSE IF end < n.index THEN Fail(Overflow, n.index) ELSE Read(end, n.index)

\* n, the length of packed numbers, and where they end in the buffer
PackedBytes(n) ==
  LET end == (n.index + n.x) % Word
  IN  IF n.err # None THEN n
      ELSE IF end \in n.index..lim THEN Read(end, n.index)
      ELSE Fail(IF end < n.index THEN Overflow ELSE EOF, n.index)

\* the loop of a packed decoder
DecPacked(f, i) ==
  LET r == PackedBytes(DecodeVarint(Buf, i))
  IN  /\ P(f).dec \in {"packed", "packedArray"}
      /\ \/ DecFails(f, r)
         \/ /\ r.err = None
            /\ stack' = Append(With(f), Frame("packed", f.type, At(f), r.x, 0, 0))
            /\ index' = r.index
            /\ UNCHANGED <<lim, depth, err, memory, filled>>

\* Unmarshal_struct is called for the type at base, over the bytes that were read.
Enter(f, raw, base, slot) ==
  /\ stack' = Append(With(f), Frame("struct", P(f).stype, base, 0, raw.index, slot))
  /\ lim' = raw.index
  /\ index' = raw.x
  /\ depth' = depth + 1
  /\ UNCHANGED <<err, filled>>

\* an embedded struct, and a pointer to one: decoded again if it is there
DecStruct(f, raw) ==
  /\ P(f).dec = "struct"
  /\ Enter(f, raw, At(f), 0)
  /\ UNCHANGED memory

DecPtr(f, raw) ==
  LET there == At(f) \in DOMAIN mem
  IN  /\ P(f).dec = "ptr"
      /\ Enter(f, raw, IF there THEN mem[At(f)] ELSE New, 0)
      /\ mem' = IF there THEN mem ELSE Put(At(f), New)
      /\ objs' = IF there THEN objs ELSE objs + 1

\* []T: an element is appended, then decoded
DecStructs(f, raw) ==
  /\ P(f).dec = "structs"
  /\ Enter(f, raw, New, 0)
  /\ mem' = Put(At(f), Append(Get(At(f), <<>>), New))
  /\ objs' = objs + 1

\* [N]T: the next slot is looked up before its element is decoded, and saved after
DecStructArray(f, raw) ==
  LET k == Filled(At(f))
  IN  /\ P(f).dec = "structArray"
      /\ UNCHANGED memory
      /\ \/ k < P(f).len /\ Enter(f, raw, Slot(At(f), k, Size[P(f).stype]), k)
         \/ k >= P(f).len /\ Took(f, raw) /\ UNCHANGED filled

\* []*T and [N]*T: a new struct is decoded, then stored
DecPtrs(f, raw) ==
  /\ P(f).dec \in {"ptrs", "ptrArray"}
  /\ Enter(f, raw, New, 0)
  /\ objs' = objs + 1
  /\ UNCHANGED mem

DecMessage(f, i) ==
  LET raw == DecodeRawBytes(Buf, i)
  IN  /\ P(f).dec \in {"struct", "ptr", "structs", "structArray", "ptrs", "ptrArray"}
      /\ \/ DecFails(f, raw)
         \/ /\ raw.err = None
            /\ \/ DecStruct(f, raw) \/ DecPtr(f, raw) \/ DecStructs(f, raw)
               \/ DecStructArray(f, raw) \/ DecPtrs(f, raw)

\* A map entry is read from the same o.buf, for as long as the position is before its end; the
\* key and the value are new objects.
DecMap(f, i) ==
  LET raw  == DecodeRawBytes(Buf, i)
      fail == IF depth + 1 > MaxDepth THEN Fail(TooDeep, i) ELSE raw
  IN  /\ P(f).dec = "map"
      /\ depth' = depth + 1
      /\ UNCHANGED <<lim, filled, mem>>
      /\ \/ /\ fail.err # None
            /\ stack' = With(f) /\ index' = fail.index /\ err' = fail.err
            /\ UNCHANGED objs
         \/ /\ fail.err = None
            /\ stack' = Append(With(f), Frame("map", P(f).stype, New, raw.index, 0, 0))
            /\ index' = raw.x
            /\ objs' = objs + 1
            /\ UNCHANGED err

DecField(f, i) == DecLeaf(f, i) \/ DecPacked(f, i) \/ DecMessage(f, i) \/ DecMap(f, i)

-----------------------------------------------------------------------------
(* unmarshal_struct *)

Looping == ~Idle /\ F.kind = "struct" /\ err = None /\ depth <= MaxDepth /\ index < lim

\* the key, read in place as far as it has 1 or 2 bytes
Key     == RawLength(Buf, index)
Tag     == KeyId(Key.x)
Illegal == ~ShortLength(Buf, index) /\ Tag = 0

\* mutant: the search never goes back
Restart_Never(f, tag) == f.pidx

\* the order on the wire has jumped back: search from the start
Restart(f, tag) == IF tag < f.ptag THEN 1 ELSE f.pidx

\* The field with this tag, truncated to a uint32 for the comparison; the last search is
\* remembered.
Search(f, tag) ==
  LET props == Fields[f.type]
      ahead == {k \in FieldsOf(f.type) : k >= Restart(f, tag) /\ props[k].tag >= tag % Word32}
      pidx  == IF ahead = {} THEN Len(props) + 1 ELSE CHOOSE k \in ahead : \A j \in ahead : k <= j
      p     == IF ahead # {} /\ props[pidx].tag = tag % Word32 THEN pidx ELSE 0
  IN  IF tag = f.ptag THEN f ELSE [f EXCEPT !.pidx = pidx, !.ptag = tag, !.p = p]

Found == Search(F, Tag)

KeyFails ==
  /\ Looping
  /\ Key.err # None
  /\ err' = Key.err /\ index' = Key.index
  /\ UNCHANGED <<root, msg, lim, depth, filled, stack, memory, result, began, calls>>

Known == Looping /\ Key.err = None /\ ~Illegal

SkipItem ==
  /\ Known
  /\ Found.p = 0
  /\ Took(Found, skip(Buf, Key.index, KeyWire(Key.x)))
  /\ UNCHANGED <<root, msg, filled, mem, result, began, calls>>

WrongType ==
  /\ Known
  /\ Found.p # 0
  /\ KeyWire(Key.x) # P(Found).wire
  /\ Took(Found, Fail(BadType, Key.index))
  /\ UNCHANGED <<root, msg, filled, mem, result, began, calls>>

FieldItem ==
  /\ Known
  /\ Found.p # 0
  /\ KeyWire(Key.x) = P(Found).wire
  /\ DecField(Found, Key.index)
  /\ UNCHANGED <<root, msg, result, began, calls>>

\* mutant: an error leaves the bytes of the nested message in place
obuf_Lost(e) == IF e = None THEN F.olim ELSE lim

\* the caller's bytes, whether e is an error or not
obuf(e) == F.olim

\* mutant: the index is looked up again after the element has been decoded
NextSlot_Again(a) == Filled(a) + 1

NextSlot(a) == F.slot + 1

\* mutant: a call that is over still counts
Undone_Never(d) == d

\* recursion_depth--
Undone(d) == d - 1

\* unmarshal_struct returns e, and leaves recursion_depth at d.  The caller puts its bytes back
\* and stores what has been decoded.
Return(e, d) ==
  /\ depth' = d
  /\ stack' = Outer
  /\ UNCHANGED <<root, msg, objs, began, calls>>
  /\ \/ /\ Outer = <<>>
        /\ result' = e
        /\ err' = None
        /\ UNCHANGED <<lim, index, filled, mem>>
     \/ /\ Outer # <<>>
        /\ err' = e
        /\ lim' = obuf(e) /\ index' = F.oindex
        /\ UNCHANGED result
        /\ LET f == Outer[Len(Outer)]
               a == At(f)
               k == Filled(a)
               fits == e = None /\ k < P(f).len
           IN  CASE P(f).dec = "structArray" -> filled' = saveIndex(a, NextSlot(a)) /\ UNCHANGED mem
                 [] P(f).dec = "ptrs" -> Store(a, Append(Get(a, <<>>), F.base), e = None) /\ UNCHANGED filled
                 [] P(f).dec = "ptrArray" ->
                      /\ Store(Slot(a, k, 1), F.base, fits)
                      /\ filled' = IF fits THEN saveIndex(a, k + 1) ELSE filled
                 [] OTHER -> UNCHANGED <<filled, mem>>

\* here recursion_depth stays
DepthReached == ~Idle /\ F.kind = "struct" /\ err = None /\ depth > MaxDepth /\ Return(TooDeep, depth)

IllegalTag == Looping /\ Key.err = None /\ Illegal /\ Return(BadTag, depth)

Returns ==
  /\ ~Idle /\ F.kind = "struct"
  /\ err # None \/ (depth <= MaxDepth /\ index >= lim)
  /\ Return(err, Undone(depth))

unmarshal_struct ==
  KeyFails \/ SkipItem \/ WrongType \/ FieldItem \/ DepthReached \/ IllegalTag \/ Returns

-----------------------------------------------------------------------------
(* dec_new_map *)

InMap == ~Idle /\ F.kind = "map" /\ err = None

\* the first byte of the tagcode; there is no other, as the tags are 1 and 2
TagCode(p) == 8 * p.tag + p.wire
EntryField == {k \in FieldsOf(F.type) : TagCode(Fields[F.type][k]) = Byte(Buf, index)}

MapField ==
  /\ InMap
  /\ index < F.end
  /\ \E k \in EntryField : DecField([F EXCEPT !.p = k], index + 1)
  /\ UNCHANGED <<root, msg, result, began, calls>>

MapBadTag ==
  /\ InMap
  /\ index < F.end
  /\ EntryField = {}
  /\ err' = BadMap /\ index' = index + 1
  /\ UNCHANGED <<root, msg, lim, depth, filled, stack, memory, result, began, calls>>

\* the entry with the same key goes
MapKey(o)  == Get(<<o, Fields[F.type][1].at>>, 0)
SetMapIndex(entries, o) == {x \in entries : MapKey(x) # MapKey(o)} \cup {o}

MapDone ==
  /\ InMap
  /\ index >= F.end
  /\ stack' = Outer
  /\ depth' = Undone(depth)
  /\ LET a == At(Outer[Len(Outer)]) IN mem' = Put(a, SetMapIndex(Get(a, {}), F.base[1]))
  /\ UNCHANGED <<root, msg, lim, index, filled, err, objs, result, began, calls>>

MapFails ==
  /\ ~Idle /\ F.kind = "map" /\ err # None
  /\ stack' = Outer
  /\ UNCHANGED <<root, msg, buffer, err, memory, result, began, calls>>

dec_new_map == MapField \/ MapBadTag \/ MapDone \/ MapFails

-----------------------------------------------------------------------------
(* the loop of the packed decoders *)

InPacked == ~Idle /\ F.kind = "packed"
PackedP  == P(Outer[Len(Outer)])

PackedNumber ==
  /\ InPacked
  /\ index < F.end
  /\ LET u == valDec(PackedP.val, Buf, index)
         x == Stored(u.x, PackedP.word)
         into == u.err = None /\ PackedP.dec = "packedArray" /\ Len(F.y) < PackedP.len
     IN  /\ index' = u.index
         /\ stack' = IF u.err = None THEN With([F EXCEPT !.y = Append(@, x)]) ELSE Outer
         /\ err' = u.err
         /\ Store(Slot(F.base, Len(F.y), 1), x, into)
  /\ UNCHANGED <<root, msg, lim, depth, filled, objs, result, began, calls>>

\* a slice grows, and is set when all has been decoded
PackedDone ==
  /\ InPacked
  /\ index >= F.end
  /\ stack' = Outer
  /\ Store(F.base, Get(F.base, <<>>) \o F.y, PackedP.dec = "packed")
  /\ UNCHANGED <<root, msg, buffer, err, objs, result, began, calls>>

packed == PackedNumber \/ PackedDone

Step == unmarshal_struct \/ dec_new_map \/ packed

Next == Unmarshal \/ UnmarshalSelf \/ Zero \/ Rewind \/ NewBuffer \/ Step

Spec == Init /\ [][Next]_vars

-----------------------------------------------------------------------------
(* Properties *)

Positions == 0..Len(msg)

FrameOK(f) ==
  /\ DOMAIN f = {"kind", "type", "base", "end", "pidx", "ptag", "p", "y", "olim", "oindex", "slot"}
  /\ f.kind \in {"struct", "map", "packed"}
  /\ f.type \in DOMAIN Fields
  /\ f.p \in 0..Len(Fields[f.type])
  /\ f.pidx \in Nat \ {0}
  /\ f.ptag \in Nat \cup {-1}
  /\ {f.end, f.olim, f.oindex} \subseteq Positions

\* The read position stays in the bytes of the message that is being decoded, in every nested
\* call, whatever they are.
TypeOK ==
  /\ root \in Roots
  /\ msg \in Seq(Bytes) /\ Len(msg) < Word
  /\ lim \in Positions
  /\ index \in 0..lim
  /\ depth \in Nat
  /\ stack \in Seq({stack[k] : k \in 1..Len(stack)})
  /\ \A k \in 1..Len(stack) : FrameOK(stack[k])
  /\ objs \in Nat
  /\ calls \in 0..MaxCalls

\* The search that goes on from where the last one ended, back to the start only when ids jump
\* back, finds what a search of all fields finds: the field of this tag or that there is none.
SearchFinds ==
  \A k \in 1..Len(stack) :
    LET f == stack[k]
    IN  (f.kind = "struct" /\ f.ptag \in 0..(Word32 - 1)) =>
          \A j \in FieldsOf(f.type) : (Fields[f.type][j].tag = f.ptag) <=> (j = f.p)

\* the end of the bytes of the k-th call
End(k) == IF k = Len(stack) THEN lim ELSE stack[k + 1].olim

\* A nested message ends where its caller goes on, which is within the caller's own bytes: the
\* swapped bytes and position are put back on every path.  Map entries and packed numbers are
\* read from the caller's bytes, and end in them.
MessagesNest ==
  /\ Idle => lim = Len(msg)
  /\ \A k \in 1..Len(stack) :
       LET f == stack[k]
       IN  CASE k = 1 -> f.kind = "struct" /\ End(k) = Len(msg)
             [] k > 1 /\ f.kind = "struct" -> f.oindex = End(k) /\ End(k) <= f.olim
             [] OTHER -> f.olim = End(k) /\ f.end <= End(k)

\* the calls that count: all but a packed decoder's
Calling == Len(stack) - (IF F.kind = "packed" THEN 1 ELSE 0)

\* recursion_depth counts the nested calls; only errors leave it too high.
DepthCounts ==
  /\ ~Idle => depth >= began.depth + Calling /\ Calling <= MaxDepth + 1
  /\ ~Idle /\ err = None => depth = began.depth + Calling
  /\ Idle /\ result = None => depth <= began.depth

\* Every step of a call reads on, or ends a nested call, or fails: Unmarshal returns after at most
\* so many steps, also where a corrupt length wraps around, and never reads a byte twice.
ReadsOn ==
  (~Idle /\ ~Idle') =>
    \/ index' > index
    \/ index' = index /\ Len(stack') < Len(stack)
    \/ index' = index /\ err = None /\ err' # None

UnmarshalEnds == [][ReadsOn]_vars
=============================================================================
