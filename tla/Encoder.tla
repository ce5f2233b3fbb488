---------------------------------- MODULE Encoder ----------------------------------
(***************************************************************************)
(* Marshal (encode.go): the fields of a struct in the order of their tags, *)
(* each with its encoder, which leaves out zero values, and nested messages*)
(* behind a reserved length that is put right when their end is known.  One*)
(* step encodes one field, or starts or ends a nested message; those that  *)
(* are open are frames of a stack.  Errors are noted, and the encoding goes*)
(* on.                                                                     *)
(*                                                                         *)
(* A value is what a Go value is: a struct is the sequence of its fields, a*)
(* pointer the empty set or a set with what it points to, a map the set of *)
(* its entries, each a struct of a key and a value.                        *)
(***************************************************************************)
EXTENDS Types, FiniteSets

CONSTANTS
  Roots,     \* the types that are marshaled
  Values,    \* of each type, its values
  NoValue,   \* stands for one that marshals itself
  Height,    \* of each type and value, more than of those within it
  Refused,   \* what the types that marshal themselves refuse to
  Reserved,  \* how many bytes enc_len_thing reserves for a length: {4} in the code
  MaxCalls   \* bound: the calls of Marshal

ASSUME RootsAssumption    == Roots \subseteq DOMAIN Fields
ASSUME ReservedAssumption == Reserved \subseteq Nat \ {0} /\ MaxCalls \in Nat

VARIABLES
  root,    \* the type that is marshaled
  value,   \* the value that was passed to Marshal last
  buf,     \* o.buf
  stack,   \* the structs that are being encoded
  err,     \* o.err
  result,  \* what Marshal returned
  began,   \* history: the length of o.buf when Marshal was called
  given,   \* history: the values marshaled since Reset, NoValue if one that marshals itself failed
  calls    \* how often Marshal was called

client == <<root, value, began, given, calls>>
vars   == <<client, buf, stack, err, result>>

HasNil    == "errRepeatedHasNil"
Rejected  == "error of MarshalProtobuf3"
NotCalled == "not called"

\* A struct that is being encoded: the next field; the messages that the field before it has still
\* to write; where its own tag, length and bytes start in o.buf, and whether it is left out if
\* it turns out to be empty.
Frame(type, v, iTag, iLen, iMsg, elide) ==
  [type |-> type, v |-> v, p |-> 1, todo |-> <<>>, iTag |-> iTag, iLen |-> iLen, iMsg |-> iMsg, elide |-> elide]

Idle    == stack = <<>>
F       == stack[Len(stack)]
Outer   == SubSeq(stack, 1, Len(stack) - 1)
With(f) == [stack EXCEPT ![Len(stack)] = f]

Init ==
  /\ root \in Roots
  /\ value = NoValue
  /\ buf = <<>> /\ stack = <<>> /\ err = None
  /\ result = NotCalled /\ began = 0 /\ given = {} /\ calls = 0

\* mutant: the error is returned by the field encoder, and not noted
noteError_Dropped(e) == err

\* the first error is kept
noteError(e) == IF err = None THEN e ELSE err

-----------------------------------------------------------------------------
(* the client *)

Marshal ==
  /\ Idle
  /\ calls < MaxCalls
  /\ calls' = calls + 1
  /\ value' \in Values[root]
  /\ began' = Len(buf)
  /\ given' = given \cup {value'}
  /\ stack' = <<Frame(root, value', Len(buf), Len(buf), Len(buf), FALSE)>>
  /\ result' = NotCalled
  /\ UNCHANGED <<root, buf, err>>

\* of a pb that marshals itself: its bytes are kept even with an error (which bytes does not matter)
MarshalSelf ==
  /\ Idle
  /\ calls < MaxCalls
  /\ calls' = calls + 1
  /\ value' = NoValue
  /\ began' = Len(buf)
  /\ \E data \in Refused \cup {<<>>}, e \in {None, Rejected} :
       /\ buf' = buf \o data
       /\ err' = IF e = None THEN err ELSE noteError(e)
       /\ given' = IF e = None THEN given ELSE given \cup {NoValue}
  /\ result' = err'
  /\ UNCHANGED <<root, stack>>

Reset ==
  /\ Idle
  /\ buf' = <<>> /\ err' = None
  /\ result' = NotCalled /\ given' = {} /\ began' = 0
  /\ UNCHANGED <<root, value, stack, calls>>

-----------------------------------------------------------------------------
(* field encoders: p is the field and x its value *)

\* a key is a uint32 here
tagcode(p) == EncodeVarint((8 * p.tag + p.wire) % Word32)
Raw(s)     == EncodeVarint(Len(s)) \o s
Item(p, s) == tagcode(p) \o IF p.wire = WireBytes THEN Raw(s) ELSE s

Number(p, u)  == valEnc(p.val, AsUint64(u, p.word, p.signed))
NumberBytes(p, s) == Concat([k \in 1..Len(s) |-> Number(p, s[k])])

\* the length of packed bools is their number, that of all others is counted
Packed(p, s) ==
  tagcode(p) \o EncodeVarint(IF p.word = 2 THEN Len(s) ELSE Len(NumberBytes(p, s))) \o NumberBytes(p, s)

The(x) == CHOOSE v \in x : TRUE

\* no zero value is written, except behind a pointer and in arrays
LeftOut(p, x) ==
  CASE p.dec = "number" -> x = 0
    [] p.dec \in {"ptrNumber", "ptrBytes"} -> x = {}
    [] p.dec \in {"bytes", "packed"} -> x = <<>>
    [] OTHER -> FALSE

Encoded(p, x) ==
  CASE p.dec = "number"    -> tagcode(p) \o Number(p, x)
    [] p.dec = "ptrNumber" -> tagcode(p) \o Number(p, The(x))
    [] p.dec = "ptrBytes"  -> Item(p, The(x))
    [] p.dec \in {"bytes", "byteArray"}     -> Item(p, x)
    [] p.dec \in {"strings", "stringArray"} -> Concat([k \in 1..Len(x) |-> Item(p, x[k])])
    [] p.dec \in {"packed", "packedArray"}  -> Packed(p, x)
    [] p.dec = "nothing" -> <<>>

\* the orders that the entries of a map can come in
Orders(S) == {s \in [1..Cardinality(S) -> S] : \A j, k \in 1..Cardinality(S) : j # k => s[j] # s[k]}

\* the elements that lie in a row in memory, as many bytes as they take
Places(p, x) == IF Size[p.stype] = 0 THEN {} ELSE 1..Len(x)

\* what the encoders of messages go through, as pointers; a struct that is no pointer is there
Messages(p, x) ==
  CASE p.dec \in {"struct", "custom"} -> {<<{x}>>}
    [] p.dec \in {"ptr", "ptrCustom"} -> {IF x = {} THEN <<>> ELSE <<x>>}
    [] p.dec \in {"ptrs", "ptrArray", "ptrCustoms", "ptrCustomArray"} -> {x}
    [] p.dec \in {"structs", "structArray", "customs", "customArray"} -> {[k \in Places(p, x) |-> {x[k]}]}
    [] p.dec = "map" -> Orders({{e} : e \in x})

Nested == {"struct", "ptr", "structs", "structArray", "ptrs", "ptrArray", "map"}
Custom == {"custom", "ptrCustom", "customs", "customArray", "ptrCustoms", "ptrCustomArray"}

-----------------------------------------------------------------------------
(* enc_struct *)

Working == ~Idle
More    == F.p <= Len(Fields[F.type])
P       == Fields[F.type][F.p]           \* the next field
Q       == Fields[F.type][F.p - 1]       \* the field whose messages are written

EncLeaf ==
  /\ Working /\ F.todo = <<>> /\ More
  /\ P.dec \notin Nested \cup Custom
  /\ buf' = IF LeftOut(P, F.v[F.p]) THEN buf ELSE buf \o Encoded(P, F.v[F.p])
  /\ stack' = With([F EXCEPT !.p = @ + 1])
  /\ UNCHANGED <<client, err, result>>

EncMessages ==
  /\ Working /\ F.todo = <<>> /\ More
  /\ P.dec \in Nested \cup Custom
  /\ \E list \in Messages(P, F.v[F.p]) : stack' = With([F EXCEPT !.p = @ + 1, !.todo = list])
  /\ UNCHANGED <<client, buf, err, result>>

\* an encoder that stops leaves what it has not written
Stop(f) == With([f EXCEPT !.todo = <<>>])
GoOn(f) == With([f EXCEPT !.todo = Tail(@)])

NilElement ==
  /\ Working /\ F.todo # <<>>
  /\ Head(F.todo) = {}
  /\ err' = noteError(HasNil)
  /\ stack' = Stop(F)
  /\ UNCHANGED <<client, buf, result>>

\* the tag, and room for the length
Element ==
  /\ Working /\ F.todo # <<>>
  /\ Head(F.todo) # {}
  /\ Q.dec \in Nested
  /\ \E room \in Reserved :
       LET iLen == Len(buf) + Len(tagcode(Q))
       IN  /\ buf' = buf \o tagcode(Q) \o [k \in 1..room |-> 0]
           /\ stack' = Append(GoOn(F), Frame(Q.stype, The(Head(F.todo)), Len(buf), iLen, iLen + room, Q.dec = "struct"))
  /\ UNCHANGED <<client, err, result>>

-----------------------------------------------------------------------------
(* enc_len_thing *)

Overwrite(b, at, s) == [k \in 1..Len(b) |-> IF k \in (at + 1)..(at + Len(s)) THEN s[k - at] ELSE b[k]]

\* The bytes from iMsg on move to where they belong behind their length, which is written at
\* iLen.  Both may need more room than there is.
WithLength(b, iLen, iMsg) ==
  LET lMsg  == Len(b) - iMsg
      lLen  == SizeVarint(lMsg)
      moved == Overwrite(b \o [k \in 1..VarintLen |-> 0], iLen + lLen, SubSeq(b, iMsg + 1, Len(b)))
  IN  SubSeq(Overwrite(moved, iLen, EncodeVarint(lMsg)), 1, iLen + Len(EncodeVarint(lMsg)) + lMsg)

\* mutant: the tag of an empty struct stays
Elided_Tag(f, b) == IF f.elide /\ Len(b) = f.iLen + 1 /\ Byte(b, f.iLen) = 0 THEN SubSeq(b, 1, f.iLen) ELSE b

\* an embedded struct of no bytes is left out
Elided(f, b) == IF f.elide /\ Len(b) = f.iLen + 1 /\ Byte(b, f.iLen) = 0 THEN SubSeq(b, 1, f.iTag) ELSE b

MessageDone ==
  /\ Working /\ F.todo = <<>> /\ ~More
  /\ Len(stack) > 1
  /\ buf' = Elided(F, WithLength(buf, F.iLen, F.iMsg))
  /\ stack' = Outer
  /\ UNCHANGED <<client, err, result>>

MarshalReturns ==
  /\ Working /\ F.todo = <<>> /\ ~More
  /\ Len(stack) = 1
  /\ stack' = Outer
  /\ result' = err
  /\ UNCHANGED <<client, buf, err>>

-----------------------------------------------------------------------------
(* types that marshal themselves: in slices and arrays each one is written, elsewhere none that has *)
(* no bytes, but that a Marshaler has the choice                                                    *)

CustomElement == Working /\ F.todo # <<>> /\ Head(F.todo) # {} /\ Q.dec \in Custom
Must == Q.dec \notin {"custom", "ptrCustom"}
Payload == The(Head(F.todo))

MarshalerElement ==
  /\ CustomElement
  /\ ~Q.appends
  /\ Payload \notin Refused
  /\ buf' \in {buf \o Item(Q, Payload)} \cup IF Payload = <<>> /\ ~Must THEN {buf} ELSE {}
  /\ stack' = GoOn(F)
  /\ UNCHANGED <<client, err, result>>

MarshalerFails ==
  /\ CustomElement
  /\ ~Q.appends
  /\ Payload \in Refused
  /\ err' = noteError(Rejected)
  /\ stack' = Stop(F)
  /\ UNCHANGED <<client, buf, result>>

\* an Appender writes behind the tag, and one byte for the length
Started == buf \o tagcode(Q) \o IF Q.wire = WireBytes THEN <<0>> ELSE <<>>

AppenderElement ==
  /\ CustomElement
  /\ Q.appends
  /\ Payload \notin Refused
  /\ LET written == Started \o Payload
     IN  buf' = IF Payload = <<>> /\ ~Must THEN buf
                ELSE IF Q.wire = WireBytes THEN WithLength(written, Len(Started) - 1, Len(Started)) ELSE written
  /\ stack' = GoOn(F)
  /\ UNCHANGED <<client, err, result>>

\* the rest of a slice is written all the same
AppenderFails ==
  /\ CustomElement
  /\ Q.appends
  /\ Payload \in Refused
  /\ buf' = Started
  /\ err' = noteError(Rejected)
  /\ stack' = IF Q.dec = "customs" THEN GoOn(F) ELSE Stop(F)
  /\ UNCHANGED <<client, result>>

-----------------------------------------------------------------------------

enc_struct == EncLeaf \/ EncMessages \/ NilElement \/ Element \/ MessageDone \/ MarshalReturns
enc_custom == MarshalerElement \/ MarshalerFails \/ AppenderElement \/ AppenderFails

Next == Marshal \/ MarshalSelf \/ Reset \/ enc_struct \/ enc_custom

Spec == Init /\ [][Next]_vars

-----------------------------------------------------------------------------
(* The values of a type: what Go's type system allows.  A length is an int. *)

IsPointer(x, S) == \A e \in x : x = {e} /\ e \in S
Pointers == {"ptrNumber", "ptrBytes", "ptrCustom", "ptr"}
Texts == {s \in Seq(Bytes) : Len(s) < Word}

\* what the values in a field of this kind are
Kept(p) ==
  CASE p.dec \in {"number", "ptrNumber", "packed", "packedArray"} -> 0..(p.word - 1)
    [] p.dec \in Nested -> Values[p.stype]
    [] OTHER -> Texts

IsValue(p, x) ==
  CASE p.dec \in {"number", "bytes", "byteArray", "custom", "struct"} -> x \in Kept(p)
    [] p.dec \in Pointers -> IsPointer(x, Kept(p))
    [] p.dec = "map" -> IsFiniteSet(x) /\ x \subseteq Kept(p)
    [] p.dec \in {"packed", "packedArray"} -> x \in Seq(Kept(p)) /\ Len(x) < Word /\ Len(NumberBytes(p, x)) < Word
    [] p.dec \in {"strings", "stringArray", "customs", "customArray", "structs", "structArray"} -> x \in Seq(Kept(p))
    [] p.dec \in {"ptrs", "ptrArray", "ptrCustoms", "ptrCustomArray"} ->
         x \in Seq(SUBSET Kept(p)) /\ \A k \in 1..Len(x) : IsPointer(x[k], Kept(p))
    [] OTHER -> TRUE

\* the structs in a field that Marshal gets to
Within(p, x) ==
  CASE p.dec = "struct" -> {x}
    [] p.dec \in {"ptr", "map"} -> x
    [] p.dec \in {"structs", "structArray"} -> {x[k] : k \in Places(p, x)}
    [] p.dec \in {"ptrs", "ptrArray"} -> UNION {x[k] : k \in 1..Len(x)}
    [] OTHER -> {}

ASSUME ValuesAssumption ==
  /\ \A t \in DOMAIN Fields : \A v \in Values[t] : \A k \in FieldsOf(t) :
       /\ IsValue(Fields[t][k], v[k])
       \* Marshal of a value that holds itself would never end
       /\ \A w \in Within(Fields[t][k], v[k]) : Height[Fields[t][k].stype][w] < Height[t][v]
  /\ \A t \in DOMAIN Fields : NoValue \notin Values[t] /\ \A v \in Values[t] : Height[t][v] \in Nat
  /\ Refused \subseteq Texts

-----------------------------------------------------------------------------
(* Properties *)

\* the payloads of types that marshal themselves, and the pointers that should not be nil
Payloads(p, x) ==
  CASE p.dec = "custom"    -> {x}
    [] p.dec = "ptrCustom" -> x
    [] p.dec \in {"customs", "customArray"}       -> {x[k] : k \in Places(p, x)}
    [] p.dec \in {"ptrCustoms", "ptrCustomArray"} -> UNION {x[k] : k \in 1..Len(x)}
    [] OTHER -> {}

PointersIn(p, x) == IF p.dec \in {"ptrs", "ptrArray", "ptrCustoms", "ptrCustomArray"} THEN {x[k] : k \in 1..Len(x)} ELSE {}

\* the errors of a field's own: what types refuse, and nil pointers where elements should be
Refusal(payloads) == IF payloads \cap Refused # {} THEN {Rejected} ELSE {}
Nils(pointers)    == IF {} \in pointers THEN {HasNil} ELSE {}
OwnErrors(p, x)   == Refusal(Payloads(p, x)) \cup Nils(PointersIn(p, x))

\* a struct of a type, with all that is within it
Structs == UNION {{<<t, v>> : v \in Values[t]} : t \in DOMAIN Fields}

\* the errors that come up in a value, at any depth
Errors[w \in Structs] ==
  UNION {LET p == Fields[w[1]][k]
         IN  OwnErrors(p, w[2][k]) \cup UNION {Errors[<<p.stype, x>>] : x \in Within(p, w[2][k])}
           : k \in FieldsOf(w[1])}

ErrorsOf(v) == IF v = NoValue THEN {Rejected} ELSE Errors[<<root, v>>]

Returned == Idle /\ result # NotCalled

\* An error that comes up anywhere in a value reaches the caller of Marshal, and of every later
\* Marshal into the same Buffer until it is reset; what is reported has come up, and nothing is
\* when there is no reason for it.
ReportsErrors ==
  Returned => IF result = None THEN \A v \in given : ErrorsOf(v) = {}
                               ELSE \E v \in given : result \in ErrorsOf(v)

\* The buffer holds bytes, and the tag, the length and the content of each open message lie in it
\* in this order, each message in the content of the one before.
TypeOK ==
  /\ root \in Roots
  /\ value \in Values[root] \cup {NoValue}
  /\ buf \in Seq(Bytes)
  /\ \A k \in 1..Len(stack) :
       LET f == stack[k]
       IN  /\ f.type \in DOMAIN Fields
           /\ f.p \in 1..(Len(Fields[f.type]) + 1)
           /\ f.iTag <= f.iLen /\ f.iLen <= f.iMsg
           /\ f.iMsg <= IF k = Len(stack) THEN Len(buf) ELSE stack[k + 1].iTag
  /\ err \in {None, HasNil, Rejected}
  /\ calls \in 0..MaxCalls
=============================================================================
