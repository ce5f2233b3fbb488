------------------------------ MODULE ProtoMeaning ------------------------------
(***************************************************************************)
(* What a reader of protobuf sees in a message, going by the declaration of*)
(* a field in a .proto file alone (reference for FieldCodecs): the number  *)
(* of the field, its label and the name of its type.  Values are integers  *)
(* with their sign, byte strings, sequences of these, and for Timestamp and*)
(* Duration nanoseconds.  Floating-point numbers are the bits they have.   *)
(***************************************************************************)
EXTENDS MessageGrammar

CONSTANTS Word, Word32, Second

\* the wire type of each type
TypeWire(name) ==
  CASE name \in {"int32", "int64", "uint32", "uint64", "sint32", "sint64", "bool"} -> 0
    [] name \in {"fixed32", "sfixed32", "float"}  -> 5
    [] name \in {"fixed64", "sfixed64", "double"} -> 1
    [] name \in {"string", "bytes", "google.protobuf.Timestamp", "google.protobuf.Duration"} -> 2

IsPackable(name) == TypeWire(name) # 2

RECURSIVE Fixed(_)
Fixed(s) == IF s = <<>> THEN 0 ELSE s[1] + 256 * Fixed(Tail(s))

TwosComplement(u, word) == IF u % word < word \div 2 THEN u % word ELSE (u % word) - word
ZigzagOf(u) == IF u % 2 = 0 THEN u \div 2 ELSE -((u + 1) \div 2)

NumberOf(name, s) ==
  CASE name = "int32"    -> TwosComplement(ValueOf(s), Word32)
    [] name = "int64"    -> TwosComplement(ValueOf(s), Word)
    [] name = "uint32"   -> ValueOf(s) % Word32
    [] name = "uint64"   -> ValueOf(s)
    [] name = "sint32"   -> ZigzagOf(ValueOf(s) % Word32)
    [] name = "sint64"   -> ZigzagOf(ValueOf(s))
    [] name = "bool"     -> IF ValueOf(s) = 0 THEN 0 ELSE 1
    [] name = "sfixed32" -> TwosComplement(Fixed(s), Word32)
    [] name = "sfixed64" -> TwosComplement(Fixed(s), Word)
    [] name \in {"fixed32", "fixed64", "float", "double"} -> Fixed(s)

-----------------------------------------------------------------------------

RECURSIVE ItemsOf(_)
ItemsOf(s) ==
  IF s = <<>> THEN <<>>
  ELSE LET n == CHOOSE k \in 1..Len(s) : IsItem(Prefix(s, k)) IN <<Prefix(s, n)>> \o ItemsOf(Rest(s, n))

RECURSIVE IsMessage(_)
IsMessage(s) == s = <<>> \/ \E k \in 1..Len(s) : IsItem(Prefix(s, k)) /\ IsMessage(Rest(s, k))

Content(item) == Rest(item, ValueStart(item))

Of(s, id) == SelectSeq(ItemsOf(s), LAMBDA item : IdOf(item) = id)

IsNumber(name, s) == IsValue(TypeWire(name), s) /\ (TypeWire(name) = 0 => IsVarint(s))

RECURSIVE IsPacked(_, _)
IsPacked(name, s) == s = <<>> \/ \E k \in 1..Len(s) : IsNumber(name, Prefix(s, k)) /\ IsPacked(name, Rest(s, k))

RECURSIVE Packed(_, _)
Packed(name, s) ==
  IF s = <<>> THEN <<>>
  ELSE LET n == CHOOSE k \in 1..Len(s) : IsNumber(name, Prefix(s, k))
       IN  <<NumberOf(name, Prefix(s, n))>> \o Packed(name, Rest(s, n))

\* seconds and nanoseconds, of which the last ones count
LastNumber(s, id, name) ==
  LET items == SelectSeq(Of(s, id), LAMBDA item : WireOf(item) = 0)
  IN  IF items = <<>> THEN 0 ELSE NumberOf(name, Content(items[Len(items)]))

Seconds(s) == LastNumber(s, 1, "int64")
Nanos(s)   == LastNumber(s, 2, "int32")

\* Of a Timestamp the nanoseconds count forward; those of a Duration have the sign of its seconds.
IsTimestamp(s) == IsMessage(s) /\ Nanos(s) \in 0..(Second - 1)
IsDuration(s)  == /\ IsMessage(s)
                  /\ Nanos(s) \in (1 - Second)..(Second - 1)
                  /\ ~(Seconds(s) < 0 /\ Nanos(s) > 0) /\ ~(Seconds(s) > 0 /\ Nanos(s) < 0)

IsOfType(name, item) ==
  /\ WireOf(item) = TypeWire(name)
  /\ name = "google.protobuf.Timestamp" => IsTimestamp(Content(item))
  /\ name = "google.protobuf.Duration"  => IsDuration(Content(item))
  /\ IsPackable(name) => IsNumber(name, Content(item))

ValueIn(name, item) ==
  IF TypeWire(name) # 2 THEN NumberOf(name, Content(item))
  ELSE IF name \in {"string", "bytes"} THEN Content(item)
  ELSE Seconds(Content(item)) * Second + Nanos(Content(item))

\* a field that is not repeated: nothing, or the last value
Single(name, id, s) ==
  LET items == Of(s, id) IN IF items = <<>> THEN {} ELSE {ValueIn(name, items[Len(items)])}

RECURSIVE Joined(_, _)
Joined(name, items) ==
  IF items = <<>> THEN <<>>
  ELSE (IF IsPackable(name) /\ WireOf(items[1]) = 2 THEN Packed(name, Content(items[1])) ELSE <<ValueIn(name, items[1])>>)
       \o Joined(name, Tail(items))

Repeated(name, id, s) == Joined(name, Of(s, id))

\* s is a message that has nothing but this field, with values of its type
Fits(label, name, id, s) ==
  /\ IsMessage(s)
  /\ \A k \in DOMAIN ItemsOf(s) :
       LET item == ItemsOf(s)[k]
       IN  /\ IdOf(item) = id
           /\ \/ IsOfType(name, item)
              \/ label = "repeated" /\ IsPackable(name) /\ WireOf(item) = 2 /\ IsPacked(name, Content(item))
=============================================================================
