------------------------------ MODULE MCFieldCodecs ------------------------------
(***************************************************************************)
(* Fields for FieldCodecs: each kind of number with each wire type, by     *)
(* itself, behind a pointer, in a slice and in an array; strings, bytes,   *)
(* times and durations; and fields that are refused.                       *)
(***************************************************************************)
EXTENDS FieldCodecs

Proto == INSTANCE ProtoMeaning

CONSTANT OnlyTimes  \* only fields with many times

MCZeroTime == -50 * Second

Field(t, tag) == [tag |-> tag, type |-> t, key |-> NoProtobufTag, val |-> NoProtobufTag, xxx |-> FALSE]
Keyed(f, k, v) == [f EXCEPT !.key = k, !.val = v]

Wires == {"varint", "zigzag32", "zigzag64", "fixed32", "fixed64", "bytes"}
Shapes(t) == {t, Pointer(t), SliceOf(t), ArrayOf(2, t)}

Uint8 == Basic("uint8")
Str   == Basic("string")
Chan  == Basic("chan")

As(name, definition) == {[name |-> name, definition |-> definition, imports |-> {}]}

Person   == Type("struct", "Person")
Asset    == [Type("struct", "AssetID") EXCEPT !.marshals = "Marshaler", !.as3 = As("bytes", FALSE)]
Level    == [Type("int", "Level") EXCEPT !.as3 = As("Level", TRUE)]

\* types that are encoded as bytes
ByteTypes ==
  {SliceOf(SliceOf(Uint8)), ArrayOf(0, Str)} \cup Shapes(Str) \cup
  Shapes(Time) \cup Shapes(Duration) \cup {SliceOf(Pointer(Time)), ArrayOf(2, Pointer(Time))}

\* described, or refused
Others ==
  Shapes(Person) \cup Shapes(Asset) \cup Shapes(Level) \cup Shapes(Chan) \cup
  {SliceOf(Pointer(Asset)), SliceOf(Pointer(Str)), Pointer(Pointer(Str)), SliceOf(SliceOf(Str))}

MapFields ==
  {Keyed(Field(MapOf(Str, v), Tag("bytes", 1)), Tag("bytes", 1), Tag(w, id)) :
     v \in {Basic("int32"), Person, MapOf(Str, Str)}, w \in {"bytes", "varint"}, id \in {1, 2}}

TimeTypes == {SliceOf(Time), ArrayOf(2, Time), SliceOf(Pointer(Time)), ArrayOf(2, Pointer(Time))}

MCGoFields ==
  IF OnlyTimes THEN {Field(t, Tag("bytes", 1)) : t \in TimeTypes}
  ELSE {Field(t, Tag(w, 1)) : t \in (UNION {Shapes(Basic(k)) : k \in NumberKinds}) \cup ByteTypes \cup Others, w \in Wires}
       \cup {Field(Basic("int32"), tag) : tag \in {NoProtobufTag, SkipTag, ShortTag, Tag("float", 1), Tag("varint", 0)}}
       \cup {Field(t, Tag(w, id)) : t \in {Basic("int32"), SliceOf(Basic("bool"))}, w \in {"varint", "fixed32"}, id \in {15, 16, 31, 32, 33}}
       \cup MapFields

-----------------------------------------------------------------------------

\* the ends of the ranges of a word and of what fits in fewer bits
Corners(word) ==
  {0, 1, word - 1, word \div 2, (word \div 2) - 1} \cup
  IF word = Word THEN {Word32 - 1, Word32, Word32 \div 2, Word - (Word32 \div 2), Word - (Word32 \div 2) - 1} ELSE {}

Nanoseconds == {0, 1, -1, Second - 1, Second, -Second, Second + 1, -Second - 1, (Word \div 2) - 1, -(Word \div 2)}

Singles(t) ==
  CASE t = Duration -> {ns % Word : ns \in Nanoseconds}
    [] t = Time -> Nanoseconds \cup {ZeroTime, 128 * Second, -1000 * Second - 1}
    [] t.kind \in NumberKinds -> Corners(WordOf(t.kind))
    [] t.kind = "string" -> {<<>>, <<7>>, <<200, 0>>}
    [] OTHER -> {<<>>, <<1>>, <<3, 8>>}

Some(S) == CHOOSE x \in S : TRUE

\* pairs in which each value comes first and last
Pairs(S) == {<<x, Some(S)>> : x \in S} \cup {<<Some(S), x>> : x \in S}

MCValuesOf(t) ==
  LET e == Elem(t)
  IN  CASE t.kind = "ptr" -> {{}} \cup {{x} : x \in Singles(e)}
        [] t.kind \in {"slice", "array"} /\ e.kind = "uint8" ->
             {s \in {<<>>, <<0, 0>>, <<1, Word8 - 1>>} : t.kind = "array" => Len(s) = t.len}
        [] t.kind = "slice" /\ e.kind = "ptr" -> {<<>>} \cup {<<{x}, {y}>> : x, y \in Singles(Elem(e))}
        [] t.kind = "slice" /\ e.kind # "ptr" /\ e.kind # "uint8" -> {<<>>, <<Some(Singles(e))>>} \cup Pairs(Singles(e))
        [] t.kind = "array" /\ e.kind # "uint8" ->
             IF t.len = 0 THEN {<<>>}
             ELSE IF e.kind = "ptr" THEN {<<{x}, {y}>> : x, y \in Singles(Elem(e))}
             ELSE Pairs(Singles(e))
        [] OTHER -> Singles(t)

MCStamps == Nanoseconds \cup {2 * Second - 1, 127 * Second, 128 * Second + 5}

\* seconds and nanoseconds in either order and twice, what is not known, and what is no message
MCBodies ==
  LET parts == {Part(1, 3), Part(1, -2), Part(2, Second - 1), Part(2, -1), Part(2, 3 * Second),
                <<26, 2, 8, 1>>, <<29, 1, 2, 3, 4>>, <<9, 1, 2, 3, 4, 5, 6, 7, 8>>}
      bad   == {<<8>>, <<16, 255, 255, 255>>, <<27>>, <<10, 5, 1>>, <<128>>}
  IN  {a \o b \o c : a, b \in parts, c \in parts \cup bad \cup {<<>>}}

-----------------------------------------------------------------------------
(* values *)

NumberIn(u, k) == IF HasSign(k) THEN Proto!TwosComplement(u, WordOf(k)) ELSE u

\* The same as ComesBack of slices and arrays of times.
TimesComeBack == Wired => (err = None /\ Filled(p, decoded) = value)

-----------------------------------------------------------------------------

Declared == p.asProtobuf.of # <<>> /\ p.asProtobuf.of[1].name # ""
TypeName == p.asProtobuf.of[1].name

\* the codecs that disagree with the declaration of the field
WireIsIgnored ==
  \/ Kind = "bool" /\ p.valEnc \in {"fixed32", "fixed64"}
  \/ p.enc[2] \in {"byte", "slice_byte"} /\ p.wire # WireBytes
SignIsIgnored(u) == p.enc[1] = "slice_packed" /\ Kind = "uint64" /\ u >= Word \div 2

\* an int or uint is declared with 32 bits
Declares(u) ==
  /\ Survives(p.valEnc, Kind, u)
  /\ ~SignIsIgnored(u)
  /\ Kind = "int"  => NumberIn(u, Kind) \in -(Word32 \div 2)..((Word32 \div 2) - 1)
  /\ Kind = "uint" => u < Word32

Meant(u) == IF InNumbers THEN NumberIn(u, Kind) ELSE u

Default == IF InNumbers \/ ElemOf = Time THEN 0 ELSE <<>>

\* what a reader of the .proto file should see
Reading ==
  IF p.asProtobuf.label = "repeated"
  THEN [k \in DOMAIN value |-> Meant(IF ElemOf.kind = "ptr" THEN The(value[k]) ELSE value[k])]
  ELSE IF field.type.kind = "ptr" THEN (IF value = {} THEN Default ELSE Meant(The(value)))
  ELSE IF Single THEN Meant(value) ELSE value

Seen ==
  IF p.asProtobuf.label = "repeated" THEN Proto!Repeated(TypeName, p.tag, buf)
  ELSE LET x == Proto!Single(TypeName, p.tag, buf) IN IF x = {} THEN Default ELSE The(x)

\* The type that a field is declared with in a .proto file reads what Marshal writes of the field:
\* the key has its number and wire type, packed or not, Timestamps and Durations are valid, and the
\* values are those of the Go struct.
DeclaredTypeReads ==
  (Wired /\ Declared /\ KeyFits /\ ~WireIsIgnored /\ (InNumbers => \A u \in Elements : Declares(u)))
  => /\ Proto!Fits(p.asProtobuf.label, TypeName, p.tag, buf)
     /\ Seen = Reading

-----------------------------------------------------------------------------

Wraps(ns) == Proto!TwosComplement(ns, Word)

\* A time is encoded as the Timestamp that stands for it, and a valid one, except that
\* EncodeNSecTimestamp gives one before 1970 with a fraction of a second a negative number of nanoseconds.
StampMeans ==
  (phase = "stamped" /\ call # "none") =>
    /\ \/ call = "EncodeNSecTimestamp" /\ value < 0 /\ value % Second # 0
       \/ Proto!IsTimestamp(buf)
    /\ Proto!Seconds(buf) * Second + Proto!Nanos(buf) = value

\* numbers of any size, the last of which count
ReceivedTime ==
  Proto!LastNumber(buf, 1, "int64") * Second + Proto!LastNumber(buf, 2, "int64")

\* What is decoded of a message from elsewhere is the time that its last numbers stand for, whatever
\* else is in it, and what is not a message is refused.
ReceivedMeans ==
  (phase = "stamp read" /\ call = "none") =>
    /\ (err = None) <=> (Proto!IsMessage(buf) /\ \A k \in DOMAIN Proto!ItemsOf(buf) :
                            LET item == Proto!ItemsOf(buf)[k]
                            IN  Proto!IdOf(item) \in {1, 2} /\ Proto!WireOf(item) = 0 => Proto!IsVarint(Proto!Content(item)))
    /\ err = None => decoded.ns = IF decoded.with = "DecodeTimestamp" THEN ReceivedTime ELSE Wraps(ReceivedTime)
=============================================================================
