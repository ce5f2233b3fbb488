---------------------------------- MODULE Codecs ----------------------------------
(***************************************************************************)
(* How a field of a Go struct gets its codec (properties.go): Parse reads  *)
(* its protobuf tag, and setEncAndDec picks, by the type of the field, the *)
(* encoder and decoder, the wire type of the key and the type that the     *)
(* field has in a .proto file, or refuses the field.                       *)
(*                                                                         *)
(* An encoder or decoder is named by the shape of the field and by what    *)
(* there is in it: <<"slice_packed", "int8">> is enc_slice_packed_int8.    *)
(***************************************************************************)
EXTENDS Numbers, GoTypes

CONSTANT XXXHack  \* the global variable of this name

ASSUME XXXHackAssumption == XXXHack \in BOOLEAN

\* why a field is refused
NoTag       == "lacks a protobuf tag"
BadTag      == "bad protobuf tag"
NoEncoder   == "no encoder/decoder"
NotThisWire == "cannot have wiretype"
BadStruct   == "error in a nested type"
BadMap      == "bad map tags"
Panics      == "nil pointer dereference"

\* A tag is missing, "-", too short, or has a wire type and an id.  An id of 0 stands for all that
\* Atoi refuses, too.
NoProtobufTag   == [id |-> 0, wire |-> "", form |-> "missing", optional |-> FALSE]
SkipTag         == [NoProtobufTag EXCEPT !.form = "-"]
ShortTag        == [NoProtobufTag EXCEPT !.form = "short"]
Tag(wire, id)   == [NoProtobufTag EXCEPT !.form = "full", !.wire = wire, !.id = id]

\* the type of a field in a .proto file: its label, and the names of one type, or of two in a map;
\* a nameless struct is declared in place
Untyped == [label |-> "", of |-> <<>>]
Text(s) == [name |-> s, inline |-> {}]

\* Properties, before the tag is parsed
NoProperties ==
  [err |-> None, skip |-> FALSE, wire |-> WireVarint, valEnc |-> "nil", tag |-> 0, isOptional |-> FALSE,
   enc |-> <<>>, dec |-> <<>>, asProtobuf |-> Untyped, stype |-> {}, custom |-> "no", length |-> 0, tagcode |-> <<>>]

Refuse(p, e) == [p EXCEPT !.err = e]

WireOf(wire) ==
  CASE wire \in {"varint", "zigzag32", "zigzag64"} -> WireVarint
    [] wire = "fixed32" -> WireFixed32
    [] wire = "fixed64" -> WireFixed64
    [] wire = "bytes"   -> WireBytes

WireNames == {"varint", "fixed32", "fixed64", "zigzag32", "zigzag64", "bytes"}

\* valDec and valCnt are picked along with valEnc
Parse(tag) ==
  LET p == NoProperties
  IN  CASE tag.form = "-"     -> [p EXCEPT !.skip = TRUE]
        [] tag.form = "short" -> [p EXCEPT !.skip = TRUE, !.err = BadTag]
        [] tag.form \notin {"-", "short"} /\ (tag.wire \notin WireNames \/ tag.id <= 0) -> Refuse(p, BadTag)
        [] OTHER -> [p EXCEPT !.wire = WireOf(tag.wire), !.valEnc = IF tag.wire = "bytes" THEN "nil" ELSE tag.wire,
                              !.tag = tag.id % Word32, !.isOptional = tag.optional]

-----------------------------------------------------------------------------
(* numbers, by the kind k of their type; encoders and decoders of equal bits serve several kinds *)

Signed32   == {"int", "int8", "int16", "int32"}
Unsigned32 == {"uint", "uint8", "uint16", "uint32"}
NumberKinds == Signed32 \cup Unsigned32 \cup {"bool", "int64", "uint64", "float32", "float64"}

NumberEncoder(k) ==
  CASE k \in {"uint64", "float64"} -> "int64" [] k = "float32" -> "uint32" [] OTHER -> k

NumberDecoder(k) ==
  CASE k = "uint" -> "int" [] k = "uint8" -> "int8" [] k = "uint16" -> "int16"
    [] k \in {"uint32", "float32"} -> "int32" [] k \in {"uint64", "float64"} -> "int64" [] OTHER -> k

\* int32_encoder_txt and the others; "" where the code has none
int32_encoder_txt(e) ==
  CASE e = "varint" -> "int32" [] e = "fixed32" -> "sfixed32" [] e = "zigzag32" -> "sint32" [] OTHER -> ""
\* mutant: the sign of int32
uint32_encoder_txt_Signed(e) ==
  CASE e = "varint" -> "uint32" [] e = "fixed32" -> "sfixed32" [] OTHER -> ""

uint32_encoder_txt(e) ==
  CASE e = "varint" -> "uint32" [] e = "fixed32" -> "fixed32" [] OTHER -> ""
int64_encoder_txt(e) ==
  CASE e = "varint" -> "int64" [] e = "fixed64" -> "sfixed64" [] e = "zigzag64" -> "sint64" [] OTHER -> ""
uint64_encoder_txt(e) ==
  CASE e = "varint" -> "uint64" [] e = "fixed64" -> "fixed64" [] OTHER -> ""

NumberText(k, e) ==
  CASE k = "bool" -> "bool" [] k = "float32" -> "float" [] k = "float64" -> "double"
    [] k \in Signed32 -> int32_encoder_txt(e) [] k \in Unsigned32 -> uint32_encoder_txt(e)
    [] k = "int64" -> int64_encoder_txt(e) [] k = "uint64" -> uint64_encoder_txt(e)

\* a number needs a number's wire type, and a float that of its size
NumberFits(p, k) ==
  /\ p.valEnc # "nil"
  /\ k = "float32" => p.wire = WireFixed32
  /\ k = "float64" => p.wire = WireFixed64

-----------------------------------------------------------------------------
(* codecs: p has been parsed from the tag, t is a type, and the structs in bad are in error *)

\* mutant: the decoder of a single value
Use_Single(p, shape, enc, dec, label, text) ==
  [p EXCEPT !.enc = <<shape, enc>>, !.dec = <<"", dec>>, !.asProtobuf = [label |-> label, of |-> <<text>>]]

Use(p, shape, enc, dec, label, text) ==
  [p EXCEPT !.enc = <<shape, enc>>, !.dec = <<shape, dec>>, !.asProtobuf = [label |-> label, of |-> <<text>>]]

Checked(ok, p) == IF ok THEN p ELSE Refuse(p, NotThisWire)

Number(p, shape, k, label, text) ==
  Checked(NumberFits(p, k), Use(p, shape, NumberEncoder(k), NumberDecoder(k), label, Text(text)))

\* packed numbers are bytes
Packed(p, shape, k, text) == [Number(p, shape, k, "repeated", text) EXCEPT !.wire = WireBytes]

OnlyBytes(p) == Checked(p.wire = WireBytes, p)

IsDuration(p, t) == t = Duration /\ p.wire = WireBytes

ADuration(p, shape, label) ==
  [Use(p, shape, "time_Duration", "time_Duration", label, Text("google.protobuf.Duration")) EXCEPT !.stype = {Duration}]

\* what the name of t is in a .proto file
stypeAsProtobuf(t) ==
  IF t = Time THEN Text("google.protobuf.Timestamp")
  ELSE [name |-> IF isAsProtobuf3er(t) /\ AsProtobuf3(t).name # "" THEN AsProtobuf3(t).name ELSE t.name,
        inline |-> IF t.name = "" THEN {t} ELSE {}]

Message(p, shape, dec, t, label, bad) ==
  IF t \in bad THEN Refuse([p EXCEPT !.stype = {t}], BadStruct)
  ELSE OnlyBytes([Use(p, shape, "struct_message", dec, label, stypeAsProtobuf(t)) EXCEPT !.stype = {t}])

\* Types that marshal themselves have the choice of the wire type.  To declare a nameless one in
\* place there would have to be a description of its fields.
Custom(p, shape, t, label) ==
  IF t.name = "" THEN Refuse(p, Panics)
  ELSE [Use(p, shape, IF isAppender(t) THEN "appender" ELSE "marshaler", "unmarshaler", label, stypeAsProtobuf(t))
        EXCEPT !.stype = {t}, !.custom = t.marshals]

MarshalsItself(t) == isAppender(t) \/ isMarshaler(t)

scalarCodec(p, t, bad) ==
  CASE IsDuration(p, t) -> ADuration(p, "", "")
    [] t.kind \in NumberKinds /\ ~IsDuration(p, t) -> Number(p, "", t.kind, "", NumberText(t.kind, p.valEnc))
    [] t.kind = "string" -> OnlyBytes(Use(p, "", "string", "string", "", Text("string")))
    [] t.kind = "struct" -> Message(p, "", IF t = Time THEN "time_Time" ELSE "struct_message", t, "", bad)
    [] OTHER -> Refuse(p, NoEncoder)

\* a pointer to t
ptrCodec(p, t, bad) ==
  LET q == IF isAsProtobuf3er(t) THEN [p EXCEPT !.stype = {t}] ELSE p
  IN  IF MarshalsItself(t) THEN Custom(p, "ptr", t, "")
      ELSE
      CASE IsDuration(p, t) -> ADuration(p, "ptr", "")
        [] t.kind \in NumberKinds /\ ~IsDuration(p, t) -> Number(q, "ptr", t.kind, "", NumberText(t.kind, p.valEnc))
        [] t.kind = "string" -> OnlyBytes(Use(q, "ptr", "string", "string", "", Text("string")))
        [] t.kind = "struct" -> Message(q, "ptr", IF t = Time THEN "time_Time" ELSE "struct_message", t, "", bad)
        [] OTHER -> Refuse(p, NoEncoder)

\* elements that are pointers are pointers to structs; whether these marshal themselves is noted
PtrElements(p, shape, t, bad) ==
  IF t.kind = "struct"
  THEN [Message(p, shape, "struct_message", t, "repeated", bad) EXCEPT !.custom = t.marshals]
  ELSE Refuse(p, NoEncoder)

sliceCodec(p, t, bad) ==
  IF MarshalsItself(t) THEN Custom(p, "slice", t, "repeated")
  ELSE
  CASE t.kind = "uint8" -> [Use(p, "slice", "byte", "byte", "", Text("bytes")) EXCEPT !.wire = WireBytes]
    [] IsDuration(p, t) -> ADuration(p, "slice", "repeated")
    [] t.kind = "uint64" -> Packed(p, "slice_packed", t.kind, int64_encoder_txt(p.valEnc))
    [] t.kind \in NumberKinds \ {"uint8", "uint64"} /\ ~IsDuration(p, t) -> Packed(p, "slice_packed", t.kind, NumberText(t.kind, p.valEnc))
    [] t.kind = "string" -> OnlyBytes(Use(p, "slice", "string", "string", "repeated", Text("string")))
    [] t.kind = "struct" -> Message(p, "slice", "struct_message", t, "repeated", bad)
    [] t.kind = "ptr" -> PtrElements(p, "slice_ptr", Elem(t), bad)
    [] t.kind = "slice" -> IF Elem(t).kind = "uint8" THEN Use(p, "slice", "slice_byte", "slice_byte", "repeated", Text("bytes"))
                           ELSE Refuse(p, NoEncoder)
    [] OTHER -> Refuse(p, NoEncoder)

\* an array of n elements
arrayCodec(p0, n, t, bad) ==
  LET p == [p0 EXCEPT !.length = n]
  IN  IF n = 0 THEN [p EXCEPT !.enc = <<"", "nothing">>, !.dec = <<"", "nothing">>]
      ELSE IF MarshalsItself(t) THEN Custom(p, "array", t, "repeated")
      ELSE
      CASE t.kind = "uint8" -> Use(p, "array", "byte", "byte", "", Text("bytes"))
        [] IsDuration(p, t) -> ADuration(p, "array", "repeated")
        [] t.kind \in NumberKinds \ {"uint8"} /\ ~IsDuration(p, t) -> Packed(p, "array_packed", t.kind, NumberText(t.kind, p.valEnc))
        [] t.kind = "string" -> OnlyBytes(Use(p, "array", "string", "string", "repeated", Text("string")))
        [] t.kind = "struct" -> Message(p, "array", "struct_message", t, "repeated", bad)
        [] t.kind = "ptr" -> PtrElements(p, "array_ptr", Elem(t), bad)
        [] OTHER -> Refuse(p, NoEncoder)

\* a type that has a say in its name or definition; one that marshals itself has had it
Overridden(p, t) ==
  IF p.err # None \/ ~isAsProtobuf3er(t) THEN p
  ELSE LET a == AsProtobuf3(t)
       IN  [p EXCEPT !.asProtobuf = IF a.name # "" THEN [label |-> "", of |-> <<Text(a.name)>>] ELSE @,
                     !.stype = IF a.definition THEN {t} ELSE @]

\* a key is a uint32 here
TagCode(p) == IF p.err # None THEN p ELSE [p EXCEPT !.tagcode = EncodeVarint((8 * p.tag + p.wire) % Word32)]

\* ofMap: what becomes of p when t is a map
setEncAndDec(p, t, bad, ofMap) ==
  TagCode(IF MarshalsItself(t) THEN Custom(p, "", t, "")
          ELSE Overridden(CASE t.kind = "ptr"   -> ptrCodec(p, Elem(t), bad)
                            [] t.kind = "slice" -> sliceCodec(p, Elem(t), bad)
                            [] t.kind = "array" -> arrayCodec(p, t.len, Elem(t), bad)
                            [] t.kind = "map"   -> ofMap
                            [] OTHER            -> scalarCodec(p, t, bad), t))

\* the tag alone decides
Settled(p) == p.skip \/ p.err # None

\* The key or value of a map.  These have no struct field, and a map would look for its tags in it.
EntryField(t, tag, bad) ==
  LET p == Parse(tag)
  IN  IF Settled(p) THEN p ELSE setEncAndDec(p, t, bad, Refuse(p, IF p.wire = WireBytes THEN Panics ELSE BadMap))

Usable(p, id) == p.err = None /\ ~p.skip /\ p.tag = id

\* its tags are in the struct field f
mapCodec(p, t, f, bad) ==
  LET k == EntryField(Key(t), f.key, bad)
      v == EntryField(Elem(t), f.val, bad)
  IN  IF p.wire # WireBytes \/ f.key.form = "missing" THEN Refuse(p, BadMap)
      ELSE IF ~Usable(k, 1) THEN Refuse(p, IF k.err = Panics THEN Panics ELSE BadMap)
      ELSE IF f.val.form = "missing" THEN Refuse(p, BadMap)
      ELSE IF ~Usable(v, 2) THEN Refuse(p, IF v.err = Panics THEN Panics ELSE BadMap)
      ELSE [p EXCEPT !.enc = <<"", "new_map">>, !.dec = <<"", "new_map">>,
                     !.asProtobuf = [label |-> "map", of |-> <<k.asProtobuf, v.asProtobuf>>]]

\* A struct field: its type, its tags, and whether its name starts with XXX_
init(f, bad) ==
  IF f.tag.form = "missing"
  THEN [NoProperties EXCEPT !.skip = TRUE, !.err = IF XXXHack /\ f.xxx THEN None ELSE NoTag]
  ELSE LET p == Parse(f.tag)
       IN  IF Settled(p) THEN p ELSE setEncAndDec(p, f.type, bad, mapCodec(p, f.type, f, bad))
=============================================================================
