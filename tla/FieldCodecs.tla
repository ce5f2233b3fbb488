------------------------------- MODULE FieldCodecs -------------------------------
(***************************************************************************)
(* A struct of one field from its Go declaration to the wire and back:     *)
(* Codecs picks how the field is encoded and decoded, the encoder writes   *)
(* its value, and the decoder reads what was written, one item of the      *)
(* message at a time, into a new struct.  A client also calls the encoders *)
(* and decoders of time stamps of a Buffer by themselves.                  *)
(*                                                                         *)
(* A value is a number as the word its type holds, the bytes of a string,  *)
(* a sequence, for a pointer the empty set or a set with what it points to,*)
(* and for a time.Time nanoseconds.  Structs, maps and types that marshal  *)
(* themselves have modules of their own (Encoder, Decoder), and are here   *)
(* described only.                                                         *)
(***************************************************************************)
EXTENDS Codecs, Times

CONSTANTS
  Word8, Word16,  \* the numbers of a uint8 and of a uint16
  GoFields,       \* the fields: their types and tags
  ValuesOf(_),    \* of each type, the values that are written
  ZeroTime,       \* the zero time.Time, long before 1970
  Stamps,         \* the times that a client encodes, in nanoseconds
  Bodies          \* what a client decodes as a time

\* a number of more bits is a whole number of times as large
ASSUME FieldCodecsAssumption ==
  /\ Word8 \in Nat /\ Word16 \in Nat
  /\ 2 < Word8 /\ Word8 < Word16 /\ Word16 < Word32 /\ Word8 <= 256
  /\ Word16 % Word8 = 0 /\ Word32 % Word16 = 0 /\ Word % Word32 = 0

WordOf(k) ==
  CASE k = "bool" -> 2 [] k \in {"int8", "uint8"} -> Word8 [] k \in {"int16", "uint16"} -> Word16
    [] k \in {"int32", "uint32", "float32"} -> Word32 [] OTHER -> Word

\* the numbers of an int64
Int64s == -(Word \div 2)..((Word \div 2) - 1)

\* The values of a type.  The seconds of a time fit in an int64, and the bytes of a string in memory.
OfType(t) ==
  CASE t = Time -> {ns \in Int : ns \div Second \in Int64s}
    [] t.kind \in NumberKinds -> 0..(WordOf(t.kind) - 1)
    [] OTHER -> {s \in Seq(Bytes) : Len(s) < Word}

\* A pointer in a slice is not nil: Marshal refuses that (Encoder).  What is written of the numbers
\* of a slice fits in memory, too.
IsValue(t, x) ==
  CASE t.kind = "ptr" -> x = {} \/ \E y \in x : y \in OfType(Elem(t)) /\ x = {y}
    [] t.kind \in {"slice", "array"} ->
         /\ IF Elem(t).kind = "ptr"
            THEN x \in Seq(SUBSET OfType(Elem(Elem(t)))) /\ \A k \in DOMAIN x : \E y \in x[k] : x[k] = {y}
            ELSE x \in Seq(OfType(Elem(t)))
         /\ (VarintLen + 8) * Len(x) < Word
         /\ t.kind = "array" => Len(x) = t.len
    [] OTHER -> x \in OfType(t)

ASSUME ValuesAssumption == \A f \in GoFields : f.tag.id \in Int /\ \A x \in ValuesOf(f.type) : IsValue(f.type, x)

\* EncodeNSecTimestamp takes an int64
ASSUME StampsAssumption == Stamps \subseteq Int64s /\ Bodies \subseteq Seq(Bytes)

VARIABLES
  phase,    \* what was done last
  call,     \* what the client encoded with
  field,    \* the field
  p,        \* its Properties
  value,    \* what was encoded
  buf,      \* the message
  index,    \* how much of it is decoded
  decoded,  \* the field in the new struct
  err       \* what Unmarshal returned

vars == <<phase, call, field, p, value, buf, index, decoded, err>>

NoField == [type |-> Basic("none"), tag |-> NoProtobufTag, key |-> NoProtobufTag, val |-> NoProtobufTag, xxx |-> FALSE]

Init ==
  /\ phase = "start"
  /\ call = "none"
  /\ field = NoField /\ p = NoProperties /\ value = 0
  /\ buf = <<>> /\ index = 0 /\ decoded = 0 /\ err = None

-----------------------------------------------------------------------------
(* encoders *)

HasSign(k) == k \in Signed32 \cup {"int64"}

The(x)     == CHOOSE v \in x : TRUE
Raw(s)     == EncodeVarint(Len(s)) \o s

\* of: the encoder; q: the Properties it is called with
Written(q, of, x) ==
  CASE of \in NumberKinds -> valEnc(q.valEnc, AsUint64(x, WordOf(of), HasSign(of)))
    [] of \in {"string", "byte", "slice_byte"} -> Raw(x)
    [] of = "struct_message" -> Raw(EncodeTimestamp(x))
    [] of = "time_Duration"  -> Raw(enc_Duration(Int64(x)))

One(q, of, x)  == q.tagcode \o Written(q, of, x)
Each(q, of, s) == Concat([k \in DOMAIN s |-> One(q, of, s[k])])

\* the length of packed bools is their number
Block(q, of, s) ==
  LET numbers == Concat([k \in DOMAIN s |-> Written(q, of, s[k])])
  IN  q.tagcode \o EncodeVarint(IF of = "bool" THEN Len(s) ELSE Len(numbers)) \o numbers

IsEmpty(of, x) ==
  CASE of \in NumberKinds \cup {"time_Duration"} -> x = 0
    [] of \in {"string", "byte"} -> x = <<>>
    [] of = "struct_message" -> FALSE  \* a Timestamp has its two numbers

\* q.enc
enc(q, x) ==
  LET shape == q.enc[1]
      of    == q.enc[2]
  IN  CASE of = "nothing" -> <<>>
        [] shape = "" /\ of # "nothing" -> IF IsEmpty(of, x) THEN <<>> ELSE One(q, of, x)
        [] shape = "ptr" -> IF x = {} THEN <<>> ELSE IF of = "time_Duration" /\ x = {0} THEN <<>> ELSE One(q, of, The(x))
        [] of = "byte" -> IF shape = "slice" /\ x = <<>> THEN <<>> ELSE One(q, of, x)
        [] shape = "slice_packed" -> IF x = <<>> THEN <<>> ELSE Block(q, of, x)
        [] shape = "array_packed" -> Block(q, of, x)
        [] shape \in {"slice", "array"} /\ of # "byte" -> Each(q, of, x)
        [] shape \in {"slice_ptr", "array_ptr"} -> Each(q, of, [k \in DOMAIN x |-> The(x[k])])

-----------------------------------------------------------------------------
(* decoders; b: the message *)

\* a number, string or time at i; elements that are time.Time have the Properties of a struct
\* with a single field of id 0 and skip what is in it
Got(q, b, of, i) ==
  LET raw == DecodeRawBytes(b, i)
      n   == valDec(q.valEnc, b, i)
  IN  CASE of \in NumberKinds -> [n EXCEPT !.x = Stored(@, WordOf(of))]
        [] of \in {"string", "byte", "slice_byte"} -> [raw EXCEPT !.x = Inner(b, raw.x, raw.index)]
        [] of = "time_Time" -> decode_time_Time(b, i)
        [] of = "struct_message" -> [raw EXCEPT !.x = ZeroTime]
        [] of = "time_Duration" -> [dec_Duration(b, i) EXCEPT !.x = @ % Word]

\* the numbers of a block
NumbersUpTo(q, b, of, i, fin) ==
  LET From[j \in i..Len(b)] ==
        LET Then(n) == IF n.err # None THEN [x |-> <<>>, index |-> n.index, err |-> n.err]
                       ELSE [From[n.index] EXCEPT !.x = <<n.x>> \o @]
        IN  IF j >= fin THEN [x |-> <<>>, index |-> j, err |-> None] ELSE Then(Got(q, b, of, j))
  IN  From[i]

\* n: the length
BlockOf(q, b, of, n) ==
  LET fin == (n.index + n.x) % Word
  IN  IF n.err # None THEN n
      ELSE IF fin < n.index THEN Fail(Overflow, n.index)
      ELSE IF fin > Len(b) THEN Fail(EOF, n.index)
      ELSE NumbersUpTo(q, b, of, n.index, fin)

GotBlock(q, b, of, i) == BlockOf(q, b, of, DecodeVarint(b, i))

ZeroOf(of) ==
  CASE of \in NumberKinds \cup {"byte", "time_Duration"} -> 0
    [] of \in {"string", "slice_byte"} -> <<>>
    [] of \in {"time_Time", "struct_message"} -> ZeroTime

\* the field in a new struct; of an array, the elements that were given
Zero(q) ==
  CASE q.dec[1] = "" /\ q.dec[2] # "nothing" -> ZeroOf(q.dec[2])
    [] q.dec[1] = "ptr" -> {}
    [] OTHER -> <<>>

UpTo(n, s) == SubSeq(s, 1, IF Len(s) < n THEN Len(s) ELSE n)

\* mutant: the elements of an array start again with each item
Merge_Restart(q, x, new) == IF q.dec[1] = "slice" THEN Append(x, new) ELSE <<new>>

\* the elements of slices and arrays that have an item each
Merge(q, x, new) == IF q.dec[1] \in {"slice", "slice_ptr"} THEN Append(x, new) ELSE UpTo(q.length, Append(x, new))

\* what the field becomes that was x, with what has been read
Became(q, got, x) ==
  LET shape == q.dec[1]
      of    == q.dec[2]
  IN  CASE shape = "" -> got
        [] shape = "ptr" -> [got EXCEPT !.x = {@}]
        [] of = "byte" -> [got EXCEPT !.x = IF shape = "array" THEN UpTo(q.length, @) ELSE @]
        [] shape = "slice_packed" -> [got EXCEPT !.x = x \o @]
        [] shape = "array_packed" -> [got EXCEPT !.x = UpTo(q.length, @)]
        [] shape \in {"slice", "array"} /\ of # "byte" -> [got EXCEPT !.x = Merge(q, x, @)]
        [] shape \in {"slice_ptr", "array_ptr"} -> [got EXCEPT !.x = Merge(q, x, {@})]

\* q.dec
dec(q, b, i, x) ==
  IF q.dec[2] = "nothing" THEN [x |-> x, index |-> i, err |-> None]
  ELSE Became(q, IF q.dec[1] \in {"slice_packed", "array_packed"} THEN GotBlock(q, b, q.dec[2], i) ELSE Got(q, b, q.dec[2], i), x)

\* the item of a key
ItemOf(q, b, key, x) ==
  CASE key.err # None -> [x |-> x, index |-> key.index, err |-> key.err]
    [] key.err = None /\ KeyId(key.x) # q.tag ->
         [skip(b, key.index, KeyWire(key.x)) EXCEPT !.x = x]
    [] key.err = None /\ KeyId(key.x) = q.tag /\ KeyWire(key.x) # q.wire ->
         [x |-> x, index |-> key.index, err |-> BadWire]
    [] OTHER -> dec(q, b, key.index, x)

\* the rest of an array is as in a new struct
Filled(q, x) == IF q.dec[1] \in {"array", "array_packed"}
                THEN [k \in 1..q.length |-> IF k <= Len(x) THEN x[k] ELSE ZeroOf(q.dec[2])]
                ELSE x

-----------------------------------------------------------------------------

\* GetProperties
Describe ==
  /\ phase = "start"
  /\ \E f \in GoFields :
       /\ field' = f
       /\ p' = init(f, {})
  /\ phase' = "described"
  /\ UNCHANGED <<call, value, buf, index, decoded, err>>

\* Other structs and types that marshal themselves are not encoded here.
Codable == p.err = None /\ ~p.skip /\ p.stype \subseteq {Time, Duration} /\ p.custom = "no" /\ p.enc # <<"", "new_map">>

\* Marshal
Write ==
  /\ phase = "described"
  /\ Codable
  /\ value' \in ValuesOf(field.type)
  /\ buf' = enc(p, value')
  /\ index' = 0 /\ decoded' = Zero(p)
  /\ phase' = "written" /\ call' = "Marshal"
  /\ UNCHANGED <<field, p, err>>

\* Unmarshal, one item
ReadItem ==
  /\ phase \in {"written", "reading"}
  /\ err = None /\ index < Len(buf)
  /\ \E got \in {ItemOf(p, buf, DecodeVarint(buf, index), decoded)} :
       /\ decoded' = IF got.err = None THEN got.x ELSE decoded
       /\ index' = got.index
       /\ err' = got.err
  /\ phase' = "reading"
  /\ UNCHANGED <<call, field, p, value, buf>>

Done == phase \in {"written", "reading"} /\ (err # None \/ index = Len(buf))

-----------------------------------------------------------------------------
(* time stamps by themselves *)

Stamp ==
  /\ phase = "start"
  /\ \E ns \in Stamps, with \in {"EncodeTimestamp", "EncodeNSecTimestamp"} :
       /\ value' = ns
       /\ call' = with
       /\ buf' = IF with = "EncodeTimestamp" THEN EncodeTimestamp(ns) ELSE EncodeNSecTimestamp(ns)
  /\ phase' = "stamped"
  /\ UNCHANGED <<field, p, index, decoded, err>>

\* a message from elsewhere
Receive ==
  /\ phase = "start"
  /\ buf' \in Bodies
  /\ call' = "none"
  /\ phase' = "stamped"
  /\ UNCHANGED <<field, p, value, index, decoded, err>>

ReadStamp ==
  /\ phase = "stamped"
  /\ \E with \in {"DecodeTimestamp", "DecodeNSecTimestamp"} :
       \E got \in {IF with = "DecodeTimestamp" THEN DecodeTimestamp(buf) ELSE DecodeNSecTimestamp(buf)} :
         /\ decoded' = [with |-> with, ns |-> got.ns]
         /\ err' = got.err
  /\ phase' = "stamp read"
  /\ UNCHANGED <<call, field, p, value, buf, index>>

\* the client goes on with another field or time
Again ==
  /\ Done \/ phase = "stamp read" \/ (phase = "described" /\ ~Codable)
  /\ phase' = "start" /\ call' = "none"
  /\ field' = NoField /\ p' = NoProperties /\ value' = 0
  /\ buf' = <<>> /\ index' = 0 /\ decoded' = 0 /\ err' = None

Next == Describe \/ Write \/ ReadItem \/ Stamp \/ Receive \/ ReadStamp \/ Again

Spec == Init /\ [][Next]_vars

-----------------------------------------------------------------------------

\* What has been decoded is a prefix of the message, a field that is coded has a key on the wire and
\* an encoder with a decoder of the same shape, and errors come with messages.
TypeOK ==
  /\ phase \in {"start", "described", "written", "reading", "stamped", "stamp read"}
  /\ buf \in Seq(Bytes)
  /\ index \in 0..Len(buf)
  /\ p.tagcode # <<>> => p.err = None /\ p.tag \in 0..(Word32 - 1) /\ p.enc # <<>> /\ p.tagcode \in Seq(Bytes)
  /\ p.enc # <<>> => p.enc[1] = p.dec[1]
  /\ err # None => buf # <<>>

-----------------------------------------------------------------------------
(* which values there are *)

Wired  == call = "Marshal" /\ Done
Single == field.type.kind \notin {"ptr", "slice", "array"}
ElemOf == IF Single THEN field.type ELSE Elem(field.type)
Kind   == IF ElemOf.kind = "ptr" THEN Elem(ElemOf).kind ELSE ElemOf.kind
InNumbers == p.enc[2] \in NumberKinds \cup {"time_Duration"}

\* all numbers, times or strings in the value
Elements ==
  IF Single THEN {value}
  ELSE IF field.type.kind = "ptr" THEN value
  ELSE IF Kind = "uint8" THEN {} ELSE {value[k] : k \in DOMAIN value}

\* of the numbers that fill a word; those of fewer bits keep all they have
Survives(val, k, u) ==
  LET n == IF HasSign(k) THEN Int64(u) ELSE u
  IN  WordOf(k) = Word =>
        /\ val = "fixed32" => n \in 0..(Word32 - 1)
        /\ val = "zigzag32" => n \in (IF HasSign(k) THEN -(Word32 \div 2) ELSE 0)..((Word32 \div 2) - 1)

\* a key is computed in 32 bits, and those of larger numbers lose some
KeyFits == p.tag < Word32 \div 8

FixedBools == p.enc[1] \in {"slice_packed", "array_packed"} /\ p.enc[2] = "bool" /\ p.valEnc \in {"fixed32", "fixed64"}
ManyTimes  == p.dec[2] = "struct_message"

\* What Marshal writes of a field, Unmarshal reads back: each number that fits in the bits of its
\* encoding, with its sign, and each string, time and duration, alone, behind a pointer, and all
\* the elements of slices and arrays.  Of the codecs that setEncAndDec picks, those of packed bools
\* of a fixed size and of slices and arrays of times do not keep to this.  A pointer to a Duration
\* of 0 is written as a nil pointer is.
ComesBack ==
  (Wired /\ KeyFits /\ ~FixedBools /\ ~ManyTimes /\ (InNumbers => \A u \in Elements : Survives(p.valEnc, Kind, u)))
    => err = None /\ Filled(p, decoded) = IF p.enc = <<"ptr", "time_Duration">> /\ value = {0} THEN {} ELSE value

\* A time that is encoded in either way is the same time after it is decoded in either way.
StampComesBack == (phase = "stamp read" /\ call # "none") => err = None /\ decoded.ns = value
================================================================================
