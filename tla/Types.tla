---------------------------------- MODULE Types ----------------------------------
(***************************************************************************)
(* The types of Go structs as the encoders and decoders see them: of each  *)
(* type the Properties of its fields, which setEncAndDec has made, in the  *)
(* order of their tags.  The entry of a map is a type with the fields key  *)
(* and value.                                                              *)
(***************************************************************************)
EXTENDS Numbers

CONSTANTS
  Fields,  \* of each type, its fields in the order of their tags (StructProperties.props)
  Size     \* of each type, the room it takes

\* A field: its tag and wire type, its pair of encoder and decoder, how its numbers are encoded,
\* the size of their type and whether it has a sign, whether a type that marshals itself is an
\* Appender, the type of a nested message, the length of an array, and its offset in the struct.
FieldProperties ==
  [tag : 1..(Word32 - 1), wire : {WireVarint, WireBytes, WireFixed32, WireFixed64},
   dec : {"number", "ptrNumber", "bytes", "ptrBytes", "byteArray", "strings", "stringArray",
          "packed", "packedArray", "struct", "ptr", "structs", "structArray", "ptrs", "ptrArray",
          "map", "custom", "ptrCustom", "customs", "customArray", "ptrCustoms", "ptrCustomArray",
          "nothing"},
   val : {"varint", "zigzag32", "zigzag64", "fixed32", "fixed64"}, word : 1..Word, signed : BOOLEAN,
   appends : BOOLEAN, stype : DOMAIN Fields, len : Nat, at : Nat]

FieldsOf(t) == 1..Len(Fields[t])

ASSUME TypesAssumption ==
  \A t \in DOMAIN Fields :
    /\ Fields[t] \in Seq(FieldProperties)
    \* sorted, with no tag twice: GetProperties sees to it
    /\ \A j, k \in FieldsOf(t) : j < k => Fields[t][j].tag < Fields[t][k].tag
    /\ Size[t] \in Nat
=============================================================================
