---------------------------------- MODULE MCTypes ----------------------------------
(***************************************************************************)
(* Types of structs that between them have a field of every kind.  Varints *)
(* have at most 3 bytes, so a word has 16 bits and a uint32 is a number    *)
(* below 256: an id of two bytes may be too large for one.                 *)
(***************************************************************************)
EXTENDS Types

\* the types of Go structs
Numeric == "Numeric"
Lists   == "Lists"
Tree    == "Tree"
Entry   == "Entry"
Leaf    == "Leaf"
Small   == "Small"
Arrays  == "Arrays"
Deep    == "Deep"

Field(tag, wire, dec, at) ==
  [tag |-> tag, wire |-> wire, dec |-> dec, val |-> "varint", word |-> Word, signed |-> FALSE,
   appends |-> FALSE, stype |-> Leaf, len |-> 0, at |-> at]
NumberField(tag, wire, val, word, at) ==
  [Field(tag, wire, "number", at) EXCEPT !.val = val, !.word = word, !.signed = val # "varint"]
CustomField(tag, wire, dec, appends, at) == [Field(tag, wire, dec, at) EXCEPT !.appends = appends]
MessageField(tag, dec, stype, len, at) == [Field(tag, WireBytes, dec, at) EXCEPT !.stype = stype, !.len = len]

MCFields == [t \in {Numeric, Lists, Tree, Entry, Leaf, Small, Arrays, Deep} |->
  CASE t = Numeric ->
         <<NumberField(1, 0, "varint", 16, 0), NumberField(2, 0, "zigzag32", Word32, 1),
           NumberField(4, 5, "fixed32", Word32, 2), NumberField(7, 0, "varint", 2, 3),
           NumberField(8, 0, "zigzag64", 16, 4), Field(9, 0, "nothing", 5),
           [Field(10, 0, "ptrNumber", 6) EXCEPT !.word = 16, !.signed = TRUE],
           NumberField(20, 1, "fixed64", Word, 5)>>
    [] t = Lists ->
         <<Field(1, 2, "strings", 0), [Field(2, 2, "stringArray", 1) EXCEPT !.len = 2],
           [Field(3, 2, "packed", 3) EXCEPT !.val = "zigzag64"],
           [Field(4, 2, "packedArray", 4) EXCEPT !.len = 2, !.word = 16],
           CustomField(5, 2, "custom", TRUE, 6), CustomField(7, 2, "ptrCustoms", TRUE, 17),
           CustomField(8, 0, "customs", FALSE, 7),
           [CustomField(9, 2, "customArray", FALSE, 8) EXCEPT !.len = 2],
           [Field(10, 2, "byteArray", 10) EXCEPT !.len = 3], Field(11, 2, "ptrBytes", 13),
           CustomField(12, 5, "ptrCustom", TRUE, 14), CustomField(13, 2, "customs", TRUE, 15),
           CustomField(14, 2, "custom", FALSE, 16),
           [CustomField(15, 2, "ptrCustomArray", FALSE, 18) EXCEPT !.len = 2]>>
    [] t = Tree ->
         <<Field(1, 2, "bytes", 0), MessageField(2, "ptr", Tree, 0, 1), MessageField(3, "structs", Tree, 0, 2),
           MessageField(4, "map", Entry, 0, 3), MessageField(6, "struct", Leaf, 0, 4),
           MessageField(7, "struct", Small, 0, 7)>>
    [] t = Entry  -> <<NumberField(1, 0, "varint", Word, 0), MessageField(2, "ptr", Tree, 0, 1)>>
    [] t = Leaf   -> <<[Field(1, 2, "stringArray", 0) EXCEPT !.len = 2], NumberField(2, 0, "varint", Word, 2)>>
    [] t = Small  -> <<NumberField(1, 0, "zigzag64", Word, 0)>>
    [] t = Arrays -> <<MessageField(1, "structArray", Leaf, 2, 0), MessageField(2, "ptrArray", Leaf, 2, 6),
                       MessageField(3, "ptrs", Leaf, 0, 8)>>
    [] t = Deep   -> <<MessageField(1, "ptr", Arrays, 0, 0), MessageField(2, "structs", Deep, 0, 1)>>]

MCSize == [t \in DOMAIN MCFields |->
  CASE t = Numeric -> 7 [] t = Lists -> 20 [] t = Tree -> 8 [] t = Entry -> 2 [] t = Leaf -> 3
    [] t = Small -> 1 [] t = Arrays -> 9 [] t = Deep -> 2]
=============================================================================
