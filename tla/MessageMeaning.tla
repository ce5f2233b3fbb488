----------------------------- MODULE MessageMeaning -----------------------------
(***************************************************************************)
(* What Unmarshal promises (reference for Decoder): which byte strings are *)
(* messages of a type, and the value that each one means.  It is defined on*)
(* the items of the grammar, by recursion on nested messages: no position, *)
(* stack, search, memory or address.                                       *)
(*                                                                         *)
(* A struct is the sequence of its fields; an array the sequence of the    *)
(* elements given so far; a map a set of entries; Nil is a nil pointer.    *)
(***************************************************************************)
EXTENDS MessageGrammar, FiniteSets, SequencesExt

CONSTANTS Word, Word32, Fields

Nil == {}

FieldsOf(t) == 1..Len(Fields[t])
Wanted(t, item) == {k \in FieldsOf(t) : Fields[t][k].tag = IdOf(item)}
TheField(t, item) == Fields[t][CHOOSE k \in Wanted(t, item) : TRUE]

\* the value of an item proper
Content(item) == Rest(item, ValueStart(item))

\* the items of a message, in order
RECURSIVE ItemsOf(_)
ItemsOf(s) ==
  IF s = <<>> THEN <<>>
  ELSE LET n == CHOOSE k \in 1..Len(s) : IsItem(Prefix(s, k)) IN <<Prefix(s, n)>> \o ItemsOf(Rest(s, n))

RECURSIVE IsMessage(_)
IsMessage(s) == s = <<>> \/ \E k \in 1..Len(s) : IsItem(Prefix(s, k)) /\ IsMessage(Rest(s, k))

-----------------------------------------------------------------------------
(* numbers *)

NumberWire(p) == CASE p.val = "fixed32" -> 5 [] p.val = "fixed64" -> 1 [] OTHER -> 0

IsNumber(p, s) == IsValue(NumberWire(p), s) /\ (NumberWire(p) = 0 => IsVarint(s))

RECURSIVE Unsigned(_)
Unsigned(s) == IF s = <<>> THEN 0 ELSE s[1] + 256 * Unsigned(Tail(s))

\* zigzag: 0, -1, 1, -2, ... in two's complement, of a field's size
Signed(x) == IF x % 2 = 0 THEN x \div 2 ELSE -((x + 1) \div 2)

NumberOf(p, s) ==
  LET u == CASE NumberWire(p) # 0 -> Unsigned(s)
             [] p.val = "varint" -> ValueOf(s)
             [] p.val = "zigzag64" -> Signed(ValueOf(s))
             [] p.val = "zigzag32" -> Signed(ValueOf(s) % Word32)
  IN  IF p.word = 2 THEN (IF u = 0 THEN 0 ELSE 1) ELSE u % p.word

\* packed numbers
RECURSIVE IsPacked(_, _)
IsPacked(p, s) == s = <<>> \/ \E k \in 1..Len(s) : IsNumber(p, Prefix(s, k)) /\ IsPacked(p, Rest(s, k))

RECURSIVE Packed(_, _)
Packed(p, s) ==
  IF s = <<>> THEN <<>>
  ELSE LET n == CHOOSE k \in 1..Len(s) : IsNumber(p, Prefix(s, k))
       IN  <<NumberOf(p, Prefix(s, n))>> \o Packed(p, Rest(s, n))

-----------------------------------------------------------------------------
(* messages *)

Nested == {"struct", "ptr", "structs", "structArray", "ptrs", "ptrArray", "map"}

\* s is a message of type t: an id is that of no field, or the value is one of the field's
RECURSIVE Fits(_, _)
Fits(t, s) ==
  /\ IsMessage(s)
  /\ \A i \in DOMAIN ItemsOf(s) :
       LET item == ItemsOf(s)[i]
           p    == TheField(t, item)
       IN  /\ IdOf(item) \in 1..(Word32 - 1)
           /\ Wanted(t, item) # {} =>
                /\ WireOf(item) = p.wire
                /\ p.dec # "nothing"  \* an array of no elements has no values
                /\ p.dec \in {"number", "ptrNumber"} => IsNumber(p, Content(item))
                /\ p.dec \in {"packed", "packedArray"} => IsPacked(p, Content(item))
                /\ p.dec \in Nested => Fits(p.stype, Content(item))
                \* an entry has its two fields and nothing else, with keys of one byte
                /\ p.dec = "map" => \A e \in ToSet(ItemsOf(Content(item))) :
                                      KeyLen(e) = 1 /\ Wanted(p.stype, e) # {}

RECURSIVE ZeroOf(_)
ZeroOf(t) ==
  [k \in FieldsOf(t) |->
     CASE Fields[t][k].dec = "number" -> 0
       [] Fields[t][k].dec = "struct" -> ZeroOf(Fields[t][k].stype)
       [] Fields[t][k].dec \in {"ptr", "map", "ptrNumber", "ptrBytes", "ptrCustom"} -> Nil
       [] OTHER -> <<>>]

\* the elements that fit
Capped(p, list) == SubSeq(list, 1, IF Len(list) < p.len THEN Len(list) ELSE p.len)

\* numbers in one block: they replace the first elements of the array
Over(new, old) == new \o SubSeq(old, Len(new) + 1, Len(old))

\* The value that s means, merged into v: numbers and strings are replaced, lists go on, and
\* nested messages are merged.
RECURSIVE Merged(_, _, _)
Merged(t, s, v) ==
  LET Add(w, item) ==
        LET k   == CHOOSE j \in Wanted(t, item) : TRUE
            p   == Fields[t][k]
            c   == Content(item)
            Of(old) == Merged(p.stype, c, old)
            fresh   == Of(ZeroOf(p.stype))
            new == CASE p.dec = "number" -> NumberOf(p, c)
                     [] p.dec = "ptrNumber" -> {NumberOf(p, c)}
                     [] p.dec \in {"bytes", "custom"} -> c
                     [] p.dec \in {"ptrBytes", "ptrCustom"} -> {c}
                     [] p.dec = "byteArray" -> Over(Capped(p, c), w[k])
                     [] p.dec \in {"strings", "customs", "ptrCustoms"} -> Append(w[k], c)
                     [] p.dec \in {"stringArray", "customArray", "ptrCustomArray"} -> Capped(p, Append(w[k], c))
                     [] p.dec = "packed" -> w[k] \o Packed(p, c)
                     [] p.dec = "packedArray" -> Over(Capped(p, Packed(p, c)), w[k])
                     [] p.dec = "struct" -> Of(w[k])
                     [] p.dec = "ptr" -> {IF w[k] = Nil THEN fresh ELSE Of(CHOOSE x \in w[k] : TRUE)}
                     [] p.dec \in {"structs", "ptrs"} -> Append(w[k], fresh)
                     [] p.dec \in {"structArray", "ptrArray"} -> Capped(p, Append(w[k], fresh))
                     [] p.dec = "map" -> {x \in w[k] : x[1] # fresh[1]} \cup {fresh}
                     [] OTHER -> w[k]
        IN  IF Wanted(t, item) = {} THEN w ELSE [w EXCEPT ![k] = new]
  IN  FoldLeft(Add, v, ItemsOf(s))

\* all elements of an array: those not given are zero
Padded(p, list, zero) == [i \in 1..p.len |-> IF i <= Len(list) THEN list[i] ELSE zero]

\* the value as a Go value
RECURSIVE Full(_, _)
Full(t, v) ==
  [k \in FieldsOf(t) |->
     LET p == Fields[t][k]
         Whole(x) == Full(p.stype, x)
         wholes   == [i \in DOMAIN v[k] |-> Whole(v[k][i])]
         Pointers(list) == [i \in DOMAIN list |-> {list[i]}]
     IN  CASE p.dec \in {"stringArray", "customArray"} -> Padded(p, v[k], <<>>)
           [] p.dec \in {"packedArray", "byteArray"} -> Padded(p, v[k], 0)
           [] p.dec = "struct" -> Whole(v[k])
           [] p.dec \in {"ptr", "map"} -> {Whole(x) : x \in v[k]}
           [] p.dec = "structs" -> wholes
           [] p.dec = "ptrs" -> Pointers(wholes)
           [] p.dec = "structArray" -> Padded(p, wholes, Whole(ZeroOf(p.stype)))
           [] p.dec = "ptrArray" -> Padded(p, Pointers(wholes), Nil)
           [] p.dec = "ptrCustoms" -> Pointers(v[k])
           [] p.dec = "ptrCustomArray" -> Padded(p, Pointers(v[k]), Nil)
           [] OTHER -> v[k]]

Meaning(t, s) == Full(t, Merged(t, s, ZeroOf(t)))

\* how deep the nested messages and map entries go
RECURSIVE Nesting(_, _)
Nesting(t, s) ==
  LET inner == {Nesting(TheField(t, item).stype, Content(item)) :
                  item \in {x \in ToSet(ItemsOf(s)) : Wanted(t, x) # {} /\ TheField(t, x).dec \in Nested}}
  IN  1 + IF inner = {} THEN 0 ELSE CHOOSE n \in inner : \A m \in inner : m <= n
=============================================================================
