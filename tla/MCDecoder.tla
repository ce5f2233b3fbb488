-------------------------------- MODULE MCDecoder --------------------------------
(***************************************************************************)
(* Messages of the types of MCTypes, for the decoder.                      *)
(***************************************************************************)
EXTENDS Decoder, MCTypes

Means == INSTANCE MessageMeaning

MCRoots == {Numeric, Lists, Tree, Arrays}

\* an item of the wire type bytes
Bits(id, s) == <<8 * id + 2, Len(s)>> \o s

LeafMessages == {<<>>, <<16, 1>> \o Bits(1, <<8>>), Bits(1, <<1>>) \o Bits(1, <<2>>) \o Bits(1, <<3>>)}

Items(t) ==
  CASE t = Numeric ->
         {<<72, 5>>, <<8, 5>>, <<8, 149, 1>>, <<16, 3>>, <<16, 130, 2>>, <<37, 1, 2, 0, 0>>, <<56, 0>>, <<56, 128, 2>>,
          <<64, 5>>, <<80, 0>>, <<80, 17>>, <<161, 1, 9, 1, 0, 0, 0, 0, 0, 0>>, <<40, 1>>, <<136, 128, 0, 4>>,
          <<136, 16, 3>>, <<160, 17, 3>>}   \* the ids 257 and 276
    [] t = Lists ->
         {Bits(1, <<>>), Bits(1, <<1>>), Bits(2, <<1>>), Bits(2, <<2>>), Bits(3, <<3, 130, 0>>), Bits(3, <<>>),
          Bits(4, <<5>>), Bits(4, <<1, 2, 3>>), Bits(5, <<9>>), Bits(6, <<8>>), Bits(7, <<1>>), Bits(7, <<>>),
          <<64, 7>>, <<64, 129, 0>>, Bits(9, <<1>>), Bits(9, <<2>>), Bits(10, <<1, 2, 3, 4>>), Bits(10, <<9>>), Bits(11, <<>>),
          <<101, 1, 2, 3, 4>>, Bits(13, <<7>>), Bits(15, <<3>>), Bits(15, <<4, 5>>)}
    [] t = Tree ->
         {Bits(1, <<5>>), Bits(2, <<>>), Bits(2, Bits(1, <<6>>)), Bits(2, Bits(3, <<>>) \o Bits(1, <<7>>)),
          Bits(3, Bits(2, Bits(3, <<>>))), Bits(3, Bits(2, Bits(3, Bits(2, <<>>)))),
          Bits(4, <<8, 1>>), Bits(4, <<8, 1>> \o Bits(2, Bits(1, <<9>>))), Bits(4, Bits(2, Bits(2, Bits(2, <<>>)))),
          Bits(4, <<16, 1>>), Bits(6, Bits(1, <<3>>)), Bits(6, <<16, 2>>), Bits(7, <<8, 3>>)}
    [] t = Arrays ->
         {Bits(k, m) : k \in 1..3, m \in LeafMessages}

\* illegal ids, values cut short, and lengths that wrap around to before the item
Odd == {<<0, 0>>, <<128, 128, 0>>, <<9, 1>>, <<10, 251, 255, 3>>, <<34, 251, 255, 3>>, <<50, 251, 255, 3>>, Bits(2, <<128, 128, 0>>), Bits(3, <<128, 128, 0>>),
         <<26, 2, 130>>, <<26, 3, 10>>, <<11>>}

Pairs(t) == {a \o b : a \in Items(t), b \in Items(t)}

WellFormed(t) ==
  {<<>>} \cup Items(t) \cup Pairs(t) \cup IF t = Arrays THEN {a \o b : a \in Items(t), b \in Pairs(t)} ELSE {}

\* and what is left of them where they are cut off, or followed by what makes no sense
MCMessages == [t \in MCRoots |->
  LET whole == WellFormed(t)
  IN  whole \cup {SubSeq(s, 1, Len(s) - 1) : s \in whole \ {<<>>}}
            \cup {a \o b : a \in Items(t), b \in Odd} \cup {b \o a : a \in Items(t), b \in Odd}]

-----------------------------------------------------------------------------

\* the value that is in memory
RECURSIVE View(_, _)
View(t, base) ==
  [k \in FieldsOf(t) |->
     LET p == Fields[t][k]
         a == <<base[1], base[2] + p.at>>
         Pointed(x) == IF x = 0 THEN {} ELSE {View(p.stype, x)}
     IN  CASE p.dec = "number" -> Get(a, 0)
           [] p.dec \in {"ptrNumber", "ptrBytes", "ptrCustom"} -> IF a \in DOMAIN mem THEN {mem[a]} ELSE {}
           [] p.dec \in {"bytes", "strings", "packed", "custom", "customs"} -> Get(a, <<>>)
           [] p.dec = "ptrCustoms" -> [i \in DOMAIN Get(a, <<>>) |-> {mem[a][i]}]
           [] p.dec = "ptrCustomArray" ->
                [i \in 1..p.len |-> LET s == Slot(a, i - 1, 1) IN IF s \in DOMAIN mem THEN {mem[s]} ELSE {}]
           [] p.dec = "nothing" -> <<>>
           [] p.dec \in {"stringArray", "customArray"} -> [i \in 1..p.len |-> Get(Slot(a, i - 1, 1), <<>>)]
           [] p.dec \in {"packedArray", "byteArray"} -> [i \in 1..p.len |-> Get(Slot(a, i - 1, 1), 0)]
           [] p.dec = "struct" -> View(p.stype, a)
           [] p.dec = "ptr" -> IF a \in DOMAIN mem THEN {View(p.stype, mem[a])} ELSE {}
           [] p.dec = "map" -> {View(p.stype, <<o, 0>>) : o \in Get(a, {})}
           [] p.dec = "structs" -> [i \in DOMAIN Get(a, <<>>) |-> View(p.stype, mem[a][i])]
           [] p.dec = "ptrs" -> [i \in DOMAIN Get(a, <<>>) |-> {View(p.stype, mem[a][i])}]
           [] p.dec = "structArray" -> [i \in 1..p.len |-> View(p.stype, Slot(a, i - 1, Size[p.stype]))]
           [] p.dec = "ptrArray" ->
                [i \in 1..p.len |->
                   LET s == Slot(a, i - 1, 1) IN IF s \in DOMAIN mem THEN {View(p.stype, mem[s])} ELSE {}]]

Returned == Idle /\ result # NotCalled

\* what Unmarshal makes of a message that fits its type, in a pb that was zero
DecodesAll ==
  Means!Fits(root, msg) =>
    \/ result = None /\ View(root, Pb) = Means!Meaning(root, msg)
    \/ result = TooDeep /\ Means!Nesting(root, msg) > MaxDepth
    \/ result = Rejected

\* Unmarshal places the value of the message in *pb: field by field, in the order of the items,
\* merged as protobuf merges.  It refuses no message that fits, but one that is nested deeper
\* than MaxRecursionDepth.  (No index of an array is left from an earlier call.)
Decodes == (Returned /\ began.at = 0 /\ began.depth = 0 /\ began.fresh /\ began.zeroed) => DecodesAll

=============================================================================
