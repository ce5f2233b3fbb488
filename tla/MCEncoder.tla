-------------------------------- MODULE MCEncoder --------------------------------
(***************************************************************************)
(* Values of the types of MCTypes, for the encoder.                        *)
(***************************************************************************)
EXTENDS Encoder, MCTypes

Means == INSTANCE MessageMeaning

MCRoots == {Numeric, Lists, Tree, Arrays, Deep}
Bad == <<255>>
MCRefused == {Bad}

\* Lengths take one byte up to 127.
Long(n) == [k \in 1..n |-> 200]

\* zero, one field of another value, or all of them
Around(zero, others) ==
  {zero, [k \in DOMAIN zero |-> others[k][Len(others[k])]]} \cup
  UNION {{[zero EXCEPT ![k] = others[k][j]] : j \in 1..Len(others[k])} : k \in DOMAIN zero}

ZeroLeaf  == << << <<>>, <<>> >>, 0>>
LeafOf(n) == << << <<n>>, <<>> >>, n>>

ZeroTree == << <<>>, {}, <<>>, {}, ZeroLeaf, <<0>> >>
Trees(s) == [ZeroTree EXCEPT ![1] = s]
SubTree  == << <<6>>, {Trees(<<7>>)}, <<ZeroTree, Trees(<<8>>)>>, {}, LeafOf(3), <<4>> >>

TwoLeaves(c) == << <<ZeroLeaf, LeafOf(1)>>, <<{LeafOf(2)}, {ZeroLeaf}>>, c>>

Marshaled == [t \in MCRoots |->
  CASE t = Numeric ->
         Around(<<0, 0, 0, 0, 0, <<>>, {}, 0>>,
                << <<7, 15>>, <<5, Word32 - 1>>, <<9, 200>>, <<1>>, <<3, 8>>, << <<>> >>, <<{0}, {12}>>, <<300>> >>)
    [] t = Lists ->
         Around(<< <<>>, << <<>>, <<>> >>, <<>>, <<0, 0>>, <<>>, <<>>, <<>>, << <<>>, <<>> >>, <<0, 0, 0>>, {}, {}, <<>>, <<>>,
                   <<{<<1>>}, {<<2>>}>> >>,
                << << << <<>>, <<1>> >> >>, << << <<2>>, <<3>> >> >>, << <<0, Word - 1>>, [k \in 1..64 |-> 100]>>, << <<1, 15>> >>,
                   <<Bad, Long(127), Long(128)>>, << <<{<<4>>}, {Bad}, {<<5>>}>>, <<{<<4>>}, {}>>, <<{<<>>}, {<<4>>}>> >>,
                   << <<Bad, <<7>> >>, << <<7>>, <<130, 0>> >> >>, << <<Bad, Bad>>, << <<>>, <<8>> >> >>,
                   << <<1, 0, 2>> >>, <<{<<>>}>>, <<{<<1, 2, 3, 4>>}>>,
                   << <<Bad, <<3>> >>, << <<>>, Long(128)>> >>, <<Bad, <<4>> >>,
                   << <<{Bad}, {<<2>>}>>, <<{<<>>}, {}>>, <<{<<>>}, {<<2>>}>> >> >>)
    [] t = Tree ->
         Around(ZeroTree,
                << <<Long(130), <<5>>>>, <<{ZeroTree}, {SubTree}, {Trees(Long(124))}>>,
                   <<<<ZeroTree, Trees(Long(125))>>, <<Trees(<<1>>)>>>>,
                   <<{<<0, {}>>}, {<<1, {SubTree}>>}, {<<1, {}>>, <<2, {Trees(<<3>>)}>>}>>,
                   <<LeafOf(3)>>, <<<<Word - 1>>>> >>)
    [] t = Arrays ->
         {<<a, b, c>> : a \in {<<ZeroLeaf, ZeroLeaf>>, <<LeafOf(1), LeafOf(2)>>},
                        b \in {<<{ZeroLeaf}, {LeafOf(2)}>>, <<{LeafOf(1)}, {}>>},
                        c \in {<<>>, <<{LeafOf(1)}, {LeafOf(2)}, {ZeroLeaf}>>, <<{LeafOf(1)}, {}, {LeafOf(2)}>>}}
    [] t = Deep ->
         {<<{TwoLeaves(<<>>)}, << <<{TwoLeaves(c)}, <<>> >>, <<{}, <<>> >> >> >> : c \in {<<>>, <<{}, {LeafOf(1)}>>}}]

\* a value and the structs within it
RECURSIVE Parts(_, _)
Parts(t, v) ==
  {<<t, v>>} \cup UNION {UNION {Parts(Fields[t][k].stype, x) : x \in Within(Fields[t][k], v[k])} : k \in FieldsOf(t)}

MCStructs == UNION {UNION {Parts(t, v) : v \in Marshaled[t]} : t \in MCRoots}
MCValues  == [t \in DOMAIN MCFields |-> {w[2] : w \in {u \in MCStructs : u[1] = t}}]
MCHeight  == [t \in DOMAIN MCFields |-> [v \in MCValues[t] |-> Cardinality(Parts(t, v))]]

-----------------------------------------------------------------------------

Written == SubSeq(buf, began + 1, Len(buf))

\* What Marshal has written without an error is a message of the type, and it means the value
\* that was passed in: Unmarshal of it is that value again.
Encodes ==
  (Returned /\ result = None /\ value # NoValue) => (Means!Fits(root, Written) /\ Means!Meaning(root, Written) = value)

\* Behind the tag and length of an open message only whole items have been written so far, if no
\* error was noted: a length covers what belongs to its message and nothing else.
ItemsSoFar ==
  err = None =>
    \A k \in 1..Len(stack) :
      Means!IsMessage(SubSeq(buf, stack[k].iMsg + 1, IF k = Len(stack) THEN Len(buf) ELSE stack[k + 1].iTag))
=============================================================================
