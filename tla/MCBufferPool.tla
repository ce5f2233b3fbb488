------------------------------- MODULE MCBufferPool -------------------------------
(***************************************************************************)
(* Values and messages for BufferPool: with packed numbers, with types that*)
(* marshal themselves, one of which fails, and with messages that are      *)
(* nested too deep, that are broken, or that fill arrays.                  *)
(***************************************************************************)
EXTENDS BufferPoolRefinement, TLC

\* The goroutines do the same.
Symmetry == Permutations(Procs)

MCValues ==
  {<<Packed(<<Number(1)>>), Failing, Number(2)>>,
   <<Number(3), Packed(<<>>), Custom(<<Number(4)>>)>>,
   <<Custom(<<Failing>>)>>}

MCMessages ==
  {<<Number(1), Inner(<<Number(2)>>), Number(3)>>,
   <<Inner(<<Inner(<<>>)>>)>>,
   <<Custom(<<Number(6), Bad>>)>>,
   <<Duration(<<Number(1)>>), Duration(<<Bad>>)>>}

MCPaths == {<<>>, <<"message">>, <<"message", "message">>, <<"custom">>}

\* the lists that v consists of, and how many items there are in them
RECURSIVE ListsOf(_)
ListsOf(v) == {v} \cup IF v = <<>> THEN {} ELSE ListsOf(Tail(v)) \cup ListsOf(Head(v).of)

MCLists == UNION {ListsOf(v) : v \in MCValues \cup MCMessages}

RECURSIVE Items(_)
Items(v) == IF v = <<>> THEN 0 ELSE 1 + Items(Tail(v)) + Items(Head(v).of)

MCSize == [v \in MCLists |-> Items(v)]
=============================================================================
