--------------------------- MODULE BufferPoolRefinement ---------------------------
(***************************************************************************)
(* BufferPool implements Calls: calls that share pooled Buffers are        *)
(* answered as if each were alone.                                         *)
(***************************************************************************)
EXTENDS BufferPool

CONSTANTS
  Lists,  \* the values, the messages, and all lists of items that they consist of
  Size    \* of a list: larger than that of the lists it consists of

ASSUME ListsAssumption ==
  /\ Values \subseteq Lists /\ Messages \subseteq Lists
  /\ \A v \in Lists :
       /\ v \in Seq({v[k] : k \in DOMAIN v}) /\ Size[v] \in Nat
       /\ v # <<>> => /\ Head(v) = [Item(Head(v).kind, Head(v).of) EXCEPT !.x = Head(v).x]
                      /\ Head(v).x \in Int /\ (Head(v).kind # "number" => Head(v).x = 0)
                      /\ {Tail(v), Head(v).of} \subseteq Lists
                      /\ Size[Tail(v)] < Size[v] /\ Size[Head(v).of] < Size[v]

Promise == INSTANCE Calls

\* Whatever other calls do, and whatever the Buffers that a call gets have been used for, it returns
\* what it would with a new Buffer, and leaves the struct that it decodes into as it would then.
Implements == Promise!Spec
=================================================================================
