------------------------------ MODULE MessageItems ------------------------------
(***************************************************************************)
(* What the scanning methods of Buffer promise (abstract specification of  *)
(* Scanner): the items of the message in their order.  The position is     *)
(* always between two items, until something goes wrong; from then on no   *)
(* promise is made until the client rewinds.                               *)
(***************************************************************************)
EXTENDS MessageGrammar, FiniteSets

VARIABLES
  msg,   \* the bytes
  pos,   \* the end of the last item read, or Lost
  reply  \* the last call and its answer

Lost == -1

Slice(i, j)  == SubSeq(msg, i + 1, j)
ItemAt(i, j) == i < j /\ IsItem(Slice(i, j))

ItemEnds(i)  == {j \in i..Len(msg) : ItemAt(i, j)}

\* the places where an item may start, or the message end, from pos on
Reached ==
  LET From[i \in 0..Len(msg)] == {i} \cup UNION {From[j] : j \in ItemEnds(i)}
  IN  From[pos]

Suffix(i) == Slice(i, Len(msg))

\* the answers
IsItemReply(got, i, j) ==
  LET s == Slice(i, j)
  IN  /\ got.err = "none"
      /\ got.full = <<i, j>>
      /\ got.val = <<i + ValueStart(s), j>>
      /\ got.id = IdOf(s)
      /\ got.wt = WireOf(s)

IsEnd(got)  == got.err = "none" /\ got.id = 0 /\ got.wt = 0 /\ got.full = <<0, 0>> /\ got.val = <<0, 0>>
IsMiss(got) == got.err = "ErrNotFound" /\ got.full = <<0, 0>> /\ got.val = <<0, 0>>
IsBad(got)  == got.err \notin {"none", "ErrNotFound"}

-----------------------------------------------------------------------------

\* every byte string, read from its start
Init == pos = 0

NextReply(got) ==
  \/ pos = Len(msg) /\ IsEnd(got) /\ pos' = pos
  \/ \E j \in ItemEnds(pos) : IsItemReply(got, pos, j) /\ pos' = j
  \/ pos < Len(msg) /\ ItemEnds(pos) = {} /\ IsBad(got) /\ pos' = Lost

\* The search ends at the first item with this id, or with a larger one in a message that
\* is said to be sorted.
FindReply(id, sorted, got) ==
  LET keyed == {i \in Reached : i < Len(msg) /\ Keyed(Suffix(i))}
      stops == {i \in keyed : IdOf(Suffix(i)) = id \/ (sorted /\ IdOf(Suffix(i)) > id)}
      stop  == CHOOSE i \in stops : \A j \in stops : i <= j
  IN  IF stops = {}
      THEN IF Len(msg) \in Reached THEN IsMiss(got) /\ pos' = Len(msg) ELSE IsBad(got) /\ pos' = Lost
      ELSE IF IdOf(Suffix(stop)) # id THEN IsMiss(got) /\ pos' = Lost
      ELSE \/ \E j \in ItemEnds(stop) : IsItemReply(got, stop, j) /\ pos' = j
           \/ ItemEnds(stop) = {} /\ IsBad(got) /\ pos' = Lost

\* as Find, and an item found has to be of wire type bytes
FindBytesReply(id, sorted, got) ==
  \/ FindReply(id, sorted, got) /\ (got.err = "none" => got.wt = 2)
  \/ /\ IsMiss(got)
     /\ \E i \in pos..pos', wt \in {0, 1, 5} :
          LET found == [got EXCEPT !.err = "none", !.id = id, !.wt = wt, !.full = <<i, pos'>>,
                                   !.val = <<i + ValueStart(Slice(i, pos')), pos'>>]
          IN  ItemAt(i, pos') /\ FindReply(id, sorted, found)

\* the ends of the items before the first one that is different
Alike(tag, wt) ==
  LET Same(i) == {j \in ItemEnds(i) : IdOf(Slice(i, j)) = tag /\ WireOf(Slice(i, j)) = wt}
      From[i \in 0..Len(msg)] == UNION {{j} \cup From[j] : j \in Same(i)}
  IN  From[pos]

CountReply(tag, wt, n) == n = Cardinality(Alike(tag, wt)) /\ pos' = pos

\* a call that returns, and its answer
Promised(to, got) ==
  \/ to.name = "Next" /\ NextReply(got)
  \/ to.name = "Find" /\ FindReply(to.id, to.sorted, got)
  \/ to.name = "FindBytes" /\ FindBytesReply(to.id, to.sorted, got)
  \/ to.name = "count_ahead" /\ CountReply(to.id, to.wt, got.n)

Next ==
  /\ msg' = msg
  /\ \/ pos # Lost /\ Promised(reply'.to, reply'.got)
     \/ reply'.to.name = "none" /\ pos' = pos  \* the client waits for an answer
     \/ pos = Lost /\ pos' = Lost
     \/ reply'.to.name = "Rewind" /\ pos' = 0

SafeSpec == Init /\ [][Next]_<<msg, pos, reply>>
=============================================================================
