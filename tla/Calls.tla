---------------------------------- MODULE Calls ----------------------------------
(***************************************************************************)
(* What Marshal and Unmarshal promise to goroutines that call them at the  *)
(* same time: each call is answered by its arguments and by the struct it  *)
(* decodes into, as if it had a new Buffer, and nobody else called.        *)
(***************************************************************************)
EXTENDS Integers, Sequences

CONSTANTS
  Procs, ArrayLen, Paths,
  Lists  \* the lists of items that values and messages consist of, from the outermost to the innermost

VARIABLES request, reply

None == "no error"

FirstError(e, f) == IF e = None THEN f ELSE e

-----------------------------------------------------------------------------

Items(bytes, err) == [bytes |-> bytes, err |-> err]

\* What a field becomes, when inner is what the list within it becomes.
Field(f, inner) ==
  CASE f.kind = "failing" -> Items(<<>>, "failed")
    [] f.kind = "custom"  ->
         Items(IF inner.err # None \/ inner.bytes = <<>> THEN <<>> ELSE <<[f EXCEPT !.of = inner.bytes]>>, inner.err)
    [] f.kind = "packed" /\ f.of = <<>> -> Items(<<>>, None)
    [] OTHER -> Items(<<f>>, None)

\* the items of all fields, and the first error
Both(e, f) == Items(e.bytes \o f.bytes, FirstError(e.err, f.err))

Encoded[v \in Lists] ==
  IF v = <<>> THEN Items(<<>>, None) ELSE Both(Field(Head(v), Encoded[Head(v).of]), Encoded[Tail(v)])

Marshaled(r) ==
  LET e == Encoded[r.of] IN [bytes |-> IF e.err = None THEN e.bytes ELSE <<>>, err |-> e.err, struct |-> r.into]

-----------------------------------------------------------------------------

Arrays   == [Paths -> [1..ArrayLen -> Int]]
Counts   == [Paths -> 0..ArrayLen]
Outcomes == [into : Arrays, counts : Counts, err : {None, "too deep", "bad"}]

NoneFilled == [path \in Paths |-> 0]

\* Items that are left to decode into the struct at a path, at some depth, when counts is how many
\* elements the arrays have got from this call.
Decoders ==
  [items : Lists, at : Seq({"message", "custom"}), depth : Nat, max : Nat,
   into : Arrays, counts : Counts, err : {None, "too deep", "bad"}]

\* The decoder of a list within: the limit is checked before anything else.
Nested(d, items, at, depth, counts) ==
  [d EXCEPT !.items = items, !.at = at, !.depth = depth, !.counts = counts, !.err = IF depth > d.max THEN "too deep" ELSE @]

MessageIn(d) == Nested(d, Head(d.items).of, Append(d.at, "message"), d.depth + 1, d.counts)
CustomIn(d)  == Nested(d, Head(d.items).of, Append(d.at, "custom"), 1, NoneFilled)

\* a number, if the struct has an array that is not full
Stored(d, x) ==
  IF d.at \in Paths /\ d.counts[d.at] < ArrayLen
  THEN [d EXCEPT !.into[d.at][d.counts[d.at] + 1] = x, !.counts[d.at] = @ + 1] ELSE d

AllNumbers(m) == \A k \in DOMAIN m : m[k].kind = "number"

\* What is left after the first item, when in and self are the outcomes of the lists within it.
After(d, in, self) ==
  LET item == Head(d.items)
      rest == [d EXCEPT !.items = Tail(@)]
  IN  CASE item.kind = "number"  -> Stored(rest, item.x)
        [] item.kind = "message" -> [rest EXCEPT !.into = in.into, !.counts = in.counts, !.err = in.err]
        [] item.kind = "custom"  -> [rest EXCEPT !.into = self.into, !.err = self.err]
        [] item.kind = "duration" /\ AllNumbers(item.of) -> rest
        [] OTHER -> [rest EXCEPT !.err = "bad"]

\* An error ends it.
Decoded[d \in Decoders] ==
  IF d.items = <<>> \/ d.err # None THEN [into |-> d.into, counts |-> d.counts, err |-> d.err]
  ELSE Decoded[After(d, Decoded[MessageIn(d)], Decoded[CustomIn(d)])]

Unmarshaled(r) ==
  LET d == [items |-> <<>>, at |-> <<>>, depth |-> 0, max |-> r.max, into |-> r.into, counts |-> NoneFilled, err |-> None]
      s == Decoded[Nested(d, r.of, <<>>, 1, NoneFilled)]
  IN  [bytes |-> <<>>, err |-> s.err, struct |-> s.into]

Answer(r) == IF r.op = "Marshal" THEN Marshaled(r) ELSE Unmarshaled(r)

-----------------------------------------------------------------------------

\* a call with any arguments
Call(p) == /\ request[p].op = "none"
           /\ request'[p].op \in {"Marshal", "Unmarshal"}
           /\ request' = [request EXCEPT ![p] = request'[p]]
           /\ UNCHANGED reply

Return(p) == /\ request[p].op # "none" /\ reply[p] = {}
             /\ reply' = [reply EXCEPT ![p] = {Answer(request[p])}]
             /\ UNCHANGED request

Take(p) == /\ reply[p] # {}
           /\ reply' = [reply EXCEPT ![p] = {}]
           /\ request'[p].op = "none"
           /\ request' = [request EXCEPT ![p] = request'[p]]

Init == /\ \A p \in Procs : request[p].op = "none"
        /\ reply = [p \in Procs |-> {}]

Next == \E p \in Procs : Call(p) \/ Return(p) \/ Take(p)

Spec == Init /\ [][Next]_<<request, reply>>
=============================================================================
