---------------------------- MODULE BufferPool_proofs ----------------------------
(***************************************************************************)
(* Proofs about BufferPool, for any goroutines, Buffers, values and        *)
(* messages: a Buffer has one user at a time, and is as new in the pool,   *)
(* and BufferPool implements Calls.                                        *)
(*                                                                         *)
(* The first invariant says of each stack by itself that calls have        *)
(* Buffers of their own (Good), of all stacks and the pool that they have  *)
(* no Buffer in common, and of the heap that what is in the pool or is     *)
(* about to be put there has been cleared.  StepKeeps is the common effect *)
(* of all steps of a goroutine: it takes Buffers that nobody has and gives *)
(* some to the pool.                                                       *)
(*                                                                         *)
(* The second invariant, Answered, says of each goroutine in a call that   *)
(* there is, for each call on its stack, what that call comes to: the call *)
(* on top from what is left of its Buffer and of its fields or items       *)
(* (AtTop), each call below from that and from what the one above it comes *)
(* to (Linked), and the first one to what the client was promised (Asked). *)
(* A step of a goroutine keeps what its calls come to, and changes no      *)
(* Buffer of the others.                                                   *)
(*                                                                         *)
(* The answers are functions defined by recursion over lists.  That they   *)
(* exist is proved first, by induction on Size, with the set of the lists  *)
(* of each size in the place of an operator.                               *)
(*                                                                         *)
(* The types of variables follow from both invariants, and are last.       *)
(***************************************************************************)
EXTENDS BufferPoolRefinement, SequenceTheorems, FiniteSetTheorems, WellFoundedInduction, TLAPS

-----------------------------------------------------------------------------
(* frames and Buffers are records; values and messages may be anything *)

IsFrame(f) ==
  f = [x \in {"op", "b", "scratch", "todo", "numbers", "at", "saved", "result", "pc"} |-> f[x]]

Looks(f, op, b, scratch, pc) == IsFrame(f) /\ f.op = op /\ f.b = b /\ f.scratch = scratch /\ f.pc = pc

\* What changes in a frame leaves the rest as it is.
LEMMA FrameChanges ==
  ASSUME NEW f, IsFrame(f), NEW x, NEW y
  PROVE  /\ Looks([f EXCEPT !.pc = x], f.op, f.b, f.scratch, x)
         /\ Looks([f EXCEPT !.todo = Tail(@)], f.op, f.b, f.scratch, f.pc)
         /\ Looks([f EXCEPT !.numbers = Tail(@)], f.op, f.b, f.scratch, f.pc)
         /\ Looks([f EXCEPT !.scratch = x, !.numbers = y], f.op, f.b, x, f.pc)
         /\ Looks([f EXCEPT !.saved = x], f.op, f.b, f.scratch, f.pc)
         /\ Looks([f EXCEPT !.scratch = x], f.op, f.b, x, f.pc)
         /\ Looks([f EXCEPT !.result = x], f.op, f.b, f.scratch, f.pc)
         /\ Looks([f EXCEPT !.result.err = x], f.op, f.b, f.scratch, f.pc)
<1>1. Looks([f EXCEPT !.pc = x], f.op, f.b, f.scratch, x)  BY DEF IsFrame, Looks
<1>2. Looks([f EXCEPT !.todo = Tail(@)], f.op, f.b, f.scratch, f.pc)  BY DEF IsFrame, Looks
<1>3. Looks([f EXCEPT !.numbers = Tail(@)], f.op, f.b, f.scratch, f.pc)  BY DEF IsFrame, Looks
<1>4. Looks([f EXCEPT !.scratch = x, !.numbers = y], f.op, f.b, x, f.pc)  BY DEF IsFrame, Looks
<1>5. Looks([f EXCEPT !.saved = x], f.op, f.b, f.scratch, f.pc)  BY DEF IsFrame, Looks
<1>6. Looks([f EXCEPT !.scratch = x], f.op, f.b, x, f.pc)  BY DEF IsFrame, Looks
<1>7. Looks([f EXCEPT !.result = x], f.op, f.b, f.scratch, f.pc)  BY DEF IsFrame, Looks
<1>8. Looks([f EXCEPT !.result.err = x], f.op, f.b, f.scratch, f.pc)  BY DEF IsFrame, Looks
<1> QED  BY <1>1, <1>2, <1>3, <1>4, <1>5, <1>6, <1>7, <1>8

LEMMA NewFrame ==
  ASSUME NEW op, NEW b, NEW todo, NEW at
  PROVE  Looks(Frame(op, b, todo, at), op, b, {}, IF op = "Unmarshal" \/ op = "message" THEN "enter" ELSE "run")
BY DEF IsFrame, Looks, Frame

IsBuffer(h) == h = [x \in {"buf", "index", "err", "depth", "array_indexes", "max"} |-> h[x]]

IsNew(h) ==
  IsBuffer(h) /\ h.buf = <<>> /\ h.index = 0 /\ h.err = None /\ h.depth = 0 /\ h.array_indexes = NoIndexes

LEMMA BufferChanges ==
  ASSUME NEW h, IsBuffer(h), NEW x, NEW y
  PROVE  /\ IsBuffer([h EXCEPT !.buf = x, !.index = y])
         /\ IsBuffer([h EXCEPT !.index = x])
         /\ IsBuffer([h EXCEPT !.depth = x])
         /\ IsBuffer([h EXCEPT !.array_indexes[x] = y])
         /\ IsBuffer(newBuffer(h, x)) /\ IsBuffer(Put(h, x)) /\ IsBuffer(noteError(h, x))
         /\ IsNew(Cleared(h)) /\ IsBuffer(Cleared(h))
<1>1. IsBuffer([h EXCEPT !.buf = x, !.index = y])  BY DEF IsBuffer
<1>2. IsBuffer([h EXCEPT !.index = x])  BY DEF IsBuffer
<1>3. IsBuffer([h EXCEPT !.depth = x])  BY DEF IsBuffer
<1>4. IsBuffer([h EXCEPT !.array_indexes[x] = y])  BY DEF IsBuffer
<1>5. IsBuffer(newBuffer(h, x))  BY DEF IsBuffer, newBuffer
<1>6. IsBuffer(Put(h, x))  BY DEF IsBuffer, Put
<1>7. IsBuffer(noteError(h, x))  BY DEF IsBuffer, noteError
<1>8. IsNew(Cleared(h))  BY DEF IsBuffer, Cleared, IsNew
<1>9. IsBuffer(Cleared(h))  BY <1>8 DEF IsNew
<1> QED  BY <1>1, <1>2, <1>3, <1>4, <1>5, <1>6, <1>7, <1>8, <1>9

LEMMA NewBufferIsNew == ASSUME NEW m PROVE IsNew(NewBuffer(m)) /\ IsBuffer(NewBuffer(m))
<1>1. IsNew(NewBuffer(m))  BY DEF IsBuffer, NewBuffer, IsNew
<1> QED  BY <1>1 DEF IsNew

LEMMA NewIsNewBuffer == ASSUME NEW h, IsNew(h) PROVE h = NewBuffer(h.max)
<1> DEFINE D == {"buf", "index", "err", "depth", "array_indexes", "max"}
           n == NewBuffer(h.max)
<1>1. n = [x \in D |-> n[x]]  BY DEF NewBuffer
<1>2. \A x \in D : n[x] = h[x]  BY DEF NewBuffer, IsNew
<1>3. h = [x \in D |-> h[x]]  BY DEF IsNew, IsBuffer
<1>4. [x \in D |-> n[x]] = [x \in D |-> h[x]]  BY <1>2
<1> QED  BY <1>1, <1>3, <1>4

IsHeap(H) == H = [b \in Buffers |-> H[b]] /\ \A b \in Buffers : IsBuffer(H[b])

-----------------------------------------------------------------------------
(* sequences of anything *)

IsSeq(s) == s \in Seq({s[k] : k \in DOMAIN s})

LEMMA AnySeq == ASSUME NEW S, NEW s \in Seq(S) PROVE IsSeq(s) /\ Len(s) \in Nat /\ DOMAIN s = 1..Len(s)
BY DEF IsSeq

LEMMA StackLen == ASSUME NEW s, IsSeq(s) PROVE Len(s) \in Nat /\ DOMAIN s = 1..Len(s) /\ (s = <<>> <=> Len(s) = 0)
<1> DEFINE S == {s[k] : k \in DOMAIN s}
<1>1. s \in Seq(S)  BY DEF IsSeq
<1> HIDE DEF S
<1> QED  BY <1>1

\* a sequence of elements of S is one of a larger set
LEMMA LargerSeq ==
  ASSUME NEW S, NEW T, S \subseteq T, NEW s \in Seq(S)
  PROVE  s \in Seq(T)
<1>1. \A k \in 1..Len(s) : s[k] \in T  OBVIOUS
<1> QED  BY <1>1

\* t is s with g on it, s without the element on top, and s with another element on top
Push(s, g, t)    == IsSeq(t) /\ Len(t) = Len(s) + 1 /\ t[Len(t)] = g /\ \A k \in 1..Len(s) : t[k] = s[k]
Pop(s, t)        == IsSeq(t) /\ Len(t) = Len(s) - 1 /\ \A k \in 1..(Len(s) - 1) : t[k] = s[k]
Replace(s, f, t) == IsSeq(t) /\ Len(t) = Len(s) /\ t[Len(s)] = f /\ \A k \in 1..(Len(s) - 1) : t[k] = s[k]

LEMMA Pushed == ASSUME NEW s, IsSeq(s), NEW g PROVE Push(s, g, Append(s, g))
<1> DEFINE R == {s[k] : k \in DOMAIN s}
           S == R \cup {g}
<1>1. s \in Seq(R)  BY DEF IsSeq
<1>2. R \subseteq S /\ g \in S  OBVIOUS
<1> HIDE DEF R, S
<1>3. s \in Seq(S)  BY <1>1, <1>2, LargerSeq
<1>4. Append(s, g) \in Seq(S)  BY <1>2, <1>3
<1>5. IsSeq(Append(s, g))  BY <1>4, AnySeq
<1> QED  BY <1>2, <1>3, <1>5 DEF Push

LEMMA Popped == ASSUME NEW s, IsSeq(s), s # <<>> PROVE Pop(s, SubSeq(s, 1, Len(s) - 1))
<1> DEFINE S == {s[k] : k \in DOMAIN s}
           t == SubSeq(s, 1, Len(s) - 1)
           n == Len(s)
<1>1. s \in Seq(S)  BY DEF IsSeq
<1> HIDE DEF S
<1>2. n \in Nat \ {0}  BY <1>1
<1>3. \A k \in 1..(n - 1) : s[k] \in S  BY <1>1, <1>2
<1>4. /\ t \in Seq(S) /\ Len(t) = IF 1 <= n - 1 THEN n - 1 - 1 + 1 ELSE 0
      /\ \A k \in 1..(n - 1 - 1 + 1) : t[k] = s[1 + k - 1]
  BY <1>2, <1>3, SubSeqProperties
<1>5. IsSeq(t)  BY <1>4, AnySeq
<1> HIDE DEF t, n
<1>6. Len(t) = n - 1  BY <1>2, <1>4
<1>7. \A k \in 1..(n - 1) : k \in 1..(n - 1 - 1 + 1) /\ 1 + k - 1 = k  BY <1>2
<1>8. \A k \in 1..(n - 1) : t[k] = s[k]  BY <1>4, <1>7
<1> QED  BY <1>5, <1>6, <1>8 DEF n, t, Pop

LEMMA Replaced ==
  ASSUME NEW s, IsSeq(s), s # <<>>, NEW f
  PROVE  Replace(s, f, Append(SubSeq(s, 1, Len(s) - 1), f))
<1> DEFINE u == SubSeq(s, 1, Len(s) - 1)
<1>1. Len(s) \in Nat \ {0}  BY StackLen
<1>2. Pop(s, u)  BY Popped
<1>3. Push(u, f, Append(u, f))  BY <1>2, Pushed DEF Pop
<1> HIDE DEF u
<1>4. Replace(s, f, Append(u, f))  BY <1>1, <1>2, <1>3 DEF Pop, Push, Replace
<1> QED  BY <1>4 DEF u

LEMMA Excepted ==
  ASSUME NEW s, IsSeq(s), s # <<>>, NEW f
  PROVE  Replace(s, f, [s EXCEPT ![Len(s)] = f])
<1> DEFINE S == {s[k] : k \in DOMAIN s}
           T == S \cup {f}
           n == Len(s)
           t == [s EXCEPT ![n] = f]
<1>1. s \in Seq(S) /\ S \subseteq T /\ f \in T  BY DEF IsSeq
<1>2. n \in Nat /\ n \in 1..n  BY StackLen
<1> HIDE DEF S, T
<1>3. s \in Seq(T)  BY <1>1, LargerSeq
<1>4. t \in Seq(T) /\ Len(t) = Len(s) /\ \A k \in 1..Len(s) : t[k] = IF k = n THEN f ELSE s[k]
  <2> n \in 1..Len(s)  BY <1>2
  <2> HIDE DEF n
  <2> QED  BY <1>1, <1>3, ExceptSeq
<1>5. IsSeq(t)  BY <1>4, AnySeq
<1> HIDE DEF t
<1>6. Replace(s, f, t)  BY <1>2, <1>4, <1>5 DEF Replace
<1> QED  BY <1>6 DEF t

-----------------------------------------------------------------------------
(* one stack *)

BuffersIn(s) == UNION {BuffersOf(s[k]) : k \in DOMAIN s}

\* Only Marshal has a scratch buffer, and a message does not release the Buffer it shares.
FrameOK(f) ==
  /\ IsFrame(f)
  /\ f.scratch = {} \/ (f.op = "Marshal" /\ \E b \in f.scratch : f.scratch = {b} /\ b # f.b)
  /\ f.pc \in {"clear", "put"} => f.op # "message"

\* Calls have Buffers of their own, but for messages, and wait while there is a call above them.
Good(s) ==
  /\ IsSeq(s)
  /\ \A k \in 1..Len(s) : FrameOK(s[k])
  /\ \A k \in 1..Len(s) : k < Len(s) => s[k].pc = "run"
  /\ \A j, k \in 1..Len(s) : j < k /\ BuffersOf(s[j]) \cap BuffersOf(s[k]) # {} => s[k].op = "message"

LEMMA GoodEmpty == Good(<<>>) /\ BuffersIn(<<>>) = {}
BY DEF Good, IsSeq, BuffersIn

LEMMA InBuffers ==
  ASSUME NEW s, IsSeq(s), NEW x
  PROVE  x \in BuffersIn(s) <=> \E k \in 1..Len(s) : x \in BuffersOf(s[k])
BY StackLen DEF BuffersIn

\* The call on top shares Buffers with one below only if it is for a message.
LEMMA TopApart ==
  ASSUME NEW s, Good(s), s # <<>>, s[Len(s)].op # "message", NEW k \in 1..(Len(s) - 1)
  PROVE  BuffersOf(s[k]) \cap BuffersOf(s[Len(s)]) = {}
<1>1. Len(s) \in Nat /\ k \in 1..Len(s) /\ Len(s) \in 1..Len(s) /\ k < Len(s)  BY StackLen DEF Good
<1> QED  BY <1>1 DEF Good

\* The call on top changes, and may get Buffers that no call of the stack has, and lose some.
LEMMA GoodReplace ==
  ASSUME NEW s, Good(s), s # <<>>, NEW f, FrameOK(f), f.op = s[Len(s)].op, NEW N, N \cap BuffersIn(s) = {},
         BuffersOf(f) \subseteq BuffersOf(s[Len(s)]) \cup N, NEW t, Replace(s, f, t)
  PROVE  /\ Good(t) /\ t # <<>> /\ t[Len(t)] = f
         /\ BuffersIn(t) \subseteq BuffersIn(s) \cup N
         /\ f.op # "message" => (BuffersOf(s[Len(s)]) \ BuffersOf(f)) \cap BuffersIn(t) = {}
<1> DEFINE n == Len(s)
<1>1. IsSeq(s) /\ n \in Nat /\ n > 0  BY StackLen DEF Good
<1>2. IsSeq(t) /\ Len(t) = n /\ t[n] = f /\ \A k \in 1..(n - 1) : t[k] = s[k]  BY DEF Replace
<1>3. \A k \in 1..n : FrameOK(t[k])  BY <1>1, <1>2 DEF Good
<1>4. \A k \in 1..n : k < n => t[k].pc = "run"  BY <1>1, <1>2 DEF Good
<1>5. ASSUME NEW j \in 1..n, NEW k \in 1..n, j < k, NEW x, x \in BuffersOf(t[j]), x \in BuffersOf(t[k])
      PROVE  t[k].op = "message"
  <2>1. t[j] = s[j] /\ x \in BuffersOf(s[j])  BY <1>1, <1>2, <1>5
  <2>2. x \in BuffersIn(s)  BY <1>1, <2>1, InBuffers
  <2>3. CASE k < n
    <3>1. t[k] = s[k]  BY <1>1, <1>2, <2>3
    <3> QED  BY <1>1, <1>5, <2>1, <3>1 DEF Good
  <2>4. CASE k = n
    <3>1. x \in BuffersOf(s[n])  BY <1>2, <1>5, <2>2, <2>4
    <3>2. s[n].op = "message"  BY <1>1, <1>5, <2>1, <2>4, <3>1 DEF Good
    <3> QED  BY <1>2, <2>4, <3>2
  <2> QED  BY <1>1, <2>3, <2>4
<1>6. Good(t)  BY <1>2, <1>3, <1>4, <1>5 DEF Good
<1>7. ASSUME NEW x \in BuffersIn(t) PROVE x \in BuffersOf(f) \/ \E k \in 1..(n - 1) : x \in BuffersOf(s[k])
  <2>1. PICK k \in 1..n : x \in BuffersOf(t[k])  BY <1>2, <1>7, InBuffers
  <2> QED  BY <1>1, <1>2, <2>1
<1>8. BuffersIn(t) \subseteq BuffersIn(s) \cup N
  <2>1. \A x : (\E k \in 1..n : x \in BuffersOf(s[k])) => x \in BuffersIn(s)  BY <1>1, InBuffers
  <2> QED  BY <1>1, <1>7, <2>1
<1>9. f.op # "message" => (BuffersOf(s[n]) \ BuffersOf(f)) \cap BuffersIn(t) = {}
  <2>1. f.op # "message" => \A k \in 1..(n - 1) : BuffersOf(s[k]) \cap BuffersOf(s[n]) = {}  BY TopApart
  <2> QED  BY <1>7, <2>1
<1>10. t # <<>>  BY <1>1, <1>2, StackLen
<1> QED  BY <1>2, <1>6, <1>8, <1>9, <1>10

LEMMA GoodSame ==
  ASSUME NEW s, Good(s), s # <<>>, NEW f, FrameOK(f), f.op = s[Len(s)].op,
         BuffersOf(f) \subseteq BuffersOf(s[Len(s)]), NEW t, Replace(s, f, t)
  PROVE  Good(t) /\ t # <<>> /\ t[Len(t)] = f /\ BuffersIn(t) \subseteq BuffersIn(s)
<1> DEFINE N == {}
<1>1. N \cap BuffersIn(s) = {} /\ BuffersOf(f) \subseteq BuffersOf(s[Len(s)]) \cup N  OBVIOUS
<1>2. BuffersIn(s) \cup N = BuffersIn(s)  OBVIOUS
<1> HIDE DEF N
<1> QED  BY <1>1, <1>2, GoodReplace

\* A call is made, with a Buffer that no call of the stack has, or for a message.
LEMMA GoodPush ==
  ASSUME NEW s, Good(s), s # <<>> => s[Len(s)].pc = "run", NEW g, FrameOK(g),
         g.op = "message" \/ BuffersOf(g) \cap BuffersIn(s) = {}, NEW t, Push(s, g, t)
  PROVE  Good(t) /\ t # <<>> /\ t[Len(t)] = g /\ BuffersIn(t) \subseteq BuffersIn(s) \cup BuffersOf(g)
<1> DEFINE n == Len(s)
<1>1. IsSeq(s) /\ n \in Nat  BY StackLen DEF Good
<1>2. IsSeq(t) /\ Len(t) = n + 1 /\ t[n + 1] = g /\ \A k \in 1..n : t[k] = s[k]  BY <1>1 DEF Push
<1>3. \A k \in 1..(n + 1) : FrameOK(t[k])  BY <1>1, <1>2 DEF Good
<1>4. ASSUME NEW k \in 1..(n + 1), k < n + 1 PROVE t[k].pc = "run"
  <2>1. s # <<>>  BY <1>1, <1>4, StackLen
  <2> QED  BY <1>1, <1>2, <1>4, <2>1 DEF Good
<1>5. ASSUME NEW j \in 1..(n + 1), NEW k \in 1..(n + 1), j < k, NEW x, x \in BuffersOf(t[j]), x \in BuffersOf(t[k])
      PROVE  t[k].op = "message"
  <2>1. t[j] = s[j] /\ x \in BuffersOf(s[j]) /\ j \in 1..n  BY <1>1, <1>2, <1>5
  <2>2. x \in BuffersIn(s)  BY <1>1, <2>1, InBuffers
  <2>3. CASE k < n + 1
    <3>1. t[k] = s[k] /\ k \in 1..n  BY <1>1, <1>2, <1>5, <2>3
    <3> QED  BY <1>5, <2>1, <3>1 DEF Good
  <2>4. CASE k = n + 1  BY <1>2, <1>5, <2>2, <2>4
  <2> QED  BY <1>1, <2>3, <2>4
<1>6. Good(t)  BY <1>2, <1>3, <1>4, <1>5 DEF Good
<1>7. ASSUME NEW x \in BuffersIn(t) PROVE x \in BuffersIn(s) \/ x \in BuffersOf(g)
  <2>1. PICK k \in 1..(n + 1) : x \in BuffersOf(t[k])  BY <1>2, <1>7, InBuffers
  <2>2. k \in 1..n => x \in BuffersIn(s)  BY <1>1, <1>2, <2>1, InBuffers
  <2> QED  BY <1>1, <1>2, <2>1, <2>2
<1>8. t # <<>>  BY <1>1, <1>2, StackLen
<1> QED  BY <1>1, <1>2, <1>6, <1>7, <1>8

\* The call on top returns.
LEMMA GoodPop ==
  ASSUME NEW s, Good(s), s # <<>>, NEW t, Pop(s, t)
  PROVE  /\ Good(t)
         /\ t # <<>> => t[Len(t)].pc = "run"
         /\ BuffersIn(t) \subseteq BuffersIn(s)
         /\ s[Len(s)].op # "message" => BuffersOf(s[Len(s)]) \cap BuffersIn(t) = {}
<1> DEFINE n == Len(s)
<1>1. IsSeq(s) /\ n \in Nat /\ n > 0  BY StackLen DEF Good
<1>2. IsSeq(t) /\ Len(t) = n - 1 /\ \A k \in 1..(n - 1) : t[k] = s[k]  BY DEF Pop
<1>3. \A k \in 1..(n - 1) : FrameOK(t[k]) /\ t[k].pc = "run"  BY <1>1, <1>2 DEF Good
<1>4. ASSUME NEW j \in 1..(n - 1), NEW k \in 1..(n - 1), j < k, BuffersOf(t[j]) \cap BuffersOf(t[k]) # {}
      PROVE  t[k].op = "message"
  <2>1. t[j] = s[j] /\ t[k] = s[k] /\ j \in 1..n /\ k \in 1..n  BY <1>1, <1>2
  <2> QED  BY <1>4, <2>1 DEF Good
<1>5. Good(t)  BY <1>1, <1>2, <1>3, <1>4 DEF Good
<1>6. ASSUME NEW x \in BuffersIn(t) PROVE \E k \in 1..(n - 1) : x \in BuffersOf(s[k])
  <2>1. PICK k \in 1..(n - 1) : x \in BuffersOf(t[k])  BY <1>2, <1>6, InBuffers
  <2> QED  BY <1>2, <2>1
<1>7. BuffersIn(t) \subseteq BuffersIn(s)
  <2>1. \A x : (\E k \in 1..n : x \in BuffersOf(s[k])) => x \in BuffersIn(s)  BY <1>1, InBuffers
  <2> QED  BY <1>1, <1>6, <2>1
<1>8. s[n].op # "message" => BuffersOf(s[n]) \cap BuffersIn(t) = {}
  <2>1. s[n].op # "message" => \A k \in 1..(n - 1) : BuffersOf(s[k]) \cap BuffersOf(s[n]) = {}  BY TopApart
  <2> QED  BY <1>6, <2>1
<1>9. t # <<>> => t[Len(t)].pc = "run"
  <2> SUFFICES ASSUME t # <<>> PROVE t[Len(t)].pc = "run"  OBVIOUS
  <2>1. Len(t) \in 1..(n - 1)  BY <1>1, <1>2, StackLen
  <2> QED  BY <1>3, <2>1
<1> QED  BY <1>5, <1>7, <1>8, <1>9

-----------------------------------------------------------------------------
(* the invariant *)

HeapOK  == IsHeap(heap)
StackOK == stack = [p \in Procs |-> stack[p]] /\ \A p \in Procs : Good(stack[p]) /\ InUse(p) \subseteq Buffers

Disjoint ==
  /\ buffer_pool \subseteq Buffers
  /\ \A p, q \in Procs : p # q => InUse(p) \cap InUse(q) = {}
  /\ \A p \in Procs : InUse(p) \cap buffer_pool = {}

\* What is in the pool, and what is next put there, has been cleared.
ClearedFirst ==
  /\ \A b \in buffer_pool : IsNew(heap[b])
  /\ \A p \in Procs : stack[p] # <<>> /\ Top(p).pc = "put" => IsNew(heap[Releasing(Top(p))])

IInv == HeapOK /\ StackOK /\ Disjoint /\ ClearedFirst

LEMMA InUseIs == \A p : InUse(p) = BuffersIn(stack[p])
BY DEF InUse, BuffersIn

LEMMA ReleasingOneOf == \A f : Releasing(f) \in BuffersOf(f)
BY DEF Releasing, BuffersOf

LEMMA TopFacts ==
  ASSUME IInv, NEW p \in Procs, stack[p] # <<>>
  PROVE  /\ Good(stack[p]) /\ FrameOK(Top(p)) /\ IsFrame(Top(p))
         /\ BuffersOf(Top(p)) \subseteq InUse(p) /\ BuffersOf(Top(p)) \subseteq Buffers
         /\ Top(p).b \in Buffers /\ Top(p).b \in InUse(p)
         /\ Releasing(Top(p)) \in Buffers /\ Releasing(Top(p)) \in InUse(p)
<1>1. Good(stack[p]) /\ InUse(p) \subseteq Buffers  BY DEF IInv, StackOK
<1>2. Len(stack[p]) \in 1..Len(stack[p]) /\ IsSeq(stack[p])  BY <1>1, StackLen DEF Good
<1>3. FrameOK(Top(p))  BY <1>1, <1>2 DEF Good, Top
<1>4. BuffersOf(Top(p)) \subseteq InUse(p)  BY <1>2, InBuffers, InUseIs DEF Top
<1>5. Top(p).b \in BuffersOf(Top(p))  BY DEF BuffersOf
<1> QED  BY <1>1, <1>3, <1>4, <1>5, ReleasingOneOf DEF FrameOK

\* Buffers that no goroutine has
Free(N) == N \subseteq Buffers /\ \A q \in Procs : N \cap InUse(q) = {}

\* p has the stack s after a step, having taken the Buffers N, which nobody had, and given G, which
\* it has no longer, to the pool; the step changes only Buffers that p has then or had before.
StackIs(p, s) == stack' = [q \in Procs |-> stack'[q]] /\ stack'[p] = s /\ \A q \in Procs : q # p => stack'[q] = stack[q]
Takes(p, N)   == Free(N) /\ IsHeap(heap') /\ \A b \in Buffers : b \notin InUse(p) /\ b \notin N => heap'[b] = heap[b]
Gives(N, G)   == buffer_pool' = (buffer_pool \ N) \cup G /\ \A b \in G : IsNew(heap'[b])

LEMMA StepKeeps ==
  ASSUME IInv, NEW p \in Procs, NEW s, StackIs(p, s), Good(s), s # <<>> /\ s[Len(s)].pc = "put" => IsNew(heap'[Releasing(s[Len(s)])]),
         NEW N, Takes(p, N), BuffersIn(s) \subseteq InUse(p) \cup N,
         NEW G, Gives(N, G), G \subseteq InUse(p), G \cap BuffersIn(s) = {}
  PROVE  IInv'
<1> USE DEF StackIs, Takes, Gives
<1>1. stack'[p] = s /\ \A q \in Procs : q # p => stack'[q] = stack[q]  OBVIOUS
<1>2. InUse(p)' = BuffersIn(s) /\ \A q \in Procs : q # p => InUse(q)' = InUse(q)
  <2>1. \A q \in Procs : InUse(q)' = BuffersIn(stack'[q])  BY DEF InUse, BuffersIn
  <2> QED  BY <1>1, <2>1, InUseIs
<1>3. InUse(p)' \subseteq InUse(p) \cup N  BY <1>2
<1>4. HeapOK'  BY DEF HeapOK
<1>5. StackOK'
  <2>1. stack' = [q \in Procs |-> stack'[q]]  OBVIOUS
  <2>2. ASSUME NEW q \in Procs PROVE Good(stack'[q]) /\ InUse(q)' \subseteq Buffers
    <3>1. CASE q = p  BY <1>1, <1>3, <3>1 DEF Free, IInv, StackOK
    <3>2. CASE q # p  BY <1>1, <1>2, <3>2 DEF IInv, StackOK
    <3> QED  BY <3>1, <3>2
  <2> QED  BY <2>1, <2>2 DEF StackOK
<1>6. Disjoint'
  <2>1. (buffer_pool \subseteq Buffers)'  BY DEF IInv, Disjoint, StackOK
  <2>2. ASSUME NEW q \in Procs, q # p PROVE InUse(q) \cap (InUse(p) \cup N) = {}
    BY <2>2 DEF IInv, Disjoint, Free
  <2>3. \A q, r \in Procs : q # r => InUse(q)' \cap InUse(r)' = {}
    <3> SUFFICES ASSUME NEW q \in Procs, NEW r \in Procs, q # r PROVE InUse(q)' \cap InUse(r)' = {}
      OBVIOUS
    <3>1. CASE q # p /\ r # p  BY <1>2, <3>1 DEF IInv, Disjoint
    <3>2. CASE q = p  BY <1>2, <1>3, <2>2, <3>2
    <3>3. CASE r = p  BY <1>2, <1>3, <2>2, <3>3
    <3> QED  BY <3>1, <3>2, <3>3
  <2>4. ASSUME NEW q \in Procs PROVE InUse(q)' \cap buffer_pool' = {}
    <3>1. CASE q = p  BY <1>2, <1>3, <3>1 DEF IInv, Disjoint
    <3>2. CASE q # p  BY <1>2, <2>2, <3>2 DEF IInv, Disjoint
    <3> QED  BY <3>1, <3>2
  <2> QED  BY <2>1, <2>3, <2>4 DEF Disjoint
<1>7. ClearedFirst'
  <2>1. ASSUME NEW b \in buffer_pool' PROVE IsNew(heap'[b])
    <3>1. CASE b \in G  BY <3>1
    <3>2. CASE b \notin G
      <4>1. b \in buffer_pool /\ b \notin N /\ b \in Buffers /\ b \notin InUse(p)  BY <2>1, <3>2 DEF IInv, Disjoint
      <4> QED  BY <4>1 DEF IInv, ClearedFirst
    <3> QED  BY <3>1, <3>2
  <2>2. ASSUME NEW q \in Procs, stack'[q] # <<>>, Top(q)'.pc = "put" PROVE IsNew(heap'[Releasing(Top(q)')])
    <3>1. CASE q = p  BY <1>1, <2>2, <3>1 DEF Top
    <3>2. CASE q # p
      <4>1. stack[q] # <<>> /\ Top(q)' = Top(q) /\ Top(q).pc = "put"  BY <1>1, <2>2, <3>2 DEF Top
      <4> DEFINE b == Releasing(Top(q))
      <4>2. b \in InUse(q) /\ b \in Buffers  BY <4>1, TopFacts
      <4>3. b \notin InUse(p) /\ b \notin N  BY <3>2, <4>2 DEF IInv, Disjoint, Free
      <4>4. IsNew(heap[b])  BY <4>1 DEF IInv, ClearedFirst
      <4> HIDE DEF b
      <4>5. IsNew(heap'[b])  BY <4>2, <4>3, <4>4
      <4> QED  BY <4>1, <4>5 DEF b
    <3> QED  BY <3>1, <3>2
  <2>3. \A q \in Procs : Releasing(Top(q))' = Releasing(Top(q)')  BY DEF Releasing, Top
  <2> QED  BY <2>1, <2>2, <2>3 DEF ClearedFirst
<1> QED  BY <1>4, <1>5, <1>6, <1>7 DEF IInv

-----------------------------------------------------------------------------
(* what the steps are made of *)

LEMMA GetsFacts ==
  ASSUME IInv, NEW p \in Procs, NEW b \in Buffers, NEW e, NEW other, Gets(b, e, other), IsHeap(other),
         \A c \in Buffers : c \notin InUse(p) => other[c] = heap[c]
  PROVE  Takes(p, {b}) /\ Gives({b}, {})
<1>1. \A q \in Procs : b \notin InUse(q)
  <2>1. b \in buffer_pool \/ b \in Unused
    <3>1. b \in buffer_pool \/ (Unused # {} /\ b = CHOOSE u \in Unused : TRUE)  BY DEF Gets
    <3> QED  BY <3>1
  <2> QED  BY <2>1 DEF Unused, IInv, Disjoint
<1> DEFINE h == IF b \in buffer_pool THEN other[b] ELSE NewBuffer(MaxRecursionDepth)
           x == newBuffer(h, e)
<1>2. IsBuffer(h)  BY NewBufferIsNew DEF IsHeap
<1>3. IsBuffer(x)  BY <1>2, BufferChanges
<1>4. heap' = [other EXCEPT ![b] = x]  BY DEF Gets
<1> HIDE DEF x
<1>5. IsHeap(heap') /\ \A c \in Buffers : c # b => heap'[c] = other[c]  BY <1>3, <1>4 DEF IsHeap
<1> QED  BY <1>1, <1>5 DEF Free, Takes, Gives, Gets

LEMMA NothingTaken ==
  ASSUME IsHeap(heap'), NEW p, \A b \in Buffers : b \notin InUse(p) => heap'[b] = heap[b]
  PROVE  Takes(p, {})
BY DEF Takes, Free

\* The call on top changes; it may give a Buffer to the pool.
LEMMA BecomesKeeps ==
  ASSUME IInv, NEW p \in Procs, stack[p] # <<>>, NEW f, FrameOK(f), f.op = Top(p).op, Becomes(p, f),
         f.pc = "put" => IsNew(heap'[Releasing(f)]),
         NEW N, Takes(p, N), BuffersOf(f) \subseteq BuffersOf(Top(p)) \cup N,
         NEW G, Gives(N, G), G \subseteq BuffersOf(Top(p)) \ BuffersOf(f), G = {} \/ f.op # "message"
  PROVE  IInv'
<1> DEFINE s == stack[p]
           n == Len(s)
           t == Append(SubSeq(s, 1, n - 1), f)
<1>1. Good(s) /\ BuffersOf(Top(p)) \subseteq InUse(p) /\ Top(p) = s[n] /\ InUse(p) = BuffersIn(s)
  BY TopFacts, InUseIs DEF Top
<1>2. N \cap BuffersIn(s) = {}  BY <1>1 DEF Takes, Free
<1>3. Replace(s, f, t)  BY <1>1, Replaced DEF Good
<1>4. StackIs(p, t)  BY DEF Becomes, Below, StackIs, IInv, StackOK
<1> HIDE DEF t
<1>5. /\ Good(t) /\ t[Len(t)] = f /\ BuffersIn(t) \subseteq BuffersIn(s) \cup N
      /\ f.op # "message" => (BuffersOf(s[n]) \ BuffersOf(f)) \cap BuffersIn(t) = {}
  <2> DEFINE g == s[n]
  <2>1. f.op = g.op /\ BuffersOf(f) \subseteq BuffersOf(g) \cup N /\ s # <<>>  BY <1>1
  <2> HIDE DEF s
  <2> QED  BY <1>1, <1>2, <1>3, <2>1, GoodReplace
<1>6. G \cap BuffersIn(t) = {} /\ G \subseteq InUse(p)  BY <1>1, <1>5
<1> HIDE DEF s, n
<1>7. BuffersIn(t) \subseteq InUse(p) \cup N  BY <1>1, <1>5
<1>8. t # <<>> /\ t[Len(t)].pc = "put" => IsNew(heap'[Releasing(t[Len(t)])])  BY <1>5
<1> QED  BY <1>4, <1>5, <1>6, <1>7, <1>8, StepKeeps

\* The call on top makes a call.
LEMMA CallsKeeps ==
  ASSUME IInv, NEW p \in Procs, stack[p] # <<>>, NEW f, Looks(f, Top(p).op, Top(p).b, Top(p).scratch, "run"),
         NEW g, FrameOK(g), g.pc # "put", Calls(p, f, g), NEW N, Takes(p, N), Gives(N, {}),
         BuffersOf(g) \subseteq N \/ (g.op = "message" /\ BuffersOf(g) \subseteq BuffersOf(Top(p)))
  PROVE  IInv'
<1> DEFINE s == stack[p]
           n == Len(s)
           t == Append(SubSeq(s, 1, n - 1), f)
           u == Append(t, g)
<1>1. /\ Good(s) /\ FrameOK(Top(p)) /\ BuffersOf(Top(p)) \subseteq InUse(p) /\ Top(p) = s[n]
      /\ InUse(p) = BuffersIn(s) /\ s # <<>>
  BY TopFacts, InUseIs DEF Top
<1>2. FrameOK(f) /\ f.op = s[n].op /\ BuffersOf(f) = BuffersOf(s[n])  BY <1>1 DEF Looks, FrameOK, BuffersOf
<1>3. Replace(s, f, t) /\ IsSeq(t)  BY <1>1, Replaced DEF Good, Replace
<1>4. Push(t, g, u)  BY <1>3, Pushed
<1>5. StackIs(p, u)  BY DEF Calls, Below, StackIs, IInv, StackOK
<1> HIDE DEF u, t
<1>6. Good(t) /\ t # <<>> /\ t[Len(t)] = f /\ BuffersIn(t) \subseteq BuffersIn(s)
  <2>1. f.op = s[n].op /\ BuffersOf(f) \subseteq BuffersOf(s[n])  BY <1>2
  <2> HIDE DEF s
  <2> QED  BY <1>1, <1>2, <1>3, <2>1, GoodSame
<1> HIDE DEF s, n
<1>7. g.op = "message" \/ BuffersOf(g) \cap BuffersIn(t) = {}  BY <1>1, <1>6 DEF Takes, Free
<1>8. t[Len(t)].pc = "run"  BY <1>6 DEF Looks
<1>9. Good(u) /\ u[Len(u)] = g /\ BuffersIn(u) \subseteq BuffersIn(t) \cup BuffersOf(g)
  BY <1>4, <1>6, <1>7, <1>8, GoodPush
<1>10. BuffersIn(u) \subseteq InUse(p) \cup N  BY <1>1, <1>6, <1>9
<1>11. u[Len(u)].pc # "put"  BY <1>9
<1>12. {} \subseteq InUse(p) /\ {} \cap BuffersIn(u) = {}  OBVIOUS
<1> QED  BY <1>5, <1>9, <1>10, <1>11, <1>12, StepKeeps

\* The call on top returns; what it gives to the pool, it alone had.
LEMMA DeliverKeeps ==
  ASSUME IInv, NEW p \in Procs, stack[p] # <<>>, NEW f, NEW hs, IsHeap(hs),
         \A b \in Buffers : b \notin InUse(p) => hs[b] = heap[b], Deliver(p, f, hs),
         NEW G, G \subseteq BuffersOf(Top(p)), G = {} \/ Top(p).op # "message", \A b \in G : IsNew(hs[b]),
         buffer_pool' = buffer_pool \cup G
  PROVE  IInv'
<1> DEFINE s == stack[p]
           t == Below(p)
           n == Len(s) - 1
           g == s[n]
<1>1. /\ Good(s) /\ BuffersOf(Top(p)) \subseteq InUse(p) /\ InUse(p) = BuffersIn(s) /\ InUse(p) \subseteq Buffers
      /\ s # <<>> /\ Top(p) = s[Len(s)]
  BY TopFacts, InUseIs DEF IInv, StackOK, Top
<1>2. Pop(s, t)  BY <1>1, Popped DEF Below, Good
<1> HIDE DEF t
<1>3. /\ Good(t) /\ (t # <<>> => t[Len(t)].pc = "run") /\ BuffersIn(t) \subseteq BuffersIn(s)
      /\ s[Len(s)].op # "message" => BuffersOf(s[Len(s)]) \cap BuffersIn(t) = {}
  <2> HIDE DEF s
  <2> QED  BY <1>1, <1>2, GoodPop
<1>4. G \subseteq InUse(p) /\ G \cap BuffersIn(t) = {} /\ G \subseteq Buffers  BY <1>1, <1>3
<1>5. CASE t = <<>>
  <2>1. StackIs(p, <<>>) /\ heap' = hs  BY <1>5 DEF t, Deliver, StackIs, IInv, StackOK
  <2>2. Good(<<>>) /\ BuffersIn(<<>>) = {}  BY GoodEmpty
  <2>3. Takes(p, {}) /\ Gives({}, G)  BY <2>1, NothingTaken DEF Gives
  <2>4. BuffersIn(<<>>) \subseteq InUse(p) \cup {} /\ G \cap BuffersIn(<<>>) = {}  BY <2>2
  <2> HIDE DEF s, n, g
  <2> QED  BY <1>4, <2>1, <2>2, <2>3, <2>4, StepKeeps
<1>6. CASE t # <<>>
  <2> DEFINE r == f.result
             e == [g EXCEPT !.result.err = r.err]
             h == IF g.op = "Marshal" THEN g ELSE e
             u == [t EXCEPT ![n] = h]
             x == IF g.op # "Marshal" THEN hs[g.b]
                  ELSE IF r.err # None THEN noteError(hs[g.b], r.err)
                  ELSE IF r.bytes = <<>> THEN hs[g.b] ELSE Put(hs[g.b], <<Custom(r.bytes)>>)
  <2>1. stack' = [stack EXCEPT ![p] = u] /\ heap' = [hs EXCEPT ![g.b] = x]  BY <1>6 DEF t, Deliver
  <2>2. StackIs(p, u)
    <3> HIDE DEF u, h, x, e
    <3> QED  BY <2>1 DEF StackIs, IInv, StackOK
  <2>3. n = Len(t) /\ n \in 1..n /\ t[n] = g /\ IsSeq(t)
    <3>1. IsSeq(t) /\ Len(t) = n /\ Len(t) \in Nat /\ Len(t) # 0  BY <1>2, <1>6, StackLen DEF Pop
    <3>2. \A k \in 1..n : t[k] = s[k]  BY <1>2 DEF Pop
    <3> HIDE DEF n
    <3>3. n \in 1..n  BY <3>1
    <3>4. t[n] = s[n]  BY <3>2, <3>3
    <3> QED  BY <3>1, <3>3, <3>4
  <2>4. FrameOK(g) /\ g.pc = "run"
    <3>1. n \in 1..Len(t)  BY <2>3
    <3> QED  BY <1>3, <1>6, <2>3, <3>1 DEF Good
  <2>5. Looks(h, g.op, g.b, g.scratch, "run")
    <3>1. IsFrame(g)  BY <2>4 DEF FrameOK
    <3> HIDE DEF g, r
    <3>2. Looks(e, g.op, g.b, g.scratch, g.pc)  BY <3>1, FrameChanges
    <3> HIDE DEF e
    <3>3. Looks(g, g.op, g.b, g.scratch, g.pc)  BY <3>1 DEF Looks
    <3> QED  BY <2>4, <3>2, <3>3
  <2>6. g.b \in BuffersIn(t) /\ g.b \in Buffers
    <3>1. g.b \in BuffersOf(t[n])  BY <2>3 DEF BuffersOf
    <3>2. g.b \in BuffersIn(t)  BY <2>3, <3>1, InBuffers
    <3> QED  BY <1>1, <1>3, <3>2
  <2>7. IsBuffer(x)
    <3>1. IsBuffer(hs[g.b])  BY <2>6 DEF IsHeap
    <3> QED  BY <3>1, BufferChanges
  <2>8. Replace(t, h, u)  BY <1>6, <2>3, Excepted
  <2> HIDE DEF s, g, x, h, n, u, e
  <2>9. Good(u) /\ u[Len(u)] = h /\ BuffersIn(u) \subseteq BuffersIn(t)
    <3>1. FrameOK(h) /\ BuffersOf(h) = BuffersOf(g) /\ h.op = g.op  BY <2>4, <2>5 DEF FrameOK, Looks, BuffersOf
    <3>2. h.op = t[Len(t)].op /\ BuffersOf(h) \subseteq BuffersOf(t[Len(t)])  BY <2>3, <3>1
    <3> QED  BY <1>3, <1>6, <2>8, <3>1, <3>2, GoodSame
  <2>10. IsHeap(heap') /\ \A b \in Buffers : b # g.b => heap'[b] = hs[b]  BY <2>1, <2>6, <2>7 DEF IsHeap
  <2>11. Takes(p, {})
    <3>1. \A b \in Buffers : b \notin InUse(p) => heap'[b] = heap[b]  BY <1>1, <1>3, <2>6, <2>10
    <3> QED  BY <2>10, <3>1, NothingTaken
  <2>12. Gives({}, G)  BY <1>4, <2>6, <2>10 DEF Gives
  <2>13. u[Len(u)].pc # "put"  BY <2>5, <2>9 DEF Looks
  <2>14. BuffersIn(u) \subseteq InUse(p) \cup {} /\ G \cap BuffersIn(u) = {}  BY <1>1, <1>3, <1>4, <2>9
  <2> QED  BY <1>4, <2>2, <2>9, <2>11, <2>12, <2>13, <2>14, StepKeeps
<1> QED  BY <1>5, <1>6

\* the heap after changes of Buffers that p has
OwnHeap(p, hs) == IsHeap(hs) /\ \A b \in Buffers : b \notin InUse(p) => hs[b] = heap[b]

LEMMA OwnTakes == ASSUME NEW p, OwnHeap(p, heap') PROVE Takes(p, {})
BY NothingTaken DEF OwnHeap

LEMMA OwnSame == ASSUME IInv, NEW p PROVE OwnHeap(p, heap)
BY DEF OwnHeap, IInv, HeapOK

\* Nothing is taken or given, and the call on top keeps its Buffers.
LEMMA ChangesKeeps ==
  ASSUME IInv, NEW p \in Procs, stack[p] # <<>>, NEW f, NEW pc, Looks(f, Top(p).op, Top(p).b, Top(p).scratch, pc),
         pc # "run" => Top(p).op # "message", pc = "put" => IsNew(heap'[Releasing(Top(p))]), Becomes(p, f),
         OwnHeap(p, heap'), buffer_pool' = buffer_pool
  PROVE  IInv'
<1> DEFINE N == {}
<1>1. FrameOK(Top(p))  BY TopFacts
<1>2. FrameOK(f) /\ f.op = Top(p).op /\ f.pc = pc /\ BuffersOf(f) = BuffersOf(Top(p)) /\ Releasing(f) = Releasing(Top(p))
  BY <1>1 DEF FrameOK, Looks, BuffersOf, Releasing
<1>3. Takes(p, N)  BY OwnTakes
<1>4. Gives(N, N)  BY DEF Gives
<1>5. BuffersOf(f) \subseteq BuffersOf(Top(p)) \cup N /\ N \subseteq BuffersOf(Top(p)) \ BuffersOf(f) /\ N = {}  BY <1>2
<1> HIDE DEF N
<1> QED  BY <1>2, <1>3, <1>4, <1>5, BecomesKeeps

LEMMA SameKeeps ==
  ASSUME IInv, NEW p \in Procs, stack[p] # <<>>, Top(p).pc = "run", stack' = stack, OwnHeap(p, heap'), buffer_pool' = buffer_pool
  PROVE  IInv'
<1> DEFINE N == {}
           s == stack[p]
<1>1. Takes(p, N)  BY OwnTakes
<1>2. Gives(N, N) /\ N \subseteq InUse(p) /\ N \cap BuffersIn(s) = {} /\ BuffersIn(s) \subseteq InUse(p) \cup N
  BY InUseIs DEF Gives
<1>3. StackIs(p, s) /\ Good(s) /\ s[Len(s)].pc # "put"  BY TopFacts DEF Top, StackIs, IInv, StackOK
<1> HIDE DEF N, s
<1> QED  BY <1>1, <1>2, <1>3, StepKeeps

-----------------------------------------------------------------------------
(* the steps of Marshal *)

LEMMA Next1Looks ==
  ASSUME IInv, NEW p \in Procs, stack[p] # <<>>
  PROVE  Looks(Next1(p), Top(p).op, Top(p).b, Top(p).scratch, Top(p).pc)
BY TopFacts, FrameChanges DEF Next1

\* A Buffer of the call on top is changed.
LEMMA OwnChange ==
  ASSUME IInv, NEW p \in Procs, NEW b \in InUse(p), NEW x, IsBuffer(heap[b]) => IsBuffer(x)
  PROVE  OwnHeap(p, [heap EXCEPT ![b] = x])
<1>1. b \in Buffers /\ IsBuffer(x)  BY DEF IInv, HeapOK, StackOK, IsHeap
<1>2. IsHeap([heap EXCEPT ![b] = x])  BY <1>1 DEF IInv, HeapOK, IsHeap
<1>3. \A c \in Buffers : c # b => [heap EXCEPT ![b] = x][c] = heap[c]  BY DEF IInv, HeapOK, IsHeap
<1> QED  BY <1>2, <1>3 DEF OwnHeap

LEMMA EncodeNumberKeeps == ASSUME IInv, NEW p \in Procs, EncodeNumber(p) PROVE IInv'
<1>1. stack[p] # <<>> /\ Top(p).pc = "run"  BY DEF EncodeNumber, Encoding, Runs
<1>2. Looks(Next1(p), Top(p).op, Top(p).b, Top(p).scratch, "run")  BY <1>1, Next1Looks
<1> DEFINE x == Put(heap[Top(p).b], <<Field(p)>>)
<1>3. IsBuffer(heap[Top(p).b]) => IsBuffer(x)  BY BufferChanges
<1>4. heap' = [heap EXCEPT ![Top(p).b] = x] /\ Becomes(p, Next1(p)) /\ buffer_pool' = buffer_pool  BY DEF EncodeNumber
<1> HIDE DEF x
<1>5. OwnHeap(p, heap')
  <2>1. Top(p).b \in InUse(p)  BY <1>1, TopFacts
  <2>2. OwnHeap(p, [heap EXCEPT ![Top(p).b] = x])  BY <1>3, <2>1, OwnChange
  <2> QED  BY <1>4, <2>2
<1> QED  BY <1>1, <1>2, <1>4, <1>5, ChangesKeeps

LEMMA EncodeFailingKeeps == ASSUME IInv, NEW p \in Procs, EncodeFailing(p) PROVE IInv'
<1>1. stack[p] # <<>> /\ Top(p).pc = "run"  BY DEF EncodeFailing, Encoding, Runs
<1>2. Looks(Next1(p), Top(p).op, Top(p).b, Top(p).scratch, "run")  BY <1>1, Next1Looks
<1> DEFINE x == noteError(heap[Top(p).b], "failed")
<1>3. IsBuffer(heap[Top(p).b]) => IsBuffer(x)  BY BufferChanges
<1>4. heap' = [heap EXCEPT ![Top(p).b] = x] /\ Becomes(p, Next1(p)) /\ buffer_pool' = buffer_pool  BY DEF EncodeFailing
<1> HIDE DEF x
<1>5. OwnHeap(p, heap')
  <2>1. Top(p).b \in InUse(p)  BY <1>1, TopFacts
  <2>2. OwnHeap(p, [heap EXCEPT ![Top(p).b] = x])  BY <1>3, <2>1, OwnChange
  <2> QED  BY <1>4, <2>2
<1> QED  BY <1>1, <1>2, <1>4, <1>5, ChangesKeeps

\* What the call on top does last before release
LEMMA ReleaseKeeps ==
  ASSUME IInv, NEW p \in Procs, stack[p] # <<>>, NEW f, Looks(f, Top(p).op, Top(p).b, Top(p).scratch, Top(p).pc),
         StartRelease(p, f), Top(p).op # "message", OwnHeap(p, heap'), buffer_pool' = buffer_pool
  PROVE  IInv'
<1> DEFINE g == [f EXCEPT !.pc = "clear"]
           pc == "clear"
<1>1. IsFrame(f)  BY DEF Looks
<1>2. Looks(g, f.op, f.b, f.scratch, pc)  BY <1>1, FrameChanges
<1>3. Becomes(p, g)  BY DEF StartRelease
<1> HIDE DEF g
<1>4. Looks(g, Top(p).op, Top(p).b, Top(p).scratch, pc)  BY <1>2 DEF Looks
<1>5. pc # "put"  OBVIOUS
<1> HIDE DEF pc
<1> QED  BY <1>3, <1>4, <1>5, ChangesKeeps

LEMMA EndMarshalKeeps == ASSUME IInv, NEW p \in Procs, EndMarshal(p) PROVE IInv'
<1> DEFINE h == heap[Top(p).b]
           r == [bytes |-> IF h.err = None THEN h.buf ELSE <<>>, err |-> h.err]
           f == [Top(p) EXCEPT !.result = r]
<1>1. stack[p] # <<>> /\ Top(p).op # "message"  BY DEF EndMarshal, Runs
<1>2. StartRelease(p, f) /\ heap' = heap /\ buffer_pool' = buffer_pool  BY DEF EndMarshal
<1> HIDE DEF r
<1>3. Looks(f, Top(p).op, Top(p).b, Top(p).scratch, Top(p).pc)  BY <1>1, TopFacts, FrameChanges
<1> HIDE DEF f
<1>4. OwnHeap(p, heap')  BY <1>2, OwnSame
<1> QED  BY <1>1, <1>2, <1>3, <1>4, ReleaseKeeps

LEMMA StartPackedKeeps == ASSUME IInv, NEW p \in Procs, StartPacked(p) PROVE IInv'
<1>1. stack[p] # <<>> /\ Top(p).pc = "run" /\ Top(p).op = "Marshal"  BY DEF StartPacked, Encoding, Runs
<1>2. Looks(Next1(p), Top(p).op, Top(p).b, Top(p).scratch, "run")  BY <1>1, Next1Looks
<1>3. CASE Field(p).of = <<>>
  <2>1. Becomes(p, Next1(p)) /\ heap' = heap /\ buffer_pool' = buffer_pool  BY <1>3 DEF StartPacked
  <2>2. OwnHeap(p, heap')  BY <2>1, OwnSame
  <2> QED  BY <1>1, <1>2, <2>1, <2>2, ChangesKeeps
<1>4. CASE Field(p).of # <<>>
  <2>1. PICK b \in Buffers : /\ Gets(b, <<>>, heap)
                             /\ Becomes(p, [Next1(p) EXCEPT !.scratch = {b}, !.numbers = Field(p).of])
    BY <1>4 DEF StartPacked
  <2> DEFINE e == Next1(p)
             n == Field(p).of
             N == {b}
             f == [e EXCEPT !.scratch = N, !.numbers = n]
             G == {}
  <2>2. Becomes(p, f)  BY <2>1
  <2>3. Takes(p, N) /\ Gives(N, G)
    <3>1. IsHeap(heap) /\ \A c \in Buffers : c \notin InUse(p) => heap[c] = heap[c]  BY DEF IInv, HeapOK
    <3> QED  BY <2>1, <3>1, GetsFacts
  <2> HIDE DEF e, n
  <2>4. Looks(f, "Marshal", Top(p).b, N, "run")
    <3>1. IsFrame(e) /\ e.op = "Marshal" /\ e.b = Top(p).b /\ e.pc = "run"  BY <1>1, <1>2 DEF Looks, e
    <3>2. Looks(f, e.op, e.b, N, e.pc)  BY <3>1, FrameChanges
    <3> QED  BY <3>1, <3>2
  <2> HIDE DEF f
  <2>5. b # Top(p).b
    <3>1. Top(p).b \in InUse(p)  BY <1>1, TopFacts
    <3> QED  BY <2>3, <3>1 DEF Takes, Free
  <2>6. FrameOK(f) /\ f.op = Top(p).op /\ f.pc = "run" /\ BuffersOf(f) \subseteq BuffersOf(Top(p)) \cup N
    BY <1>1, <2>4, <2>5 DEF Looks, FrameOK, BuffersOf
  <2>7. G \subseteq BuffersOf(Top(p)) \ BuffersOf(f) /\ G = {}  OBVIOUS
  <2> HIDE DEF N, G
  <2> QED  BY <1>1, <2>2, <2>3, <2>6, <2>7, BecomesKeeps
<1> QED  BY <1>3, <1>4

LEMMA PackNumberKeeps == ASSUME IInv, NEW p \in Procs, PackNumber(p) PROVE IInv'
<1> DEFINE b == Releasing(Top(p))
           x == Put(heap[b], <<Head(Top(p).numbers)>>)
           f == [Top(p) EXCEPT !.numbers = Tail(@)]
<1>1. stack[p] # <<>> /\ Top(p).pc = "run"  BY DEF PackNumber, Packs, Runs
<1>2. Looks(f, Top(p).op, Top(p).b, Top(p).scratch, "run")  BY <1>1, TopFacts, FrameChanges
<1>3. heap' = [heap EXCEPT ![b] = x] /\ Becomes(p, f) /\ buffer_pool' = buffer_pool  BY DEF PackNumber
<1>4. IsBuffer(heap[b]) => IsBuffer(x)  BY BufferChanges
<1>5. b \in InUse(p)  BY <1>1, TopFacts
<1> HIDE DEF b, x, f
<1>6. OwnHeap(p, heap')
  <2>1. OwnHeap(p, [heap EXCEPT ![b] = x])  BY <1>4, <1>5, OwnChange
  <2> QED  BY <1>3, <2>1
<1> QED  BY <1>1, <1>2, <1>3, <1>6, ChangesKeeps

LEMMA AppendPackedKeeps == ASSUME IInv, NEW p \in Procs, AppendPacked(p) PROVE IInv'
<1> DEFINE b == Top(p).b
           x == Put(heap[b], <<Packed(heap[Releasing(Top(p))].buf)>>)
<1>1. stack[p] # <<>> /\ Top(p).op # "message"  BY DEF AppendPacked, Packs, Runs
<1>2. heap' = [heap EXCEPT ![b] = x] /\ StartRelease(p, Top(p)) /\ buffer_pool' = buffer_pool  BY DEF AppendPacked
<1>3. IsBuffer(heap[b]) => IsBuffer(x)  BY BufferChanges
<1>4. b \in InUse(p) /\ IsFrame(Top(p))  BY <1>1, TopFacts
<1>5. Looks(Top(p), Top(p).op, Top(p).b, Top(p).scratch, Top(p).pc)  BY <1>4 DEF Looks
<1> HIDE DEF b, x
<1>6. OwnHeap(p, heap')
  <2>1. OwnHeap(p, [heap EXCEPT ![b] = x])  BY <1>3, <1>4, OwnChange
  <2> QED  BY <1>2, <2>1
<1> QED  BY <1>1, <1>2, <1>5, <1>6, ReleaseKeeps

\* A call with a Buffer of its own
LEMMA NewCallKeeps ==
  ASSUME IInv, NEW p \in Procs, stack[p] # <<>>, NEW f, Looks(f, Top(p).op, Top(p).b, Top(p).scratch, "run"),
         NEW b \in Buffers, NEW e, NEW other, OwnHeap(p, other), Gets(b, e, other),
         NEW op \in {"Marshal", "Unmarshal", "duration"}, NEW todo, NEW at, Calls(p, f, Frame(op, b, todo, at))
  PROVE  IInv'
<1> DEFINE g == Frame(op, b, todo, at)
           N == {b}
<1>1. Takes(p, N) /\ Gives(N, {})  BY GetsFacts DEF OwnHeap
<1>2. Looks(g, op, b, {}, IF op = "Unmarshal" \/ op = "message" THEN "enter" ELSE "run")  BY NewFrame
<1> HIDE DEF g
<1>3. FrameOK(g) /\ g.pc # "put" /\ BuffersOf(g) \subseteq N  BY <1>2 DEF Looks, FrameOK, BuffersOf
<1>4. Calls(p, f, g)  BY DEF g
<1> HIDE DEF N
<1> QED  BY <1>1, <1>3, <1>4, CallsKeeps

LEMMA EncodeMarshalerKeeps == ASSUME IInv, NEW p \in Procs, EncodeMarshaler(p) PROVE IInv'
<1>1. stack[p] # <<>> /\ Top(p).pc = "run"  BY DEF EncodeMarshaler, Encoding, Runs
<1>2. Looks(Next1(p), Top(p).op, Top(p).b, Top(p).scratch, "run")  BY <1>1, Next1Looks
<1>3. PICK b \in Buffers : Gets(b, <<>>, heap) /\ Calls(p, Next1(p), Frame("Marshal", b, Field(p).of, <<>>))
  BY DEF EncodeMarshaler
<1>4. OwnHeap(p, heap)  BY OwnSame
<1> QED  BY <1>1, <1>2, <1>3, <1>4, NewCallKeeps

-----------------------------------------------------------------------------
(* the steps of release *)

LEMMA ClearKeeps == ASSUME IInv, NEW p \in Procs, Clear(p) PROVE IInv'
<1> DEFINE f == [Top(p) EXCEPT !.pc = "put"]
           b == Releasing(Top(p))
           x == Cleared(heap[b])
<1>1. stack[p] # <<>> /\ Top(p).pc = "clear"  BY DEF Clear
<1>2. Becomes(p, f) /\ heap' = [heap EXCEPT ![b] = x] /\ buffer_pool' = buffer_pool  BY DEF Clear
<1>3. Top(p).op # "message" /\ b \in InUse(p) /\ b \in Buffers /\ IsFrame(Top(p))  BY <1>1, TopFacts DEF FrameOK
<1>4. Looks(f, Top(p).op, Top(p).b, Top(p).scratch, "put")  BY <1>3, FrameChanges
<1>5. IsBuffer(heap[b]) => IsBuffer(x) /\ IsNew(x)  BY BufferChanges
<1> HIDE DEF f, b, x
<1>6. OwnHeap(p, heap')
  <2>1. OwnHeap(p, [heap EXCEPT ![b] = x])  BY <1>3, <1>5, OwnChange
  <2> QED  BY <1>2, <2>1
<1>7. IsNew(heap'[b])  BY <1>2, <1>3, <1>5 DEF IInv, HeapOK, IsHeap
<1>8. IsNew(heap'[Releasing(Top(p))])  BY <1>7 DEF b
<1> QED  BY <1>1, <1>2, <1>3, <1>4, <1>6, <1>8, ChangesKeeps

LEMMA PutBackKeeps == ASSUME IInv, NEW p \in Procs, PutBack(p) PROVE IInv'
<1> DEFINE b == Releasing(Top(p))
           G == {b}
<1>1. stack[p] # <<>> /\ Top(p).pc = "put" /\ buffer_pool' = buffer_pool \cup G  BY DEF PutBack
<1>2. FrameOK(Top(p)) /\ Top(p).op # "message" /\ IsFrame(Top(p)) /\ G \subseteq BuffersOf(Top(p))
  BY <1>1, TopFacts, ReleasingOneOf DEF FrameOK
<1>3. IsNew(heap[b])  BY <1>1 DEF IInv, ClearedFirst
<1>4. OwnHeap(p, heap)  BY OwnSame
<1>5. CASE Top(p).scratch # {}
  <2> DEFINE e == WithoutScratch(Top(p))
             f == [e EXCEPT !.pc = "run"]
             N == {}
  <2>1. Becomes(p, f) /\ heap' = heap  BY <1>5 DEF PutBack
  <2>2. Looks(e, Top(p).op, Top(p).b, N, "put")  BY <1>1, <1>2, FrameChanges DEF WithoutScratch
  <2> HIDE DEF e
  <2>3. IsFrame(e) /\ e.op = Top(p).op /\ e.b = Top(p).b /\ e.scratch = N  BY <2>2 DEF Looks
  <2>4. Looks(f, e.op, e.b, e.scratch, "run")  BY <2>3, FrameChanges
  <2> HIDE DEF f
  <2>5. FrameOK(f) /\ f.op = Top(p).op /\ f.pc = "run" /\ BuffersOf(f) = {Top(p).b}
    BY <2>3, <2>4 DEF Looks, FrameOK, BuffersOf
  <2>6. b # Top(p).b
    <3>1. PICK c \in Top(p).scratch : Top(p).scratch = {c} /\ c # Top(p).b  BY <1>2, <1>5 DEF FrameOK
    <3>2. b \in Top(p).scratch  BY <1>5 DEF Releasing
    <3> QED  BY <3>1, <3>2
  <2>7. BuffersOf(f) \subseteq BuffersOf(Top(p)) \cup N /\ G \subseteq BuffersOf(Top(p)) \ BuffersOf(f)
    BY <1>2, <2>5, <2>6 DEF BuffersOf
  <2>8. Takes(p, N) /\ Gives(N, G)  BY <1>1, <1>3, <1>4, <2>1, OwnTakes DEF Gives
  <2> HIDE DEF N, G
  <2> QED  BY <1>1, <1>2, <2>1, <2>5, <2>7, <2>8, BecomesKeeps
<1>6. CASE Top(p).scratch = {}
  <2>1. Deliver(p, Top(p), heap)  BY <1>6 DEF PutBack
  <2>2. \A c \in G : IsNew(heap[c])  BY <1>3
  <2> HIDE DEF G
  <2> QED  BY <1>1, <1>2, <1>4, <2>1, <2>2, DeliverKeeps DEF OwnHeap
<1> QED  BY <1>5, <1>6

-----------------------------------------------------------------------------
(* the steps of Unmarshal *)

LEMMA EndStructKeeps ==
  ASSUME IInv, NEW p \in Procs, stack[p] # <<>>, NEW h, IsBuffer(h), NEW err, EndStruct(p, h, err), buffer_pool' = buffer_pool
  PROVE  IInv'
<1> DEFINE b == Top(p).b
           f == [Top(p) EXCEPT !.result.err = err]
           x == [h EXCEPT !.buf = f.saved.buf, !.index = f.saved.index]
           G == {}
<1>1. IsFrame(Top(p)) /\ b \in InUse(p)  BY TopFacts
<1>2. Looks(f, Top(p).op, b, Top(p).scratch, Top(p).pc)  BY <1>1, FrameChanges
<1>3. f.op = Top(p).op /\ f.b = b  BY <1>2 DEF Looks
<1>4. CASE f.op = "Unmarshal"
  <2>1. StartRelease(p, f) /\ heap' = [heap EXCEPT ![f.b] = h]  BY <1>4 DEF EndStruct
  <2> HIDE DEF f
  <2>2. OwnHeap(p, [heap EXCEPT ![b] = h])  BY <1>1, OwnChange
  <2>3. OwnHeap(p, heap') /\ Top(p).op # "message"  BY <1>3, <1>4, <2>1, <2>2
  <2> QED  BY <1>2, <2>1, <2>3, ReleaseKeeps
<1>5. CASE f.op # "Unmarshal"
  <2> DEFINE hs == [heap EXCEPT ![f.b] = x]
  <2>1. Deliver(p, f, hs)  BY <1>5 DEF EndStruct
  <2>2. IsBuffer(x)
    <3> HIDE DEF f
    <3> QED  BY BufferChanges
  <2> HIDE DEF f, x
  <2>3. OwnHeap(p, hs)  BY <1>1, <1>3, <2>2, OwnChange
  <2>4. G \subseteq BuffersOf(Top(p)) /\ G = {} /\ (\A c \in G : IsNew(hs[c])) /\ buffer_pool' = buffer_pool \cup G  OBVIOUS
  <2> HIDE DEF hs, G
  <2> QED  BY <2>1, <2>3, <2>4, DeliverKeeps DEF OwnHeap
<1> QED  BY <1>4, <1>5

LEMMA EnterKeeps == ASSUME IInv, NEW p \in Procs, Enter(p) PROVE IInv'
<1> DEFINE b == Top(p).b
           h == [heap[b] EXCEPT !.depth = @ + 1]
           f == [Top(p) EXCEPT !.pc = "run"]
<1>1. stack[p] # <<>> /\ buffer_pool' = buffer_pool  BY DEF Enter
<1>2. b \in InUse(p) /\ b \in Buffers /\ IsFrame(Top(p))  BY <1>1, TopFacts
<1>3. IsBuffer(h)
  <2>1. IsBuffer(heap[b])  BY <1>2 DEF IInv, HeapOK, IsHeap
  <2> QED  BY <2>1, BufferChanges
<1>4. Looks(f, Top(p).op, b, Top(p).scratch, "run")  BY <1>2, FrameChanges
<1>5. IF h.depth > h.max THEN EndStruct(p, h, "too deep")
      ELSE Becomes(p, f) /\ heap' = [heap EXCEPT ![b] = h]
  BY DEF Enter
<1> HIDE DEF h, f
<1>6. CASE h.depth > h.max  BY <1>1, <1>3, <1>5, <1>6, EndStructKeeps
<1>7. CASE ~(h.depth > h.max)
  <2>1. Becomes(p, f) /\ heap' = [heap EXCEPT ![b] = h]  BY <1>5, <1>7
  <2>2. OwnHeap(p, [heap EXCEPT ![b] = h])  BY <1>2, <1>3, OwnChange
  <2>3. OwnHeap(p, heap')  BY <2>1, <2>2
  <2> DEFINE pc == "run"
  <2>4. pc = "run" /\ pc # "put" /\ Looks(f, Top(p).op, b, Top(p).scratch, pc)  BY <1>4
  <2> HIDE DEF pc
  <2> QED  BY <1>1, <2>1, <2>3, <2>4, ChangesKeeps
<1> QED  BY <1>6, <1>7

LEMMA LeaveKeeps == ASSUME IInv, NEW p \in Procs, Leave(p) PROVE IInv'
<1> DEFINE b == Top(p).b
           h == [heap[b] EXCEPT !.depth = @ - 1]
<1>1. stack[p] # <<>> /\ buffer_pool' = buffer_pool /\ EndStruct(p, h, Top(p).result.err)  BY DEF Leave, InStruct, Runs
<1>2. IsBuffer(h)
  <2>1. IsBuffer(heap[b])  BY <1>1, TopFacts DEF IInv, HeapOK, IsHeap
  <2> QED  BY <2>1, BufferChanges
<1> HIDE DEF h
<1> QED  BY <1>1, <1>2, EndStructKeeps

LEMMA DecodingRuns ==
  ASSUME NEW p, NEW kind, Decoding(p, kind)
  PROVE  stack[p] # <<>> /\ Top(p).pc = "run"
BY DEF Decoding, InStruct, Runs

LEMMA AdvancedOwn == ASSUME IInv, NEW p \in Procs, stack[p] # <<>> PROVE OwnHeap(p, Advanced(p))
<1> DEFINE b == Top(p).b
           x == [heap[b] EXCEPT !.index = @ + 1]
<1>1. b \in InUse(p)  BY TopFacts
<1>2. IsBuffer(heap[b]) => IsBuffer(x)  BY BufferChanges
<1>3. Advanced(p) = [heap EXCEPT ![b] = x]  BY DEF Advanced
<1> HIDE DEF b, x
<1> QED  BY <1>1, <1>2, <1>3, OwnChange

LEMMA DecodeNumberKeeps == ASSUME IInv, NEW p \in Procs, DecodeNumber(p) PROVE IInv'
<1> DEFINE b == Top(p).b
           a == <<p, Top(p).at>>
           i == heap[b].array_indexes[a]
           A == Advanced(p)
           x == [A[b] EXCEPT !.array_indexes[a] = i + 1]
<1>1. stack[p] # <<>> /\ Top(p).pc = "run" /\ stack' = stack /\ buffer_pool' = buffer_pool
  BY DecodingRuns DEF DecodeNumber
<1>2. OwnHeap(p, A)  BY <1>1, AdvancedOwn
<1>3. b \in InUse(p) /\ b \in Buffers  BY <1>1, TopFacts
<1>4. heap' = A \/ heap' = [A EXCEPT ![b] = x]  BY DEF DecodeNumber
<1> HIDE DEF A
<1>5. IsBuffer(x)
  <2>1. IsBuffer(A[b])  BY <1>2, <1>3 DEF OwnHeap, IsHeap
  <2> QED  BY <2>1, BufferChanges
<1> HIDE DEF x, b
<1>6. OwnHeap(p, heap')
  <2>1. IsHeap([A EXCEPT ![b] = x])  BY <1>2, <1>3, <1>5 DEF OwnHeap, IsHeap
  <2>2. \A c \in Buffers : c # b => [A EXCEPT ![b] = x][c] = A[c]  BY <1>2 DEF OwnHeap, IsHeap
  <2>3. OwnHeap(p, [A EXCEPT ![b] = x])  BY <1>2, <1>3, <2>1, <2>2 DEF OwnHeap
  <2> QED  BY <1>2, <1>4, <2>3
<1> QED  BY <1>1, <1>6, SameKeeps

LEMMA DecodeBadKeeps == ASSUME IInv, NEW p \in Procs, DecodeBad(p) PROVE IInv'
<1> DEFINE f == [Top(p) EXCEPT !.result.err = "bad"]
<1>1. stack[p] # <<>> /\ Top(p).pc = "run"  BY DecodingRuns DEF DecodeBad
<1>2. Becomes(p, f) /\ heap' = Advanced(p) /\ buffer_pool' = buffer_pool  BY DEF DecodeBad
<1>3. Looks(f, Top(p).op, Top(p).b, Top(p).scratch, "run")  BY <1>1, TopFacts, FrameChanges
<1> HIDE DEF f
<1>4. OwnHeap(p, heap')  BY <1>1, <1>2, AdvancedOwn
<1> QED  BY <1>1, <1>2, <1>3, <1>4, ChangesKeeps

LEMMA DecodeUnmarshalerKeeps == ASSUME IInv, NEW p \in Procs, DecodeUnmarshaler(p) PROVE IInv'
<1>1. stack[p] # <<>> /\ Top(p).pc = "run"  BY DecodingRuns DEF DecodeUnmarshaler
<1>2. PICK b \in Buffers : /\ Gets(b, Current(p).of, Advanced(p))
                           /\ Calls(p, Top(p), Frame("Unmarshal", b, <<>>, Append(Top(p).at, "custom")))
  BY DEF DecodeUnmarshaler
<1>3. OwnHeap(p, Advanced(p))  BY <1>1, AdvancedOwn
<1>4. Looks(Top(p), Top(p).op, Top(p).b, Top(p).scratch, "run")  BY <1>1, TopFacts DEF Looks
<1> QED  BY <1>1, <1>2, <1>3, <1>4, NewCallKeeps

LEMMA StartDurationKeeps == ASSUME IInv, NEW p \in Procs, StartDuration(p) PROVE IInv'
<1>1. stack[p] # <<>> /\ Top(p).pc = "run"  BY DecodingRuns DEF StartDuration
<1>2. PICK b \in Buffers : Gets(b, Current(p).of, Advanced(p)) /\ Calls(p, Top(p), Frame("duration", b, <<>>, Top(p).at))
  BY DEF StartDuration
<1>3. OwnHeap(p, Advanced(p))  BY <1>1, AdvancedOwn
<1>4. Looks(Top(p), Top(p).op, Top(p).b, Top(p).scratch, "run")  BY <1>1, TopFacts DEF Looks
<1> QED  BY <1>1, <1>2, <1>3, <1>4, NewCallKeeps

LEMMA DecodeMessageKeeps == ASSUME IInv, NEW p \in Procs, DecodeMessage(p) PROVE IInv'
<1> DEFINE b == Top(p).b
           m == Current(p).of
           e == Frame("message", b, <<>>, Append(Top(p).at, "message"))
           v == [buf |-> Bytes(p), index |-> heap[b].index + 1]
           g == [e EXCEPT !.saved = v]
           x == [heap[b] EXCEPT !.buf = m, !.index = 0]
           N == {}
<1>1. stack[p] # <<>> /\ Top(p).pc = "run"  BY DecodingRuns DEF DecodeMessage
<1>2. Calls(p, Top(p), g) /\ buffer_pool' = buffer_pool  BY DEF DecodeMessage
<1>3. heap' = [heap EXCEPT ![b] = x]
  <2>1. heap' = [heap EXCEPT ![b].buf = m, ![b].index = 0]  BY DEF DecodeMessage
  <2> HIDE DEF b, m
  <2> QED  BY <2>1 DEF IInv, HeapOK, IsHeap
<1>4. b \in InUse(p) /\ Top(p).b \in BuffersOf(Top(p))  BY <1>1, TopFacts DEF BuffersOf
<1>5. OwnHeap(p, heap')
  <2>1. IsBuffer(heap[b]) => IsBuffer(x)  BY BufferChanges
  <2> HIDE DEF b, x
  <2>2. OwnHeap(p, [heap EXCEPT ![b] = x])  BY <1>4, <2>1, OwnChange
  <2> QED  BY <1>3, <2>2
<1>6. Looks(e, "message", b, {}, "enter")  BY NewFrame
<1> HIDE DEF e, v
<1>7. IsFrame(e) /\ e.op = "message" /\ e.b = b /\ e.scratch = {} /\ e.pc = "enter"  BY <1>6 DEF Looks
<1>8. Looks(g, e.op, e.b, e.scratch, e.pc)  BY <1>7, FrameChanges
<1> HIDE DEF g
<1>9. FrameOK(g) /\ g.op = "message" /\ g.pc # "put" /\ BuffersOf(g) = {b}  BY <1>7, <1>8 DEF Looks, FrameOK, BuffersOf
<1>10. Looks(Top(p), Top(p).op, Top(p).b, Top(p).scratch, "run")  BY <1>1, TopFacts DEF Looks
<1>11. Takes(p, N) /\ Gives(N, {})  BY <1>2, <1>5, OwnTakes DEF Gives
<1>12. BuffersOf(g) \subseteq BuffersOf(Top(p))  BY <1>4, <1>9
<1> HIDE DEF N
<1> QED  BY <1>1, <1>2, <1>9, <1>10, <1>11, <1>12, CallsKeeps

LEMMA DecodeDurationKeeps == ASSUME IInv, NEW p \in Procs, DecodeDuration(p) PROVE IInv'
<1>1. stack[p] # <<>> /\ Top(p).pc = "run" /\ Top(p).op # "message" /\ buffer_pool' = buffer_pool
  BY DEF DecodeDuration, Runs
<1>2. Looks(Top(p), Top(p).op, Top(p).b, Top(p).scratch, Top(p).pc)  BY <1>1, TopFacts DEF Looks
<1>3. CASE AtEnd(p)
  <2>1. StartRelease(p, Top(p)) /\ heap' = heap  BY <1>3 DEF DecodeDuration
  <2>2. OwnHeap(p, heap')  BY <2>1, OwnSame
  <2> QED  BY <1>1, <1>2, <2>1, <2>2, ReleaseKeeps
<1>4. CASE ~AtEnd(p) /\ Current(p).kind = "number"
  <2>1. heap' = Advanced(p) /\ stack' = stack  BY <1>4 DEF DecodeDuration
  <2>2. OwnHeap(p, heap')  BY <1>1, <2>1, AdvancedOwn
  <2> QED  BY <1>1, <2>1, <2>2, SameKeeps
<1>5. CASE ~AtEnd(p) /\ Current(p).kind # "number"
  <2> DEFINE f == [Top(p) EXCEPT !.result.err = "bad"]
             b == Top(p).b
             hs == Freed(b)
             G == {}
  <2>1. Deliver(p, f, hs)  BY <1>5 DEF DecodeDuration
  <2>2. OwnHeap(p, hs)
    <3>1. b \in InUse(p) /\ IsBuffer(NewBuffer(0))  BY <1>1, TopFacts, NewBufferIsNew
    <3> QED  BY <3>1, OwnChange DEF Freed
  <2>3. G \subseteq BuffersOf(Top(p)) /\ G = {} /\ (\A c \in G : IsNew(hs[c])) /\ buffer_pool' = buffer_pool \cup G  BY <1>1
  <2> HIDE DEF hs, G, f
  <2> QED  BY <1>1, <2>1, <2>2, <2>3, DeliverKeeps DEF OwnHeap
<1> QED  BY <1>3, <1>4, <1>5

-----------------------------------------------------------------------------
(* the other steps *)

LEMMA CallKeeps ==
  ASSUME IInv, NEW p \in Procs, NEW op \in {"Marshal", "Unmarshal"}, NEW of, NEW e, NEW todo, Call(p, op, of, e, todo)
  PROVE  IInv'
<1>1. PICK b \in Buffers : Gets(b, e, heap) /\ stack' = [stack EXCEPT ![p] = <<Frame(op, b, todo, <<>>)>>]
  BY DEF Call
<1> DEFINE g == Frame(op, b, todo, <<>>)
           s == Append(<<>>, g)
           N == {b}
           G == {}
<1>2. OwnHeap(p, heap)  BY OwnSame
<1>3. Takes(p, N) /\ Gives(N, G)  BY <1>1, <1>2, GetsFacts DEF OwnHeap
<1>4. Looks(g, op, b, {}, IF op = "Unmarshal" \/ op = "message" THEN "enter" ELSE "run")  BY NewFrame
<1>5. s = <<g>>  OBVIOUS
<1>6. StackIs(p, s)  BY <1>1, <1>5 DEF StackIs, IInv, StackOK
<1> HIDE DEF g
<1>7. FrameOK(g) /\ g.pc # "put" /\ BuffersOf(g) = N  BY <1>4 DEF Looks, FrameOK, BuffersOf
<1> HIDE DEF s, N
<1>8. Good(s) /\ s[Len(s)] = g /\ BuffersIn(s) \subseteq N
  <2> DEFINE z == <<>>
  <2>1. Good(z) /\ BuffersIn(z) = {}  BY GoodEmpty
  <2>2. Push(z, g, s)  BY <2>1, Pushed DEF s, Good
  <2>3. (z # <<>> => z[Len(z)].pc = "run") /\ BuffersOf(g) \cap BuffersIn(z) = {}  BY <2>1
  <2> HIDE DEF z
  <2> QED  BY <1>7, <2>1, <2>2, <2>3, GoodPush
<1>9. s[Len(s)].pc # "put" /\ BuffersIn(s) \subseteq InUse(p) \cup N  BY <1>7, <1>8
<1>10. G \subseteq InUse(p) /\ G \cap BuffersIn(s) = {}  OBVIOUS
<1> HIDE DEF G
<1> QED  BY <1>3, <1>6, <1>8, <1>9, <1>10, StepKeeps

\* What is neither pooled nor in use may change.
LEMMA OthersKeep ==
  ASSUME IInv, UNCHANGED stack, buffer_pool' \subseteq buffer_pool, IsHeap(heap'),
         \A b \in Buffers : heap'[b] = heap[b] \/ b \in buffer_pool \ buffer_pool'
  PROVE  IInv'
<1>1. \A p \in Procs : InUse(p)' = InUse(p)  BY DEF InUse
<1>2. \A p \in Procs : Top(p)' = Top(p)  BY DEF Top
<1>3. HeapOK' /\ StackOK'  BY <1>1 DEF HeapOK, StackOK, IInv
<1>4. Disjoint'  BY <1>1 DEF IInv, Disjoint
<1>5. \A b \in buffer_pool' : IsNew(heap'[b])  BY DEF IInv, Disjoint, ClearedFirst
<1>6. ASSUME NEW p \in Procs, stack'[p] # <<>>, Top(p)'.pc = "put" PROVE IsNew(heap'[Releasing(Top(p)')])
  <2> DEFINE b == Releasing(Top(p))
  <2>1. stack[p] # <<>> /\ Top(p).pc = "put"  BY <1>2, <1>6
  <2>2. b \in InUse(p) /\ b \in Buffers /\ IsNew(heap[b])  BY <2>1, TopFacts DEF IInv, ClearedFirst
  <2>3. b \notin buffer_pool  BY <2>2 DEF IInv, Disjoint
  <2> HIDE DEF b
  <2>4. IsNew(heap'[b])  BY <2>2, <2>3
  <2> QED  BY <1>2, <2>4 DEF b
<1>7. \A p \in Procs : Releasing(Top(p))' = Releasing(Top(p)')  BY DEF Releasing, Top
<1>8. ClearedFirst'  BY <1>5, <1>6, <1>7 DEF ClearedFirst
<1> QED  BY <1>3, <1>4, <1>8 DEF IInv

LEMMA CollectKeeps == ASSUME IInv, Collect PROVE IInv'
<1>1. PICK b \in buffer_pool : buffer_pool' = buffer_pool \ {b} /\ heap' = Freed(b)  BY DEF Collect
<1> DEFINE n == NewBuffer(0)
<1>2. IsBuffer(n)  BY NewBufferIsNew
<1>3. heap' = [heap EXCEPT ![b] = n] /\ b \in Buffers  BY <1>1 DEF Freed, IInv, Disjoint
<1> HIDE DEF n
<1>4. IsHeap(heap') /\ \A c \in Buffers : c # b => heap'[c] = heap[c]  BY <1>2, <1>3 DEF IInv, HeapOK, IsHeap
<1>5. UNCHANGED stack  BY DEF Collect
<1> QED  BY <1>1, <1>4, <1>5, OthersKeep

LEMMA SameIInv == ASSUME IInv, UNCHANGED <<buffer_pool, heap, stack>> PROVE IInv'
BY OthersKeep DEF IInv, HeapOK

LEMMA StepOfProc == ASSUME IInv, NEW p \in Procs, Step(p) PROVE IInv'
<1>1. CASE EncodeNumber(p)  BY <1>1, EncodeNumberKeeps
<1>2. CASE EncodeMarshaler(p)  BY <1>2, EncodeMarshalerKeeps
<1>3. CASE EncodeFailing(p)  BY <1>3, EncodeFailingKeeps
<1>4. CASE EndMarshal(p)  BY <1>4, EndMarshalKeeps
<1>5. CASE StartPacked(p)  BY <1>5, StartPackedKeeps
<1>6. CASE PackNumber(p)  BY <1>6, PackNumberKeeps
<1>7. CASE AppendPacked(p)  BY <1>7, AppendPackedKeeps
<1>8. CASE Enter(p)  BY <1>8, EnterKeeps
<1>9. CASE Leave(p)  BY <1>9, LeaveKeeps
<1>10. CASE DecodeNumber(p)  BY <1>10, DecodeNumberKeeps
<1>11. CASE DecodeBad(p)  BY <1>11, DecodeBadKeeps
<1>12. CASE DecodeMessage(p)  BY <1>12, DecodeMessageKeeps
<1>13. CASE DecodeUnmarshaler(p)  BY <1>13, DecodeUnmarshalerKeeps
<1>14. CASE StartDuration(p)  BY <1>14, StartDurationKeeps
<1>15. CASE DecodeDuration(p)  BY <1>15, DecodeDurationKeeps
<1>16. CASE Clear(p)  BY <1>16, ClearKeeps
<1>17. CASE PutBack(p)  BY <1>17, PutBackKeeps
<1> QED  BY <1>1, <1>2, <1>3, <1>4, <1>5, <1>6, <1>7, <1>8, <1>9, <1>10, <1>11, <1>12, <1>13, <1>14, <1>15, <1>16,
            <1>17 DEF Step

LEMMA InitIInv == ASSUME Init PROVE IInv
<1>1. HeapOK
  <2> DEFINE n == NewBuffer(0)
  <2>1. IsBuffer(n)  BY NewBufferIsNew
  <2>2. heap = [b \in Buffers |-> n]  BY DEF Init
  <2> HIDE DEF n
  <2> QED  BY <2>1, <2>2 DEF HeapOK, IsHeap
<1>2. \A p \in Procs : stack[p] = <<>> /\ Good(stack[p]) /\ InUse(p) = {}
  <2>1. \A p \in Procs : stack[p] = <<>>  BY DEF Init
  <2> QED  BY <2>1, GoodEmpty, InUseIs
<1>3. StackOK  BY <1>2 DEF Init, StackOK
<1>4. Disjoint  BY <1>2 DEF Init, Disjoint
<1>5. ClearedFirst  BY <1>2 DEF Init, ClearedFirst
<1> QED  BY <1>1, <1>3, <1>4, <1>5 DEF IInv

LEMMA NextIInv == ASSUME IInv, [Next]_vars PROVE IInv'
<1>1. ASSUME NEW p \in Procs, Marshal(p) PROVE IInv'
  <2>1. PICK v \in Values : Call(p, "Marshal", v, <<>>, v)  BY <1>1 DEF Marshal
  <2> QED  BY <2>1, CallKeeps
<1>2. ASSUME NEW p \in Procs, Unmarshal(p) PROVE IInv'
  <2>1. PICK m \in Messages : Call(p, "Unmarshal", m, m, <<>>)  BY <1>2 DEF Unmarshal
  <2> QED  BY <2>1, CallKeeps
<1>3. ASSUME NEW p \in Procs, Take(p) PROVE IInv'  BY <1>3, SameIInv DEF Take
<1>4. ASSUME NEW p \in Procs, Step(p) PROVE IInv'  BY <1>4, StepOfProc
<1>5. CASE Collect  BY <1>5, CollectKeeps
<1>6. CASE SetMaxRecursionDepth  BY <1>6, SameIInv DEF SetMaxRecursionDepth
<1>7. CASE UNCHANGED vars  BY <1>7, SameIInv DEF vars
<1> QED  BY <1>1, <1>2, <1>3, <1>4, <1>5, <1>6, <1>7 DEF Next

\* The invariant holds of all behaviours of the goroutines, the pool and the collector.
THEOREM Invariant == Spec => []IInv
<1>1. Init => IInv  BY InitIInv
<1>2. IInv /\ [Next]_vars => IInv'  BY NextIInv
<1> QED  BY <1>1, <1>2, PTL DEF Spec

-----------------------------------------------------------------------------

LEMMA IInvExclusive == ASSUME IInv PROVE Exclusive
<1>1. ASSUME NEW p \in Procs, NEW j \in DOMAIN stack[p], NEW k \in DOMAIN stack[p]
      PROVE  /\ j < k /\ BuffersOf(stack[p][j]) \cap BuffersOf(stack[p][k]) # {} => stack[p][k].op = "message"
             /\ stack[p][j].b \notin stack[p][j].scratch
  <2> DEFINE s == stack[p]
  <2>1. Good(s)  BY DEF IInv, StackOK
  <2>2. DOMAIN s = 1..Len(s)  BY <2>1, StackLen DEF Good
  <2> HIDE DEF s
  <2>3. j < k /\ BuffersOf(s[j]) \cap BuffersOf(s[k]) # {} => s[k].op = "message"  BY <1>1, <2>1, <2>2 DEF Good, s
  <2>4. FrameOK(s[j])  BY <1>1, <2>1, <2>2 DEF Good, s
  <2>5. s[j].b \notin s[j].scratch  BY <2>4 DEF FrameOK
  <2> QED  BY <2>3, <2>5 DEF s
<1> QED  BY <1>1 DEF Exclusive, IInv, Disjoint

LEMMA IInvPooledAreNew == ASSUME IInv PROVE PooledAreNew
BY NewIsNewBuffer DEF IInv, ClearedFirst, PooledAreNew

\* No Buffer has two users at once, and none while it is in the pool: neither two goroutines, nor
\* two calls of one, nor a call and its scratch buffer, but for a message in its message (newBuffer
\* and release, lib.go).
THEOREM SpecExclusive == Spec => []Exclusive
BY Invariant, IInvExclusive, PTL

\* Every Buffer of the pool is as a new one but for its recursion limit, however the calls ended
\* that it was used for (release, lib.go).
THEOREM SpecPooledAreNew == Spec => []PooledAreNew
BY Invariant, IInvPooledAreNew, PTL

-----------------------------------------------------------------------------
(* induction *)

Less == {p \in Nat \X Nat : p[1] < p[2]}

LEMMA LeastNat ==
  ASSUME NEW S \in SUBSET Nat, S # {}
  PROVE  \E m \in S : \A k \in S : m <= k
<1>1. IsWellFoundedOn(Less, Nat)
  BY NatLessThanWellFounded DEF Less, OpToRel
<1>2. PICK m \in S : \A k \in S : <<k, m>> \notin Less
  BY <1>1, WFMin
<1>3. ASSUME NEW k \in S PROVE m <= k
  <2>1. k \in Nat /\ m \in Nat /\ <<k, m>> \in Nat \X Nat
    OBVIOUS
  <2>2. ~(k < m)
    BY <1>2, <2>1 DEF Less
  <2> QED
    BY <2>1, <2>2
<1> QED
  BY <1>3

LEMMA SetInduction ==
  ASSUME NEW S, 0 \in S, \A k \in Nat : k \in S => k + 1 \in S
  PROVE  Nat \subseteq S
<1> SUFFICES ASSUME Nat \ S # {} PROVE FALSE
  OBVIOUS
<1>1. PICK m \in Nat \ S : \A k \in Nat \ S : m <= k
  BY LeastNat
<1>2. m # 0 /\ m - 1 \in Nat
  BY <1>1
<1>3. m - 1 \in S
  BY <1>1, <1>2
<1> QED
  BY <1>1, <1>2, <1>3

-----------------------------------------------------------------------------
(* the answers: functions that are defined by recursion exist *)

LEMMA SizeNat == \A v \in Lists : Size[v] \in Nat
BY ListsAssumption

LEMMA ListParts ==
  ASSUME NEW v \in Lists, v # <<>>
  PROVE  /\ Tail(v) \in Lists /\ Head(v).of \in Lists
         /\ Size[Tail(v)] \in Nat /\ Size[Head(v).of] \in Nat /\ Size[v] \in Nat
         /\ Size[Tail(v)] < Size[v] /\ Size[Head(v).of] < Size[v]
<1>1. {Tail(v), Head(v).of} \subseteq Lists /\ Size[Tail(v)] < Size[v] /\ Size[Head(v).of] < Size[v]
  BY ListsAssumption
<1> QED
  BY <1>1, SizeNat

EncodedBy(g, v) ==
  IF v = <<>> THEN Promise!Items(<<>>, Promise!None)
  ELSE Promise!Both(Promise!Field(Head(v), g[Head(v).of]), g[Tail(v)])

\* g encodes the lists whose size is less than n.
EncodesUpTo(g, n) == \A v \in Lists : Size[v] < n => g[v] = EncodedBy(g, v)

LEMMA EncodedLocal ==
  ASSUME NEW g, NEW h, NEW v \in Lists, \A w \in Lists : Size[w] < Size[v] => g[w] = h[w]
  PROVE  EncodedBy(g, v) = EncodedBy(h, v)
<1>1. CASE v = <<>>
  BY <1>1 DEF EncodedBy
<1>2. CASE v # <<>>
  <2>1. g[Tail(v)] = h[Tail(v)] /\ g[Head(v).of] = h[Head(v).of]
    BY <1>2, ListParts
  <2> QED
    BY <2>1 DEF EncodedBy
<1> QED
  BY <1>1, <1>2

LEMMA EncodesAgree ==
  ASSUME NEW g, NEW h, NEW n \in Nat, EncodesUpTo(g, n), EncodesUpTo(h, n), NEW v \in Lists, Size[v] < n
  PROVE  g[v] = h[v]
<1> DEFINE S == {k \in Nat : \A w \in Lists : Size[w] < k /\ Size[w] < n => g[w] = h[w]}
<1>1. 0 \in S
  BY SizeNat
<1>2. ASSUME NEW k \in Nat, k \in S PROVE k + 1 \in S
  <2> SUFFICES ASSUME NEW w \in Lists, Size[w] < k + 1, Size[w] < n PROVE g[w] = h[w]
    OBVIOUS
  <2>1. Size[w] \in Nat
    BY SizeNat
  <2>2. ASSUME NEW x \in Lists, Size[x] < Size[w] PROVE g[x] = h[x]
    <3>1. Size[x] \in Nat
      BY SizeNat
    <3> QED
      BY <1>2, <2>1, <2>2, <3>1
  <2>3. EncodedBy(g, w) = EncodedBy(h, w)
    BY <2>2, EncodedLocal
  <2> QED
    BY <2>3 DEF EncodesUpTo
<1> HIDE DEF S
<1>3. Nat \subseteq S
  BY <1>1, <1>2, SetInduction
<1>4. n \in S
  BY <1>3
<1> QED
  BY <1>4 DEF S

LEMMA EncodesExists ==
  ASSUME NEW n \in Nat
  PROVE  \E g : EncodesUpTo(g, n)
<1> DEFINE S == {k \in Nat : \E g : EncodesUpTo(g, k)}
<1>1. 0 \in S
  <2>1. EncodesUpTo(<<>>, 0)
    BY SizeNat DEF EncodesUpTo
  <2> QED
    BY <2>1
<1>2. ASSUME NEW k \in Nat, k \in S PROVE k + 1 \in S
  <2>1. PICK g : EncodesUpTo(g, k)
    BY <1>2
  <2> DEFINE h == [v \in Lists |-> EncodedBy(g, v)]
  <2>2. ASSUME NEW v \in Lists, Size[v] < k + 1 PROVE h[v] = EncodedBy(h, v)
    <3>1. Size[v] \in Nat
      BY SizeNat
    <3>2. ASSUME NEW w \in Lists, Size[w] < Size[v] PROVE g[w] = h[w]
      <4>1. Size[w] \in Nat
        BY SizeNat
      <4>2. Size[w] < k
        BY <2>2, <3>1, <3>2, <4>1
      <4> QED
        BY <2>1, <4>2 DEF EncodesUpTo
    <3>3. h[v] = EncodedBy(g, v)
      OBVIOUS
    <3> HIDE DEF h
    <3>4. EncodedBy(g, v) = EncodedBy(h, v)
      BY <3>2, EncodedLocal
    <3> QED
      BY <3>3, <3>4
  <2> HIDE DEF h
  <2>3. EncodesUpTo(h, k + 1)
    BY <2>2 DEF EncodesUpTo
  <2> QED
    BY <2>3
<1> HIDE DEF S
<1>3. Nat \subseteq S
  BY <1>1, <1>2, SetInduction
<1>4. n \in S
  BY <1>3
<1> QED
  BY <1>4 DEF S

LEMMA EncodedIs ==
  /\ \A v \in Lists : Promise!Encoded[v] = EncodedBy(Promise!Encoded, v)
<1> DEFINE Upto(n) == CHOOSE g : EncodesUpTo(g, n)
           G == [v \in Lists |-> Upto(Size[v] + 1)[v]]
<1>1. ASSUME NEW n \in Nat PROVE EncodesUpTo(Upto(n), n)
  BY EncodesExists
<1> HIDE DEF Upto
<1>2. ASSUME NEW v \in Lists PROVE G[v] = EncodedBy(G, v)
  <2> DEFINE h == Upto(Size[v] + 1)
  <2>1. Size[v] \in Nat /\ Size[v] + 1 \in Nat
    BY SizeNat
  <2>2. EncodesUpTo(h, Size[v] + 1)
    BY <1>1, <2>1
  <2>3. ASSUME NEW w \in Lists, Size[w] < Size[v] PROVE h[w] = G[w]
    <3> DEFINE g == Upto(Size[w] + 1)
    <3>1. Size[w] \in Nat /\ Size[w] + 1 \in Nat
      BY SizeNat
    <3>2. EncodesUpTo(g, Size[w] + 1) /\ EncodesUpTo(h, Size[w] + 1)
      <4>1. \A u \in Lists : Size[u] \in Nat
        BY SizeNat
      <4>2. EncodesUpTo(g, Size[w] + 1)
        BY <1>1, <3>1
      <4> HIDE DEF g, h
      <4> QED
        BY <2>1, <2>2, <2>3, <3>1, <4>1, <4>2 DEF EncodesUpTo
    <3>3. G[w] = g[w]
      OBVIOUS
    <3>4. Size[w] < Size[w] + 1
      BY <3>1
    <3> HIDE DEF g, h, G
    <3> QED
      BY <3>1, <3>2, <3>3, <3>4, EncodesAgree
  <2>4. G[v] = h[v]
    OBVIOUS
  <2> HIDE DEF G, h
  <2>5. EncodedBy(h, v) = EncodedBy(G, v)
    BY <2>3, EncodedLocal
  <2>6. h[v] = EncodedBy(h, v)
    BY <2>1, <2>2 DEF EncodesUpTo
  <2> QED
    BY <2>4, <2>5, <2>6
<1>3. G = [v \in Lists |-> EncodedBy(G, v)]
  <2>1. G = [v \in Lists |-> G[v]]
    OBVIOUS
  <2> HIDE DEF G
  <2> QED
    BY <1>2, <2>1
<1> HIDE DEF G
<1> DEFINE Right(g) == g = [v \in Lists |-> EncodedBy(g, v)]
<1>4. Promise!Encoded = CHOOSE g : Right(g)
  BY DEF Promise!Encoded, EncodedBy
<1>5. Right(G)
  BY <1>3
<1> HIDE DEF Right
<1>6. Right(Promise!Encoded)
  BY <1>4, <1>5
<1>7. Promise!Encoded = [v \in Lists |-> EncodedBy(Promise!Encoded, v)]
  BY <1>6 DEF Right
<1> QED
  BY <1>7

-----------------------------------------------------------------------------

\* Where the elements of a list are
LEMMA HeadOfList ==
  ASSUME NEW v \in Lists, v # <<>>
  PROVE  /\ Len(v) \in Nat \ {0} /\ Head(v) = v[1] /\ Head(v).x \in Int
         /\ Head(v) = [kind |-> Head(v).kind, of |-> Head(v).of, x |-> Head(v).x]
         /\ Head(v).kind # "number" => Head(v) = Item(Head(v).kind, Head(v).of)
<1> DEFINE S == {v[k] : k \in DOMAIN v}
           h == Head(v)
<1>1. v \in Seq(S) /\ h = [Item(h.kind, h.of) EXCEPT !.x = h.x] /\ h.x \in Int /\ (h.kind # "number" => h.x = 0)
  BY ListsAssumption
<1>2. Len(v) \in Nat \ {0} /\ h = v[1]
  <2> HIDE DEF S
  <2> QED
    BY <1>1
<1> HIDE DEF h
<1>3. h = [kind |-> h.kind, of |-> h.of, x |-> h.x]
  BY <1>1 DEF Item
<1>4. h.kind # "number" => h = Item(h.kind, h.of)
  BY <1>1, <1>3 DEF Item
<1> QED
  BY <1>1, <1>2, <1>3, <1>4 DEF h

IsDecoder(d) == d \in Promise!Decoders
IsOutcome(o) == o \in Promise!Outcomes

LEMMA NoneFilledIs == Promise!NoneFilled \in Promise!Counts
BY BufferPoolAssumption DEF Promise!NoneFilled, Promise!Counts

IsNested(e, d, items, at, depth, counts) ==
  /\ IsDecoder(e) /\ e.items = items /\ e.at = at /\ e.depth = depth /\ e.max = d.max
  /\ e.into = d.into /\ e.counts = counts /\ e.err = IF depth > d.max THEN "too deep" ELSE d.err

LEMMA NestedIs ==
  ASSUME NEW d, IsDecoder(d), NEW items \in Lists, NEW at \in Seq({"message", "custom"}), NEW depth \in Nat,
         NEW counts \in Promise!Counts
  PROVE  IsNested(Promise!Nested(d, items, at, depth, counts), d, items, at, depth, counts)
BY DEF IsNested, IsDecoder, Promise!Decoders, Promise!Nested, Promise!None

LEMMA PathWithin ==
  ASSUME NEW d, IsDecoder(d), NEW x \in {"message", "custom"}
  PROVE  Append(d.at, x) \in Seq({"message", "custom"})
<1> DEFINE S == {"message", "custom"}
<1>1. d.at \in Seq(S) /\ x \in S
  BY DEF IsDecoder, Promise!Decoders
<1> HIDE DEF S
<1>2. Append(d.at, x) \in Seq(S)
  BY <1>1
<1> QED
  BY <1>2 DEF S

LEMMA MessageInIs ==
  ASSUME NEW d, IsDecoder(d), d.items # <<>>
  PROVE  IsNested(Promise!MessageIn(d), d, Head(d.items).of, Append(d.at, "message"), d.depth + 1, d.counts)
<1> DEFINE at == Append(d.at, "message")
           depth == d.depth + 1
           items == Head(d.items).of
<1>1. at \in Seq({"message", "custom"})
  BY PathWithin
<1>2. d.depth \in Nat /\ d.counts \in Promise!Counts /\ d.items \in Lists
  <2> HIDE DEF items, depth, at
  <2> QED
    BY DEF IsDecoder, Promise!Decoders
<1>3. items \in Lists /\ depth \in Nat
  BY <1>2, ListParts
<1> HIDE DEF at, depth, items
<1>4. IsNested(Promise!Nested(d, items, at, depth, d.counts), d, items, at, depth, d.counts)
  BY <1>1, <1>2, <1>3, NestedIs
<1> QED
  BY <1>4 DEF Promise!MessageIn, at, depth, items

LEMMA CustomInIs ==
  ASSUME NEW d, IsDecoder(d), d.items # <<>>
  PROVE  IsNested(Promise!CustomIn(d), d, Head(d.items).of, Append(d.at, "custom"), 1, Promise!NoneFilled)
<1> DEFINE at == Append(d.at, "custom")
           items == Head(d.items).of
<1>1. at \in Seq({"message", "custom"})
  BY PathWithin
<1>2. d.items \in Lists
  BY DEF IsDecoder, Promise!Decoders
<1>3. items \in Lists /\ Promise!NoneFilled \in Promise!Counts
  BY <1>2, ListParts, NoneFilledIs
<1> HIDE DEF at, items
<1>4. IsNested(Promise!Nested(d, items, at, 1, Promise!NoneFilled), d, items, at, 1, Promise!NoneFilled)
  BY <1>1, <1>3, NestedIs
<1> QED
  BY <1>4 DEF Promise!CustomIn, at, items

LEMMA StoredIs ==
  ASSUME NEW d, IsDecoder(d), NEW x \in Int
  PROVE  IsDecoder(Promise!Stored(d, x)) /\ Promise!Stored(d, x).items = d.items
<1>1. CASE d.at \in Paths /\ d.counts[d.at] < ArrayLen
  <2> DEFINE n == d.counts[d.at]
             into == [d.into EXCEPT ![d.at] = [@ EXCEPT ![n + 1] = x]]
             counts == [d.counts EXCEPT ![d.at] = @ + 1]
  <2>1. d.into \in Promise!Arrays /\ d.counts \in Promise!Counts
    BY DEF IsDecoder, Promise!Decoders
  <2>2. n \in 0..ArrayLen /\ n + 1 \in 1..ArrayLen
    BY <1>1, <2>1, BufferPoolAssumption DEF Promise!Counts
  <2>3. into \in Promise!Arrays
    BY <1>1, <2>1, <2>2 DEF Promise!Arrays
  <2>4. counts \in Promise!Counts
    BY <1>1, <2>1, <2>2 DEF Promise!Counts
  <2>5. Promise!Stored(d, x) = [d EXCEPT !.into = into, !.counts = counts]
    BY <1>1, <2>1 DEF Promise!Stored, IsDecoder, Promise!Decoders, Promise!Arrays, Promise!Counts
  <2> HIDE DEF into, counts
  <2> QED
    BY <2>3, <2>4, <2>5 DEF IsDecoder, Promise!Decoders
<1>2. CASE ~(d.at \in Paths /\ d.counts[d.at] < ArrayLen)
  BY <1>2 DEF Promise!Stored
<1> QED
  BY <1>1, <1>2

LEMMA AfterIs ==
  ASSUME NEW d, IsDecoder(d), d.items # <<>>, NEW in, IsOutcome(in), NEW self, IsOutcome(self)
  PROVE  IsDecoder(Promise!After(d, in, self)) /\ Promise!After(d, in, self).items = Tail(d.items)
<1> DEFINE item == Head(d.items)
           items == Tail(d.items)
           rest == [d EXCEPT !.items = items]
           e == Promise!After(d, in, self)
<1>1. d.items \in Lists
  BY DEF IsDecoder, Promise!Decoders
<1>2. items \in Lists /\ item.x \in Int
  BY <1>1, ListParts, HeadOfList
<1>3. IsDecoder(rest) /\ rest.items = items
  <2> HIDE DEF items
  <2> QED
    BY <1>2 DEF IsDecoder, Promise!Decoders
<1>4. e = CASE item.kind = "number"  -> Promise!Stored(rest, item.x)
        [] item.kind = "message" -> [rest EXCEPT !.into = in.into, !.counts = in.counts, !.err = in.err]
        [] item.kind = "custom"  -> [rest EXCEPT !.into = self.into, !.err = self.err]
        [] item.kind = "duration" /\ Promise!AllNumbers(item.of) -> rest
        [] OTHER -> [rest EXCEPT !.err = "bad"]
  BY DEF Promise!After
<1> DEFINE Fine == IsDecoder(e) /\ e.items = items
<1> HIDE DEF item, rest, e, items
<1>5. item.kind = "number" => Fine
  BY <1>2, <1>3, <1>4, StoredIs
<1>6. item.kind = "message" => Fine
  BY <1>3, <1>4 DEF IsDecoder, IsOutcome, Promise!Decoders, Promise!Outcomes
<1>7. item.kind = "custom" => Fine
  BY <1>3, <1>4 DEF IsDecoder, IsOutcome, Promise!Decoders, Promise!Outcomes
<1>8. item.kind = "duration" /\ Promise!AllNumbers(item.of) => Fine
  BY <1>3, <1>4
<1>9. item.kind \notin {"number", "message", "custom"} /\ ~(item.kind = "duration" /\ Promise!AllNumbers(item.of)) => Fine
  <2> SUFFICES ASSUME item.kind \notin {"number", "message", "custom"}, ~(item.kind = "duration" /\ Promise!AllNumbers(item.of))
               PROVE  Fine
    OBVIOUS
  <2>1. e = [rest EXCEPT !.err = "bad"]
    BY <1>4
  <2> QED
    BY <1>3, <2>1 DEF IsDecoder, Promise!Decoders
<1>10. Fine
  BY <1>5, <1>6, <1>7, <1>8, <1>9
<1> QED
  BY <1>10 DEF e, items

Ended(d) == [into |-> d.into, counts |-> d.counts, err |-> d.err]

LEMMA EndedIs == ASSUME NEW d, IsDecoder(d) PROVE IsOutcome(Ended(d))
BY DEF IsDecoder, IsOutcome, Ended, Promise!Decoders, Promise!Outcomes, Promise!None

DecodedBy(g, d) ==
  IF d.items = <<>> \/ d.err # Promise!None THEN Ended(d)
  ELSE g[Promise!After(d, g[Promise!MessageIn(d)], g[Promise!CustomIn(d)])]

DecodesAll(g) == g \in [Promise!Decoders -> Promise!Outcomes]

DecodesUpTo(g, n) == \A d \in Promise!Decoders : Size[d.items] < n => g[d] = DecodedBy(g, d)

LEMMA ItemsOf == ASSUME NEW d, IsDecoder(d) PROVE d.items \in Lists /\ Size[d.items] \in Nat
BY SizeNat DEF IsDecoder, Promise!Decoders

LEMMA DecodedByIs == ASSUME NEW g, DecodesAll(g), NEW d, IsDecoder(d) PROVE IsOutcome(DecodedBy(g, d))
<1>1. CASE d.items = <<>> \/ d.err # Promise!None
  BY <1>1, EndedIs DEF DecodedBy
<1>2. CASE ~(d.items = <<>> \/ d.err # Promise!None)
  <2> DEFINE in == g[Promise!MessageIn(d)]
             self == g[Promise!CustomIn(d)]
             e == Promise!After(d, in, self)
  <2>1. IsOutcome(in) /\ IsOutcome(self)
    BY <1>2, MessageInIs, CustomInIs DEF IsNested, DecodesAll, IsDecoder, IsOutcome
  <2> HIDE DEF in, self
  <2>2. IsDecoder(e)
    BY <1>2, <2>1, AfterIs
  <2> HIDE DEF e
  <2>3. IsOutcome(g[e])
    BY <2>2 DEF DecodesAll, IsDecoder, IsOutcome
  <2> QED
    BY <1>2, <2>3 DEF DecodedBy, e, in, self
<1> QED
  BY <1>1, <1>2

LEMMA DecodedLocal ==
  ASSUME NEW g, DecodesAll(g), NEW h, NEW d, IsDecoder(d),
         \A e : IsDecoder(e) /\ Size[e.items] < Size[d.items] => g[e] = h[e]
  PROVE  DecodedBy(g, d) = DecodedBy(h, d)
<1>1. CASE d.items = <<>> \/ d.err # Promise!None
  BY <1>1 DEF DecodedBy
<1>2. CASE ~(d.items = <<>> \/ d.err # Promise!None)
  <2> DEFINE m == Promise!MessageIn(d)
             c == Promise!CustomIn(d)
             e == Promise!After(d, g[m], g[c])
  <2>1. IsDecoder(m) /\ IsDecoder(c) /\ m.items = Head(d.items).of /\ c.items = Head(d.items).of
    BY <1>2, MessageInIs, CustomInIs DEF IsNested
  <2>2. d.items \in Lists /\ d.items # <<>>
    BY <1>2, ItemsOf
  <2>3. Size[m.items] < Size[d.items] /\ Size[c.items] < Size[d.items]
    BY <2>1, <2>2, ListParts
  <2> HIDE DEF m, c
  <2>4. g[m] = h[m] /\ g[c] = h[c] /\ IsOutcome(g[m]) /\ IsOutcome(g[c])
    BY <2>1, <2>3 DEF DecodesAll, IsDecoder, IsOutcome
  <2>5. IsDecoder(e) /\ e.items = Tail(d.items)
    BY <2>2, <2>4, AfterIs
  <2>6. Size[e.items] < Size[d.items]
    BY <2>2, <2>5, ListParts
  <2> HIDE DEF e
  <2>7. g[e] = h[e]
    BY <2>5, <2>6
  <2> QED
    BY <1>2, <2>4, <2>7 DEF DecodedBy, m, c, e
<1> QED
  BY <1>1, <1>2

LEMMA DecodesAgree ==
  ASSUME NEW g, DecodesAll(g), NEW h, NEW n \in Nat, DecodesUpTo(g, n), DecodesUpTo(h, n), NEW d, IsDecoder(d), Size[d.items] < n
  PROVE  g[d] = h[d]
<1> DEFINE S == {k \in Nat : \A e : IsDecoder(e) /\ Size[e.items] < k /\ Size[e.items] < n => g[e] = h[e]}
<1>1. 0 \in S
  BY ItemsOf
<1>2. ASSUME NEW k \in Nat, k \in S PROVE k + 1 \in S
  <2> SUFFICES ASSUME NEW e, IsDecoder(e), Size[e.items] < k + 1, Size[e.items] < n PROVE g[e] = h[e]
    OBVIOUS
  <2>1. Size[e.items] \in Nat
    BY ItemsOf
  <2>2. ASSUME NEW x, IsDecoder(x), Size[x.items] < Size[e.items] PROVE g[x] = h[x]
    <3>1. Size[x.items] \in Nat
      BY <2>2, ItemsOf
    <3> QED
      BY <1>2, <2>1, <2>2, <3>1
  <2>3. DecodedBy(g, e) = DecodedBy(h, e)
    BY <2>2, DecodedLocal
  <2> QED
    BY <2>3 DEF DecodesUpTo, IsDecoder
<1> HIDE DEF S
<1>3. Nat \subseteq S
  BY <1>1, <1>2, SetInduction
<1>4. n \in S
  BY <1>3
<1> QED
  BY <1>4 DEF S

LEMMA DecodesExists ==
  ASSUME NEW n \in Nat
  PROVE  \E g : DecodesAll(g) /\ DecodesUpTo(g, n)
<1> DEFINE S == {k \in Nat : \E g : DecodesAll(g) /\ DecodesUpTo(g, k)}
<1>1. 0 \in S
  <2> DEFINE g == [d \in Promise!Decoders |-> Ended(d)]
  <2>1. DecodesAll(g)
    BY EndedIs DEF DecodesAll, IsDecoder, IsOutcome
  <2> HIDE DEF g
  <2>2. DecodesUpTo(g, 0)
    BY ItemsOf DEF DecodesUpTo, IsDecoder
  <2> QED
    BY <2>1, <2>2
<1>2. ASSUME NEW k \in Nat, k \in S PROVE k + 1 \in S
  <2>1. PICK g : DecodesAll(g) /\ DecodesUpTo(g, k)
    BY <1>2
  <2> DEFINE h == [d \in Promise!Decoders |-> DecodedBy(g, d)]
  <2>2. DecodesAll(h)
    BY <2>1, DecodedByIs DEF DecodesAll, IsDecoder, IsOutcome
  <2>3. ASSUME NEW d \in Promise!Decoders, Size[d.items] < k + 1 PROVE h[d] = DecodedBy(h, d)
    <3>1. IsDecoder(d) /\ Size[d.items] \in Nat
      BY ItemsOf DEF IsDecoder
    <3>2. ASSUME NEW e, IsDecoder(e), Size[e.items] < Size[d.items] PROVE g[e] = h[e]
      <4>1. Size[e.items] \in Nat
        BY <3>2, ItemsOf
      <4>2. Size[e.items] < k
        BY <2>3, <3>1, <3>2, <4>1
      <4> QED
        BY <2>1, <3>2, <4>2 DEF DecodesUpTo, IsDecoder
    <3>3. h[d] = DecodedBy(g, d)
      OBVIOUS
    <3> HIDE DEF h
    <3>4. DecodedBy(g, d) = DecodedBy(h, d)
      BY <2>1, <3>1, <3>2, DecodedLocal
    <3> QED
      BY <3>3, <3>4
  <2> HIDE DEF h
  <2>4. DecodesUpTo(h, k + 1)
    BY <2>3 DEF DecodesUpTo
  <2> QED
    BY <2>2, <2>4
<1> HIDE DEF S
<1>3. Nat \subseteq S
  BY <1>1, <1>2, SetInduction
<1>4. n \in S
  BY <1>3
<1> QED
  BY <1>4 DEF S

LEMMA DecodedIs ==
  /\ DecodesAll(Promise!Decoded)
  /\ \A d : IsDecoder(d) => Promise!Decoded[d] = DecodedBy(Promise!Decoded, d)
<1> DEFINE Upto(n) == CHOOSE g : DecodesAll(g) /\ DecodesUpTo(g, n)
           G == [d \in Promise!Decoders |-> Upto(Size[d.items] + 1)[d]]
<1>1. ASSUME NEW n \in Nat PROVE DecodesAll(Upto(n)) /\ DecodesUpTo(Upto(n), n)
  BY DecodesExists
<1> HIDE DEF Upto
<1>2. DecodesAll(G)
  <2>1. ASSUME NEW d \in Promise!Decoders PROVE Upto(Size[d.items] + 1)[d] \in Promise!Outcomes
    <3>1. Size[d.items] + 1 \in Nat
      BY ItemsOf DEF IsDecoder
    <3> QED
      BY <1>1, <3>1 DEF DecodesAll
  <2> QED
    BY <2>1 DEF DecodesAll
<1>3. ASSUME NEW d, IsDecoder(d) PROVE G[d] = DecodedBy(G, d)
  <2> DEFINE h == Upto(Size[d.items] + 1)
  <2>1. Size[d.items] \in Nat /\ Size[d.items] + 1 \in Nat
    BY <1>3, ItemsOf
  <2>2. DecodesAll(h) /\ DecodesUpTo(h, Size[d.items] + 1)
    BY <1>1, <2>1
  <2>3. ASSUME NEW e, IsDecoder(e), Size[e.items] < Size[d.items] PROVE h[e] = G[e]
    <3> DEFINE g == Upto(Size[e.items] + 1)
    <3>1. Size[e.items] \in Nat /\ Size[e.items] + 1 \in Nat
      BY <2>3, ItemsOf
    <3>2. DecodesAll(g) /\ DecodesUpTo(g, Size[e.items] + 1) /\ DecodesUpTo(h, Size[e.items] + 1)
      <4>1. \A x \in Promise!Decoders : Size[x.items] \in Nat
        BY ItemsOf DEF IsDecoder
      <4>2. DecodesAll(g) /\ DecodesUpTo(g, Size[e.items] + 1)
        BY <1>1, <3>1
      <4> HIDE DEF g, h
      <4> QED
        BY <2>1, <2>2, <2>3, <3>1, <4>1, <4>2 DEF DecodesUpTo
    <3>3. G[e] = g[e]
      BY <2>3 DEF IsDecoder
    <3>4. Size[e.items] < Size[e.items] + 1
      BY <3>1
    <3> HIDE DEF g, h, G
    <3> QED
      BY <2>3, <3>1, <3>2, <3>3, <3>4, DecodesAgree
  <2>4. G[d] = h[d]
    BY <1>3 DEF IsDecoder
  <2> HIDE DEF G, h
  <2>5. DecodedBy(h, d) = DecodedBy(G, d)
    BY <1>3, <2>2, <2>3, DecodedLocal
  <2>6. h[d] = DecodedBy(h, d)
    BY <1>3, <2>1, <2>2 DEF DecodesUpTo, IsDecoder
  <2> QED
    BY <2>4, <2>5, <2>6
<1>4. G = [d \in Promise!Decoders |-> DecodedBy(G, d)]
  <2>1. G = [d \in Promise!Decoders |-> G[d]]
    OBVIOUS
  <2> HIDE DEF G
  <2> QED
    BY <1>3, <2>1 DEF IsDecoder
<1> HIDE DEF G
<1> DEFINE Right(g) == g = [d \in Promise!Decoders |-> DecodedBy(g, d)]
<1>5. Promise!Decoded = CHOOSE g : Right(g)
  BY DEF Promise!Decoded, DecodedBy, Ended
<1>6. Right(G)
  BY <1>4
<1> HIDE DEF Right
<1>7. Right(Promise!Decoded)
  BY <1>5, <1>6
<1>8. Promise!Decoded = [d \in Promise!Decoders |-> DecodedBy(Promise!Decoded, d)]
  BY <1>7 DEF Right
<1> DEFINE E == Promise!Decoded
<1>9. E = [d \in Promise!Decoders |-> DecodedBy(E, d)]
  BY <1>8
<1> HIDE DEF E
<1>10. \A d : IsDecoder(d) => E[d] = DecodedBy(E, d)
  BY <1>9 DEF IsDecoder
<1>11. ASSUME NEW d, IsDecoder(d) PROVE E[d] = G[d]
  <2>1. Size[d.items] \in Nat /\ Size[d.items] + 1 \in Nat /\ Size[d.items] < Size[d.items] + 1
    BY <1>11, ItemsOf
  <2>2. DecodesUpTo(E, Size[d.items] + 1) /\ DecodesUpTo(G, Size[d.items] + 1)
    BY <1>3, <1>10 DEF DecodesUpTo, IsDecoder
  <2> QED
    BY <1>2, <1>11, <2>1, <2>2, DecodesAgree
<1>12. DecodesAll(E)
  BY <1>2, <1>9, <1>11 DEF DecodesAll, IsDecoder
<1> QED
  BY <1>10, <1>12 DEF E

-----------------------------------------------------------------------------
(* what the calls of a goroutine come to *)

\* What Marshal returns when it has err and bytes at its end; what it will return, when it has come to
\* h and todo is left; what becomes of h when a call returns r to it.
Result(bytes, err) == Promise!Items(IF err = None THEN bytes ELSE <<>>, err)

Finished(h, todo) ==
  Result(h.buf \o Promise!Encoded[todo].bytes, Promise!FirstError(h.err, Promise!Encoded[todo].err))

Given(h, r) ==
  IF r.err # None THEN noteError(h, r.err) ELSE IF r.bytes = <<>> THEN h ELSE Put(h, <<Custom(r.bytes)>>)

\* What is left of a Buffer, or of one that a message has narrowed
Left(o)  == SubSeq(o.buf, o.index + 1, Len(o.buf))
Reads(o) == IsSeq(o.buf) /\ o.index \in 0..Len(o.buf) /\ Left(o) \in Lists

FilledIn(p, h) == [path \in Paths |-> h.array_indexes[<<p, path>>]]
Indexes(h)     == h.array_indexes = [a \in Procs \X Paths |-> h.array_indexes[a]]

\* The call f is left with items, at a depth, and comes to the outcome o.
Decoder(f, max, items, depth, into, counts, err) ==
  [items |-> items, at |-> f.at, depth |-> depth, max |-> max, into |-> into, counts |-> counts, err |-> err]

ComesTo(f, max, items, depth, into, counts, err, o) ==
  /\ IsDecoder(Decoder(f, max, items, depth, into, counts, err))
  /\ o = Promise!Decoded[Decoder(f, max, items, depth, into, counts, err)]

\* a is what the call f of the request r comes to: of Marshal a result, of Unmarshal an outcome, with
\* the depth at which f decodes its items
Shape(r, f, a) ==
  /\ r.op = "Marshal" =>
       f.op = "Marshal" /\ f.pc # "enter" /\ f.todo \in Lists /\ (f.scratch # {} => f.numbers \in Lists)
  /\ r.op # "Marshal" =>
       /\ f.op \in {"Unmarshal", "message", "duration"} /\ f.scratch = {}
       /\ f.result = Promise!Items(<<>>, f.result.err) /\ (f.op = "duration" => f.result.err = None /\ f.pc # "enter")
       /\ a.depth \in Nat \ {0} /\ a.outcome \in Promise!Outcomes

EncodingTop(h, hs, f, a) ==
  /\ IsSeq(h.buf) /\ IsSeq(hs.buf)
  /\ f.pc # "run" /\ f.scratch = {} => a = f.result
  /\ f.pc # "run" /\ f.scratch # {} => a = Finished(h, f.todo)
  /\ f.pc = "run" /\ f.scratch = {} => a = Finished(h, f.todo)
  /\ f.pc = "run" /\ f.scratch # {} => a = Finished(Put(h, <<Packed(hs.buf \o f.numbers)>>), f.todo)

DecodingTop(p, max, h, st, f, a) ==
  /\ f.pc \in {"enter", "run"} => Reads(h) /\ Indexes(h) /\ h.depth \in Nat
  /\ f.pc \notin {"enter", "run"} => a.outcome.into = st /\ a.outcome.err = f.result.err
  /\ f.pc = "run" /\ f.op = "duration" =>
       a.outcome.into = st /\ a.outcome.err = IF Promise!AllNumbers(Left(h)) THEN None ELSE "bad"
  /\ f.pc = "enter" =>
       /\ h.depth + 1 = a.depth /\ f.result.err = None
       /\ ComesTo(f, max, Left(h), a.depth, st, FilledIn(p, h), IF a.depth > max THEN "too deep" ELSE None, a.outcome)
  /\ f.pc = "run" /\ f.op # "duration" =>
       /\ h.depth >= a.depth /\ (f.result.err = None => h.depth = a.depth)
       /\ ComesTo(f, max, Left(h), a.depth, st, FilledIn(p, h), f.result.err, a.outcome)

\* The call on top comes to a ...
AtTop(p, r, h, hs, st, f, a) ==
  /\ r.op = "Marshal" => st = r.into /\ EncodingTop(h, hs, f, a)
  /\ r.op # "Marshal" => DecodingTop(p, r.max, h, st, f, a)

\* ... and when the call c comes to b, f, which has made it, comes to a.
Linked(p, r, h, f, c, a, b) ==
  /\ f.op # "duration" /\ f.scratch = {}
  /\ c.op = "message" => c.b = f.b
  /\ r.op = "Marshal" => IsSeq(h.buf) /\ a = Finished(Given(h, b), f.todo)
  /\ r.op # "Marshal" /\ c.op = "message" =>
       /\ Reads(c.saved) /\ b.depth = a.depth + 1
       /\ ComesTo(f, r.max, Left(c.saved), a.depth, b.outcome.into, b.outcome.counts, b.outcome.err, a.outcome)
  /\ r.op # "Marshal" /\ c.op # "message" =>
       /\ Reads(h) /\ Indexes(h) /\ h.depth = a.depth
       /\ ComesTo(f, r.max, Left(h), a.depth, b.outcome.into, FilledIn(p, h), b.outcome.err, a.outcome)

\* The call of the client comes to what is promised.
Asked(r, f, a) ==
  /\ f.op = r.op /\ r.op \in {"Marshal", "Unmarshal"} /\ r.max \in Nat
  /\ r.op = "Marshal" => a = Promise!Items(Promise!Marshaled(r).bytes, Promise!Marshaled(r).err)
  /\ r.op # "Marshal" =>
       a.depth = 1 /\ a.outcome.into = Promise!Unmarshaled(r).struct /\ a.outcome.err = Promise!Unmarshaled(r).err

\* A call that has made one with a Buffer of its own is the only one that has its Buffer, from there on.
Apart(s) ==
  \A k, j \in 1..Len(s) : k < j /\ s[k + 1].op # "message" => s[k].b \notin BuffersOf(s[j])

\* Each call has made the next one.
Chain(p, s, H, r, g) ==
  /\ Asked(r, s[1], g[1])
  /\ \A k \in 1..Len(s) : Shape(r, s[k], g[k])
  /\ \A k \in 1..Len(s) : k < Len(s) => Linked(p, r, H[s[k].b], s[k], s[k + 1], g[k], g[k + 1])
  /\ Apart(s)
  /\ \A b \in BuffersIn(s) : H[b].max = r.max

Follows(p, s, H, st, r, g) ==
  s # <<>> /\ Chain(p, s, H, r, g) /\ AtTop(p, r, H[s[Len(s)].b], H[Releasing(s[Len(s)])], st, s[Len(s)], g[Len(s)])

Following(p, s, H, st, r) == \E g : Follows(p, s, H, st, r, g)

-----------------------------------------------------------------------------
(* sequences of anything *)

\* the elements of both
All(s, t) == {s[k] : k \in DOMAIN s} \cup {t[k] : k \in DOMAIN t}

LEMMA InAll ==
  ASSUME NEW s, IsSeq(s), NEW t, IsSeq(t)
  PROVE  s \in Seq(All(s, t)) /\ t \in Seq(All(s, t))
<1> DEFINE S == {s[k] : k \in DOMAIN s}
           T == {t[k] : k \in DOMAIN t}
<1>1. s \in Seq(S) /\ t \in Seq(T)
  BY DEF IsSeq
<1>2. S \subseteq All(s, t) /\ T \subseteq All(s, t)
  BY DEF All
<1> HIDE DEF S, T
<1> QED
  BY <1>1, <1>2, LargerSeq

LEMMA SeqOne == \A x : IsSeq(<<x>>) /\ IsSeq(<<>>)
<1>1. ASSUME NEW x PROVE IsSeq(<<x>>)
  <2> DEFINE S == {x}
  <2>1. <<x>> \in Seq(S)
    OBVIOUS
  <2> HIDE DEF S
  <2> QED
    BY <2>1, AnySeq
<1>2. IsSeq(<<>>)
  BY GoodEmpty DEF Good
<1> QED
  BY <1>1, <1>2

LEMMA SeqJoined ==
  ASSUME NEW s, IsSeq(s), NEW t, IsSeq(t)
  PROVE  /\ IsSeq(s \o t) /\ s \o <<>> = s /\ <<>> \o s = s
         /\ s # <<>> => s \o t # <<>>
<1> DEFINE S == All(s, t)
<1>1. s \in Seq(S) /\ t \in Seq(S)
  BY InAll
<1> HIDE DEF S
<1>2. s \o t \in Seq(S)
  BY <1>1
<1>3. IsSeq(s \o t)
  BY <1>2, AnySeq
<1>4. s \o <<>> = s /\ <<>> \o s = s
  BY <1>1
<1>5. s # <<>> => s \o t # <<>>
  BY <1>1
<1> QED
  BY <1>3, <1>4, <1>5

LEMMA SeqAssociates ==
  ASSUME NEW s, IsSeq(s), NEW t, IsSeq(t), NEW u, IsSeq(u)
  PROVE  (s \o t) \o u = s \o (t \o u)
<1> DEFINE S == All(s, t)
           T == All(s, u)
           U == S \cup T
<1>1. s \in Seq(S) /\ t \in Seq(S) /\ u \in Seq(T) /\ S \subseteq U /\ T \subseteq U
  BY InAll
<1> HIDE DEF S, T, U
<1>2. s \in Seq(U) /\ t \in Seq(U) /\ u \in Seq(U)
  BY <1>1, LargerSeq
<1> QED
  BY <1>2, ConcatAssociative

LEMMA SeqSplit ==
  ASSUME NEW s, IsSeq(s), s # <<>>
  PROVE  /\ IsSeq(Tail(s)) /\ s = <<Head(s)>> \o Tail(s) /\ Len(s) \in Nat \ {0}
         /\ Head(s) = s[1] /\ Len(Tail(s)) = Len(s) - 1 /\ \A k \in 1..(Len(s) - 1) : Tail(s)[k] = s[k + 1]
<1> DEFINE S == {s[k] : k \in DOMAIN s}
<1>1. s \in Seq(S)
  BY DEF IsSeq
<1> HIDE DEF S
<1>2. Tail(s) \in Seq(S) /\ Head(s) \in S /\ Len(s) \in Nat \ {0} /\ Head(s) = s[1]
  BY <1>1
<1>3. IsSeq(Tail(s))
  BY <1>2, AnySeq
<1>4. Len(Tail(s)) = Len(s) - 1 /\ \A k \in 1..(Len(s) - 1) : Tail(s)[k] = s[k + 1]
  BY <1>1
<1>5. s = <<Head(s)>> \o Tail(s)
  <2>1. <<Head(s)>> \in Seq(S) /\ <<Head(s)>> \o Tail(s) \in Seq(S)
    BY <1>2
  <2>2. Len(<<Head(s)>> \o Tail(s)) = Len(s)
    BY <1>2, <1>4
  <2>3. \A k \in 1..Len(s) : (<<Head(s)>> \o Tail(s))[k] = s[k]
    BY <1>2, <1>4
  <2> QED
    BY <1>1, <2>1, <2>2, <2>3
<1> QED
  BY <1>2, <1>3, <1>4, <1>5

LEMMA SeqSame ==
  ASSUME NEW s, IsSeq(s), NEW t, IsSeq(t), Len(s) = Len(t), \A k \in 1..Len(s) : s[k] = t[k]
  PROVE  s = t
<1> DEFINE S == All(s, t)
<1>1. s \in Seq(S) /\ t \in Seq(S)
  BY InAll
<1> HIDE DEF S
<1> QED
  BY <1>1

LEMMA ListsAreSeqs == \A v \in Lists : IsSeq(v)
BY ListsAssumption DEF IsSeq

LEMMA SeqFrom ==
  ASSUME NEW s, IsSeq(s), NEW n \in 0..Len(s)
  PROVE  LET t == SubSeq(s, n + 1, Len(s))
         IN  IsSeq(t) /\ Len(t) = Len(s) - n /\ \A k \in 1..Len(t) : t[k] = s[n + k]
<1> DEFINE S == {s[k] : k \in DOMAIN s}
           t == SubSeq(s, n + 1, Len(s))
           m == Len(s)
<1>1. s \in Seq(S) /\ m \in Nat
  <2>1. s \in Seq(S)
    BY DEF IsSeq
  <2> HIDE DEF S
  <2> QED
    BY <2>1
<1> HIDE DEF S
<1>2. \A k \in (n + 1)..m : s[k] \in S
  BY <1>1
<1>3. /\ t \in Seq(S) /\ Len(t) = IF n + 1 <= m THEN m - (n + 1) + 1 ELSE 0
      /\ \A k \in 1..(m - (n + 1) + 1) : t[k] = s[n + 1 + k - 1]
  BY <1>1, <1>2, SubSeqProperties
<1>4. IsSeq(t)
  BY <1>3, AnySeq
<1> HIDE DEF t
<1>5. Len(t) = m - n
  BY <1>1, <1>3
<1>6. \A k \in 1..(m - n) : t[k] = s[n + k]
  <2>1. \A k \in 1..(m - n) : k \in 1..(m - (n + 1) + 1) /\ n + 1 + k - 1 = n + k
    BY <1>1
  <2> QED
    BY <1>3, <2>1
<1> QED
  BY <1>4, <1>5, <1>6 DEF t

LEMMA LeftIs ==
  ASSUME NEW o, IsSeq(o.buf), o.index \in 0..Len(o.buf)
  PROVE  /\ IsSeq(Left(o)) /\ Len(Left(o)) = Len(o.buf) - o.index
         /\ \A k \in 1..Len(Left(o)) : Left(o)[k] = o.buf[o.index + k]
         /\ Left(o) = <<>> <=> o.index = Len(o.buf)
<1> DEFINE s == o.buf
           n == o.index
           t == SubSeq(s, n + 1, Len(s))
<1>1. Left(o) = t /\ IsSeq(s) /\ n \in 0..Len(s) /\ Len(s) \in Nat
  BY StackLen DEF Left
<1> HIDE DEF s, n
<1>2. IsSeq(t) /\ Len(t) = Len(s) - n /\ \A k \in 1..Len(t) : t[k] = s[n + k]
  BY <1>1, SeqFrom
<1> HIDE DEF t
<1>3. t = <<>> <=> n = Len(s)
  BY <1>1, <1>2, StackLen
<1> QED
  BY <1>1, <1>2, <1>3 DEF s, n

\* The next item is the first of what is left; then the others are.
LEMMA LeftNext ==
  ASSUME NEW o, Reads(o), o.index # Len(o.buf), NEW u, u.buf = o.buf, u.index = o.index + 1
  PROVE  /\ Left(o) # <<>> /\ Head(Left(o)) = o.buf[o.index + 1]
         /\ Reads(u) /\ Left(u) = Tail(Left(o))
<1>1. Len(o.buf) \in Nat /\ o.index \in 0..Len(o.buf) /\ IsSeq(o.buf)
  BY StackLen DEF Reads
<1>2. /\ IsSeq(Left(o)) /\ Len(Left(o)) = Len(o.buf) - o.index /\ Left(o) # <<>>
      /\ \A k \in 1..Len(Left(o)) : Left(o)[k] = o.buf[o.index + k]
  BY <1>1, LeftIs
<1>3. u.index \in 0..Len(u.buf) /\ IsSeq(u.buf)
  BY <1>1
<1>4. /\ IsSeq(Left(u)) /\ Len(Left(u)) = Len(u.buf) - u.index
      /\ \A k \in 1..Len(Left(u)) : Left(u)[k] = u.buf[u.index + k]
  BY <1>3, LeftIs
<1>5. /\ IsSeq(Tail(Left(o))) /\ Head(Left(o)) = Left(o)[1] /\ Len(Tail(Left(o))) = Len(Left(o)) - 1
      /\ \A k \in 1..(Len(Left(o)) - 1) : Tail(Left(o))[k] = Left(o)[k + 1]
  BY <1>2, SeqSplit
<1>6. Head(Left(o)) = o.buf[o.index + 1]
  BY <1>1, <1>2, <1>5
<1>7. Left(u) = Tail(Left(o))
  <2> DEFINE t == Tail(Left(o))
             l == Left(o)
  <2>1. Len(Left(u)) = Len(t)
    BY <1>1, <1>2, <1>4, <1>5
  <2>2. ASSUME NEW k \in 1..Len(t) PROVE Left(u)[k] = t[k]
    <3>1. k \in 1..Len(Left(u)) /\ k \in 1..(Len(l) - 1) /\ k + 1 \in 1..Len(l) /\ k \in Nat
      BY <1>1, <1>2, <1>5, <2>1
    <3>2. Left(u)[k] = o.buf[o.index + 1 + k] /\ t[k] = l[k + 1] /\ l[k + 1] = o.buf[o.index + (k + 1)]
      BY <1>2, <1>4, <1>5, <3>1
    <3> QED
      BY <1>1, <3>1, <3>2
  <2> HIDE DEF t, l
  <2> QED
    BY <1>4, <1>5, <2>1, <2>2, SeqSame DEF t
<1>8. Tail(Left(o)) \in Lists
  BY <1>2, ListParts DEF Reads
<1> QED
  BY <1>2, <1>3, <1>6, <1>7, <1>8 DEF Reads

LEMMA LeftAll ==
  ASSUME NEW v \in Lists, NEW o, o.buf = v, o.index = 0
  PROVE  Reads(o) /\ Left(o) = v
<1>1. IsSeq(v) /\ Len(v) \in Nat
  BY ListsAreSeqs, StackLen
<1>2. /\ IsSeq(Left(o)) /\ Len(Left(o)) = Len(o.buf) - o.index
      /\ \A k \in 1..Len(Left(o)) : Left(o)[k] = o.buf[o.index + k]
  BY <1>1, LeftIs
<1>3. Len(Left(o)) = Len(v) /\ \A k \in 1..Len(v) : Left(o)[k] = v[k]
  BY <1>1, <1>2
<1>4. Left(o) = v
  BY <1>1, <1>2, <1>3, SeqSame
<1> QED
  BY <1>1, <1>4 DEF Reads

-----------------------------------------------------------------------------
(* what is left of a stack *)

\* t is s up to m, with a frame at m that differs only in what the calls below do not see.
Upto(s, m, f, t) ==
  /\ IsSeq(t) /\ Len(t) = m /\ t[m] = f /\ \A k \in 1..(m - 1) : t[k] = s[k]
  /\ f.op = s[m].op /\ f.b = s[m].b /\ f.saved = s[m].saved

\* The Buffers of the calls below m that wait for a call with one of its own.
Waiting(s, m) == {s[k].b : k \in {k \in 1..(m - 1) : s[k + 1].op # "message"}}

LEMMA WaitingIs ==
  ASSUME NEW s, IsSeq(s), Apart(s), NEW m \in 1..Len(s)
  PROVE  /\ Waiting(s, m) \subseteq BuffersIn(s)
         /\ \A j \in m..Len(s) : Waiting(s, m) \cap BuffersOf(s[j]) = {}
<1>1. Len(s) \in Nat
  BY StackLen
<1>2. ASSUME NEW x \in Waiting(s, m)
      PROVE  x \in BuffersIn(s) /\ \A j \in m..Len(s) : x \notin BuffersOf(s[j])
  <2>1. PICK k \in 1..(m - 1) : s[k + 1].op # "message" /\ x = s[k].b
    BY <1>2 DEF Waiting
  <2>2. k \in 1..Len(s)
    BY <1>1, <2>1
  <2>3. x \in BuffersOf(s[k])
    BY <2>1 DEF BuffersOf
  <2>4. ASSUME NEW j \in m..Len(s) PROVE x \notin BuffersOf(s[j])
    <3>1. j \in 1..Len(s) /\ k < j
      BY <1>1, <2>1
    <3> QED
      BY <2>1, <2>2, <3>1 DEF Apart
  <2> QED
    BY <2>2, <2>3, <2>4, InBuffers
<1> QED
  BY <1>2

LEMMA ChainUpto ==
  ASSUME NEW p, NEW s, IsSeq(s), NEW H, NEW r, NEW g, Chain(p, s, H, r, g), NEW m \in 1..Len(s),
         NEW f, NEW t, Upto(s, m, f, t), Waiting(s, m) \cap BuffersOf(f) = {}, Shape(r, f, g[m]),
         NEW H2, \A b \in Waiting(s, m) : H2[b] = H[b], \A b \in BuffersIn(t) : H2[b].max = r.max
  PROVE  Chain(p, t, H2, r, g)
<1>1. Len(s) \in Nat /\ m \in Nat /\ m >= 1 /\ m <= Len(s)
  BY StackLen
<1>2. IsSeq(t) /\ Len(t) = m /\ t[m] = f /\ \A k \in 1..(m - 1) : t[k] = s[k]
  BY DEF Upto
<1>3. \A k \in 1..m : t[k].op = s[k].op /\ t[k].b = s[k].b /\ t[k].saved = s[k].saved
  BY <1>1, <1>2 DEF Upto
<1>4. Asked(r, t[1], g[1])
  <2>1. t[1].op = s[1].op
    BY <1>1, <1>3
  <2> QED
    BY <2>1 DEF Chain, Asked
<1>5. \A k \in 1..m : Shape(r, t[k], g[k])
  BY <1>1, <1>2 DEF Chain
<1>6. ASSUME NEW k \in 1..m, k < m
      PROVE  Linked(p, r, H2[t[k].b], t[k], t[k + 1], g[k], g[k + 1])
  <2> DEFINE h == H[s[k].b]
             h2 == H2[s[k].b]
             a == s[k]
             c == s[k + 1]
             d == t[k + 1]
  <2>1. k \in 1..Len(s) /\ k < Len(s) /\ k + 1 \in 1..m /\ k + 1 \in 1..Len(s) /\ k \in 1..(m - 1)
    BY <1>1, <1>6
  <2>2. Linked(p, r, h, a, c, g[k], g[k + 1]) /\ Shape(r, c, g[k + 1])
    BY <2>1 DEF Chain
  <2>3. t[k] = a /\ d.op = c.op /\ d.b = c.b /\ d.saved = c.saved
    BY <1>2, <1>3, <2>1
  <2>4. c.op # "message" => h2 = h
    <3>1. c.op # "message" => a.b \in Waiting(s, m)
      BY <2>1 DEF Waiting
    <3> QED
      BY <3>1
  <2> HIDE DEF h, h2, a, c, d
  <2>5. Linked(p, r, h2, a, d, g[k], g[k + 1])
    <3>1. r.op = "Marshal" => c.op # "message"
      BY <2>2 DEF Shape
    <3> QED
      BY <2>2, <2>3, <2>4, <3>1 DEF Linked
  <2>6. H2[t[k].b] = h2
    BY <2>3 DEF h2, a
  <2> QED
    BY <2>3, <2>5, <2>6 DEF d
<1>7. Apart(t)
  <2> SUFFICES ASSUME NEW k \in 1..m, NEW j \in 1..m, k < j, t[k + 1].op # "message" PROVE t[k].b \notin BuffersOf(t[j])
    BY <1>2 DEF Apart
  <2>1. k \in 1..Len(s) /\ j \in 1..Len(s) /\ k + 1 \in 1..m /\ k \in 1..(m - 1)
    BY <1>1
  <2>2. s[k + 1].op # "message" /\ t[k].b = s[k].b
    BY <1>2, <1>3, <2>1
  <2>3. CASE j < m
    <3>1. t[j] = s[j]
      BY <1>1, <1>2, <2>3
    <3> QED
      BY <2>1, <2>2, <3>1 DEF Chain, Apart
  <2>4. CASE j = m
    <3>1. s[k].b \in Waiting(s, m)
      BY <2>1, <2>2 DEF Waiting
    <3> QED
      BY <1>2, <2>2, <2>4, <3>1
  <2> QED
    BY <1>1, <2>3, <2>4
<1> QED
  BY <1>2, <1>4, <1>5, <1>6, <1>7 DEF Chain

\* A call is made.
LEMMA ChainPush ==
  ASSUME NEW p, NEW s, IsSeq(s), s # <<>>, NEW H, NEW r, NEW g, Chain(p, s, H, r, g), NEW c, NEW b, NEW t, Push(s, c, t),
         Shape(r, c, b), Linked(p, r, H[s[Len(s)].b], s[Len(s)], c, g[Len(s)], b),
         \A x \in BuffersOf(c) : H[x].max = r.max,
         BuffersOf(c) \cap BuffersIn(s) = {} \/ (c.op = "message" /\ BuffersOf(c) \subseteq BuffersOf(s[Len(s)]))
  PROVE  \E e : Chain(p, t, H, r, e) /\ e[Len(s) + 1] = b
<1> DEFINE n == Len(s)
           e == [k \in 1..(n + 1) |-> IF k = n + 1 THEN b ELSE g[k]]
<1>1. n \in Nat /\ n >= 1
  BY StackLen
<1>2. IsSeq(t) /\ Len(t) = n + 1 /\ t[n + 1] = c /\ \A k \in 1..n : t[k] = s[k]
  BY <1>1 DEF Push
<1>3. e[n + 1] = b /\ \A k \in 1..n : e[k] = g[k]
  BY <1>1
<1> HIDE DEF e
<1>4. Asked(r, t[1], e[1])
  BY <1>1, <1>2, <1>3 DEF Chain
<1>5. \A k \in 1..(n + 1) : Shape(r, t[k], e[k])
  BY <1>1, <1>2, <1>3 DEF Chain
<1>6. ASSUME NEW k \in 1..(n + 1), k < n + 1
      PROVE  Linked(p, r, H[t[k].b], t[k], t[k + 1], e[k], e[k + 1])
  <2>1. CASE k = n
    BY <1>1, <1>2, <1>3, <2>1
  <2>2. CASE k < n
    <3>1. k \in 1..n /\ k + 1 \in 1..n
      BY <1>1, <2>2
    <3>2. Linked(p, r, H[s[k].b], s[k], s[k + 1], g[k], g[k + 1])
      BY <2>2, <3>1 DEF Chain
    <3> QED
      BY <1>2, <1>3, <3>1, <3>2
  <2> QED
    BY <1>1, <1>6, <2>1, <2>2
<1>7. Apart(t)
  <2> SUFFICES ASSUME NEW k \in 1..(n + 1), NEW j \in 1..(n + 1), k < j, t[k + 1].op # "message" PROVE t[k].b \notin BuffersOf(t[j])
    BY <1>2 DEF Apart
  <2>1. k \in 1..n /\ t[k] = s[k] /\ t[k].b \in BuffersOf(t[k])
    BY <1>1, <1>2 DEF BuffersOf
  <2>2. CASE j < n + 1
    <3>1. j \in 1..n /\ t[j] = s[j] /\ k + 1 \in 1..n /\ t[k + 1] = s[k + 1]
      BY <1>1, <1>2, <2>2
    <3> QED
      BY <2>1, <3>1 DEF Chain, Apart
  <2>3. CASE j = n + 1
    <3>1. t[k].b \in BuffersIn(s)
      BY <2>1, InBuffers
    <3>2. CASE c.op = "message" /\ BuffersOf(c) \subseteq BuffersOf(s[n])
      <4>1. k # n
        BY <1>2, <3>2
      <4>2. k + 1 \in 1..n /\ n \in 1..n /\ k < n /\ t[k + 1] = s[k + 1]
        BY <1>1, <1>2, <2>1, <4>1
      <4>3. s[k].b \notin BuffersOf(s[n])
        BY <2>1, <4>2 DEF Chain, Apart
      <4> QED
        BY <1>2, <2>1, <2>3, <3>2, <4>3
    <3> QED
      BY <1>2, <2>3, <3>1, <3>2
  <2> QED
    BY <1>1, <2>2, <2>3
<1>8. \A x \in BuffersIn(t) : H[x].max = r.max
  <2> SUFFICES ASSUME NEW x \in BuffersIn(t) PROVE H[x].max = r.max
    OBVIOUS
  <2>1. PICK k \in 1..(n + 1) : x \in BuffersOf(t[k])
    BY <1>2, InBuffers
  <2>2. k \in 1..n => x \in BuffersIn(s)
    BY <1>2, <2>1, InBuffers
  <2> QED
    BY <1>1, <1>2, <2>1, <2>2 DEF Chain
<1>9. Chain(p, t, H, r, e)
  BY <1>2, <1>4, <1>5, <1>6, <1>7, <1>8 DEF Chain
<1> QED
  BY <1>3, <1>9
-----------------------------------------------------------------------------
(* what Marshal comes to *)

LEMMA NonesAreOne == Promise!None = None
BY DEF Promise!None, None

FieldOf(v) == Promise!Field(Head(v), Promise!Encoded[Head(v).of])

LEMMA FieldIs ==
  ASSUME NEW v \in Lists, v # <<>>
  PROVE  FieldOf(v) = Promise!Items(FieldOf(v).bytes, FieldOf(v).err) /\ IsSeq(FieldOf(v).bytes)
<1> DEFINE x == Head(v)
           e == Promise!Encoded[x.of]
           y == [x EXCEPT !.of = e.bytes]
           F == Promise!Field(x, e)
           Fine(z) == z = Promise!Items(z.bytes, z.err) /\ IsSeq(z.bytes)
<1>1. \A b, c : Promise!Items(b, c).bytes = b /\ Promise!Items(b, c).err = c
  BY DEF Promise!Items
<1>2. \E b, c : F = Promise!Items(b, c) /\ (b = <<>> \/ b = <<x>> \/ b = <<y>>)
  <2> HIDE DEF e, x, y
  <2>1. CASE x.kind = "failing"
    BY <2>1 DEF Promise!Field
  <2>2. CASE x.kind = "custom"
    <3>1. F = Promise!Items(IF e.err # Promise!None \/ e.bytes = <<>> THEN <<>> ELSE <<y>>, e.err)
      BY <2>2 DEF Promise!Field, y
    <3> QED
      BY <3>1
  <2>3. CASE x.kind \notin {"failing", "custom"}
    <3>1. CASE x.kind = "packed" /\ x.of = <<>>
      <4>1. F = Promise!Items(<<>>, Promise!None)
        BY <2>3, <3>1 DEF Promise!Field
      <4> QED
        BY <4>1
    <3>2. CASE ~(x.kind = "packed" /\ x.of = <<>>)
      <4>1. F = Promise!Items(<<x>>, Promise!None)
        BY <2>3, <3>2 DEF Promise!Field
      <4> QED
        BY <4>1
    <3> QED
      BY <3>1, <3>2
  <2> QED
    BY <2>1, <2>2, <2>3
<1> HIDE DEF F, x, y, e
<1>3. Fine(F)
  <2>1. PICK b, c : F = Promise!Items(b, c) /\ (b = <<>> \/ b = <<x>> \/ b = <<y>>)
    BY <1>2
  <2>2. F.bytes = b /\ F.err = c
    BY <1>1, <2>1
  <2>3. IsSeq(b)
    BY <2>1, SeqOne
  <2> QED
    BY <2>1, <2>2, <2>3
<1> QED
  BY <1>3 DEF F, x, e, FieldOf

\* The result of a list is that of its first field and of the others.
LEMMA BothIs ==
  ASSUME NEW e, NEW f
  PROVE  /\ Promise!Both(e, f).bytes = e.bytes \o f.bytes
         /\ Promise!Both(e, f).err = Promise!FirstError(e.err, f.err)
<1> DEFINE b == e.bytes \o f.bytes
           c == Promise!FirstError(e.err, f.err)
<1>1. Promise!Both(e, f) = Promise!Items(b, c)
  BY DEF Promise!Both
<1> HIDE DEF b, c
<1>2. Promise!Both(e, f).bytes = b /\ Promise!Both(e, f).err = c
  BY <1>1 DEF Promise!Items
<1> QED
  BY <1>2 DEF b, c

LEMMA EncodedNext ==
  ASSUME NEW v \in Lists, v # <<>>
  PROVE  /\ Promise!Encoded[v].bytes = FieldOf(v).bytes \o Promise!Encoded[Tail(v)].bytes
         /\ Promise!Encoded[v].err = Promise!FirstError(FieldOf(v).err, Promise!Encoded[Tail(v)].err)
<1>1. Promise!Encoded[v] = Promise!Both(FieldOf(v), Promise!Encoded[Tail(v)])
  <2>1. Promise!Encoded[v] = EncodedBy(Promise!Encoded, v)
    BY EncodedIs
  <2> QED
    BY <2>1 DEF EncodedBy, FieldOf
<1> DEFINE e == FieldOf(v)
           f == Promise!Encoded[Tail(v)]
<1>2. /\ Promise!Both(e, f).bytes = e.bytes \o f.bytes
      /\ Promise!Both(e, f).err = Promise!FirstError(e.err, f.err)
  <2> HIDE DEF e, f
  <2> QED
    BY BothIs
<1> QED
  BY <1>1, <1>2, ZenonT(60)

LEMMA EncodedEmpty == <<>> \in Lists => Promise!Encoded[<<>>].bytes = <<>> /\ Promise!Encoded[<<>>].err = None
<1> SUFFICES ASSUME <<>> \in Lists PROVE Promise!Encoded[<<>>].bytes = <<>> /\ Promise!Encoded[<<>>].err = None
  OBVIOUS
<1>1. Promise!Encoded[<<>>] = EncodedBy(Promise!Encoded, <<>>)
  BY EncodedIs
<1>2. Promise!Encoded[<<>>] = Promise!Items(<<>>, None)
  BY <1>1, NonesAreOne DEF EncodedBy
<1> QED
  BY <1>2 DEF Promise!Items

LEMMA EncodedSeq == \A v \in Lists : IsSeq(Promise!Encoded[v].bytes)
<1> DEFINE S == {k \in Nat : \A v \in Lists : Size[v] < k => IsSeq(Promise!Encoded[v].bytes)}
<1>1. 0 \in S
  BY SizeNat
<1>2. ASSUME NEW k \in Nat, k \in S PROVE k + 1 \in S
  <2> SUFFICES ASSUME NEW v \in Lists, Size[v] < k + 1 PROVE IsSeq(Promise!Encoded[v].bytes)
    OBVIOUS
  <2>1. CASE v = <<>>
    BY <2>1, EncodedEmpty, SeqOne
  <2>2. CASE v # <<>>
    <3>1. Tail(v) \in Lists /\ Size[Tail(v)] < k
      BY <2>2, ListParts
    <3>2. IsSeq(Promise!Encoded[Tail(v)].bytes)
      BY <1>2, <3>1
    <3>3. IsSeq(FieldOf(v).bytes)
      BY <2>2, FieldIs
    <3> QED
      BY <2>2, <3>2, <3>3, EncodedNext, SeqJoined
  <2> QED
    BY <2>1, <2>2
<1> HIDE DEF S
<1>3. Nat \subseteq S
  BY <1>1, <1>2, SetInduction
<1> SUFFICES ASSUME NEW v \in Lists PROVE IsSeq(Promise!Encoded[v].bytes)
  OBVIOUS
<1>4. Size[v] \in Nat /\ Size[v] + 1 \in Nat /\ Size[v] < Size[v] + 1
  BY SizeNat
<1>5. Size[v] + 1 \in S
  BY <1>3, <1>4
<1> QED
  BY <1>4, <1>5 DEF S

\* When the first field has been encoded, Marshal comes to the same.
LEMMA FinishedNext ==
  ASSUME NEW v \in Lists, v # <<>>, NEW h, IsSeq(h.buf), NEW h2, h2.buf = h.buf \o FieldOf(v).bytes,
         h2.err = Promise!FirstError(h.err, FieldOf(v).err)
  PROVE  IsSeq(h2.buf) /\ Tail(v) \in Lists /\ Finished(h2, Tail(v)) = Finished(h, v)
<1> DEFINE E == Promise!Encoded[v]
           F == FieldOf(v)
           T == Promise!Encoded[Tail(v)]
<1>1. Tail(v) \in Lists
  BY ListParts
<1>2. IsSeq(F.bytes) /\ IsSeq(T.bytes)
  BY <1>1, FieldIs, EncodedSeq
<1>3. E.bytes = F.bytes \o T.bytes /\ E.err = Promise!FirstError(F.err, T.err)
  BY EncodedNext
<1>4. (h.buf \o F.bytes) \o T.bytes = h.buf \o (F.bytes \o T.bytes) /\ IsSeq(h.buf \o F.bytes)
  <2> DEFINE b == F.bytes
             c == T.bytes
             a == h.buf
  <2>1. IsSeq(a) /\ IsSeq(b) /\ IsSeq(c)
    BY <1>2
  <2> HIDE DEF a, b, c
  <2>2. (a \o b) \o c = a \o (b \o c)
    BY <2>1, SeqAssociates
  <2>3. IsSeq(a \o b)
    BY <2>1, SeqJoined
  <2> QED
    BY <2>2, <2>3 DEF a, b, c
<1>5. Promise!FirstError(h2.err, T.err) = Promise!FirstError(h.err, E.err)
  BY <1>3 DEF Promise!FirstError
<1>6. h2.buf \o T.bytes = h.buf \o E.bytes
  BY <1>3, <1>4
<1> QED
  BY <1>1, <1>4, <1>5, <1>6 DEF Finished

\* Nothing is left to encode.
LEMMA FinishedAll ==
  ASSUME NEW h, IsSeq(h.buf), <<>> \in Lists
  PROVE  Finished(h, <<>>) = Result(h.buf, h.err)
<1>1. h.buf \o Promise!Encoded[<<>>].bytes = h.buf
  BY EncodedEmpty, SeqJoined
<1>2. Promise!FirstError(h.err, Promise!Encoded[<<>>].err) = h.err
  BY EncodedEmpty, NonesAreOne DEF Promise!FirstError
<1> QED
  BY <1>1, <1>2 DEF Finished

\* A new Buffer comes to what is encoded.
LEMMA FinishedNew ==
  ASSUME NEW v \in Lists, NEW h, h.buf = <<>>, h.err = None
  PROVE  Finished(h, v) = Result(Promise!Encoded[v].bytes, Promise!Encoded[v].err)
<1>1. h.buf \o Promise!Encoded[v].bytes = Promise!Encoded[v].bytes
  BY EncodedSeq, SeqJoined
<1>2. Promise!FirstError(h.err, Promise!Encoded[v].err) = Promise!Encoded[v].err
  BY NonesAreOne DEF Promise!FirstError
<1> QED
  BY <1>1, <1>2 DEF Finished
-----------------------------------------------------------------------------
(* how a step goes on with what a goroutine follows *)

Here(p, g)   == Follows(p, stack[p], heap, structs[p], request[p], g)
Continues(p) == Following(p, stack'[p], heap', structs'[p], request[p])

\* Nothing has changed for others.
Off(p) == \A q \in Procs : q # p => \A b \in InUse(q) : heap'[b] = heap[b]

\* what the call on top comes to
Ghost(p, g) == g[Len(stack[p])]

AtTopNow(p, f, a) == AtTop(p, request[p], heap'[f.b], heap'[Releasing(f)], structs'[p], f, a)

\* f may take the place of the call on top
Replaces(p, f) == f.op = Top(p).op /\ f.b = Top(p).b /\ f.saved = Top(p).saved

\* The Buffers of the calls below are as they were.
Steady(p) == \A c \in InUse(p) : c \notin BuffersOf(Top(p)) => heap'[c] = heap[c]

Limited(p, f) == \A c \in BuffersOf(f) : heap'[c].max = request[p].max

LEMMA TopFollows ==
  ASSUME IInv, NEW p \in Procs, stack[p] # <<>>, NEW g, Here(p, g), NEW f, Replaces(p, f),
         Replace(stack[p], f, stack'[p]), Shape(request[p], f, Ghost(p, g)), AtTopNow(p, f, Ghost(p, g)), Steady(p),
         Limited(p, f), BuffersOf(f) \cap InUse(p) \subseteq BuffersOf(Top(p))
  PROVE  Continues(p)
<1> DEFINE s == stack[p]
           t == stack'[p]
           n == Len(s)
           r == request[p]
<1>1. Good(s) /\ InUse(p) = BuffersIn(s) /\ Top(p) = s[n] /\ IsSeq(s)
  BY TopFacts, InUseIs DEF Top, Good
<1>2. n \in Nat \ {0} /\ n \in 1..n
  BY <1>1, StackLen
<1>3. Upto(s, n, f, t)
  BY <1>1 DEF Upto, Replace, Replaces
<1>4. Chain(p, s, heap, r, g)
  BY DEF Here, Follows
<1>5. Waiting(s, n) \subseteq BuffersIn(s) /\ Waiting(s, n) \cap BuffersOf(s[n]) = {}
  BY <1>1, <1>2, <1>4, WaitingIs DEF Chain
<1>6. Waiting(s, n) \cap BuffersOf(f) = {}
  BY <1>1, <1>5
<1>7. \A b \in Waiting(s, n) : heap'[b] = heap[b]
  BY <1>1, <1>5 DEF Steady
<1>8. \A b \in BuffersIn(t) : heap'[b].max = r.max
  <2> SUFFICES ASSUME NEW b \in BuffersIn(t) PROVE heap'[b].max = r.max
    OBVIOUS
  <2>1. IsSeq(t) /\ Len(t) = n /\ t[n] = f
    BY DEF Replace
  <2>2. PICK k \in 1..n : b \in BuffersOf(t[k])
    BY <2>1, InBuffers
  <2>3. CASE k = n
    BY <2>1, <2>2, <2>3 DEF Limited
  <2>4. CASE k # n
    <3>1. k \in 1..(n - 1) /\ t[k] = s[k]
      BY <1>2, <2>2, <2>4 DEF Replace
    <3>2. b \in BuffersIn(s)
      BY <1>1, <2>2, <3>1, InBuffers
    <3>3. CASE b \in BuffersOf(s[n]) /\ b \notin BuffersOf(f)
      <4>1. Shape(r, s[n], g[n]) /\ Shape(r, s[k], g[k]) /\ k < n
        BY <1>2, <1>4, <2>2, <3>1 DEF Chain
      <4>2. s[n].op = "message"
        BY <1>1, <1>2, <2>2, <3>1, <3>3, <4>1 DEF Good
      <4>3. s[n].scratch = {}
        BY <4>1, <4>2 DEF Shape
      <4>4. BuffersOf(s[n]) = {f.b}
        BY <1>1, <4>3 DEF BuffersOf, Replaces
      <4> QED
        BY <3>3, <4>4 DEF BuffersOf
    <3>4. CASE b \notin BuffersOf(s[n])
      BY <1>1, <1>4, <3>2, <3>4 DEF Steady, Chain
    <3>5. CASE b \in BuffersOf(f)
      BY <3>5 DEF Limited
    <3> QED
      BY <3>3, <3>4, <3>5
  <2> QED
    BY <2>3, <2>4
<1>9. Chain(p, t, heap', r, g)
  <2>1. Shape(r, f, g[n]) /\ n \in 1..Len(s)
    BY <1>2 DEF Ghost
  <2> HIDE DEF s, t, n, r
  <2> QED
    BY <1>1, <1>2, <1>3, <1>4, <1>6, <1>7, <1>8, <2>1, ChainUpto
<1>10. AtTop(p, r, heap'[t[Len(t)].b], heap'[Releasing(t[Len(t)])], structs'[p], t[Len(t)], g[Len(t)])
  BY <1>3 DEF Upto, AtTopNow, Ghost
<1>11. t # <<>>
  BY <1>2, <1>3, StackLen DEF Upto
<1> QED
  BY <1>9, <1>10, <1>11 DEF Continues, Following, Follows

LEMMA BecomesFollows ==
  ASSUME IInv, NEW p \in Procs, stack[p] # <<>>, NEW g, Here(p, g), NEW f, Becomes(p, f), Replaces(p, f),
         Shape(request[p], f, Ghost(p, g)), AtTopNow(p, f, Ghost(p, g)), Steady(p), Limited(p, f),
         BuffersOf(f) \cap InUse(p) \subseteq BuffersOf(Top(p))
  PROVE  Continues(p)
<1> DEFINE s == stack[p]
           t == Append(SubSeq(s, 1, Len(s) - 1), f)
<1>1. IsSeq(s)
  BY TopFacts DEF Good
<1>2. Replace(s, f, t)
  BY <1>1, Replaced
<1>3. stack'[p] = t
  BY DEF Becomes, Below, IInv, StackOK
<1>4. Replace(stack[p], f, stack'[p])
  BY <1>2, <1>3
<1> QED
  BY <1>4, TopFollows

LEMMA SameFollows ==
  ASSUME IInv, NEW p \in Procs, stack[p] # <<>>, NEW g, Here(p, g), stack' = stack,
         AtTopNow(p, Top(p), Ghost(p, g)), Steady(p), Limited(p, Top(p))
  PROVE  Continues(p)
<1> DEFINE s == stack[p]
           n == Len(s)
<1>1. IsSeq(s) /\ n \in Nat \ {0} /\ n \in 1..n /\ Top(p) = s[n]
  BY TopFacts, StackLen DEF Good, Top
<1>2. Replace(stack[p], Top(p), stack'[p])
  BY <1>1 DEF Replace
<1>3. Shape(request[p], Top(p), Ghost(p, g))
  BY <1>1 DEF Here, Follows, Chain, Ghost
<1>4. Replaces(p, Top(p)) /\ BuffersOf(Top(p)) \cap InUse(p) \subseteq BuffersOf(Top(p))
  BY DEF Replaces
<1> QED
  BY <1>2, <1>3, <1>4, TopFollows

\* The call on top, now f, has made the call c, which comes to b.
LEMMA CallsFollows ==
  ASSUME IInv, NEW p \in Procs, stack[p] # <<>>, NEW g, Here(p, g), NEW f, NEW c, Calls(p, f, c), Replaces(p, f),
         BuffersOf(f) = BuffersOf(Top(p)), NEW b, Shape(request[p], f, Ghost(p, g)), Shape(request[p], c, b),
         Linked(p, request[p], heap'[f.b], f, c, Ghost(p, g), b), AtTopNow(p, c, b), Steady(p),
         Limited(p, f), Limited(p, c),
         BuffersOf(c) \cap InUse(p) = {} \/ (c.op = "message" /\ BuffersOf(c) \subseteq BuffersOf(f))
  PROVE  Continues(p)
<1> DEFINE s == stack[p]
           n == Len(s)
           r == request[p]
           t == Append(SubSeq(s, 1, n - 1), f)
           u == Append(t, c)
<1>1. Good(s) /\ InUse(p) = BuffersIn(s) /\ Top(p) = s[n] /\ IsSeq(s)
  BY TopFacts, InUseIs DEF Top, Good
<1>2. n \in Nat \ {0} /\ n \in 1..n
  BY <1>1, StackLen
<1>3. Replace(s, f, t) /\ IsSeq(t)
  BY <1>1, Replaced DEF Replace
<1>4. Push(t, c, u)
  BY <1>3, Pushed
<1>5. stack'[p] = u
  BY DEF Calls, Below, IInv, StackOK
<1> HIDE DEF t, u
<1>6. Upto(s, n, f, t)
  BY <1>1, <1>3 DEF Upto, Replace, Replaces
<1>7. Chain(p, s, heap, r, g)
  BY DEF Here, Follows
<1>8. Waiting(s, n) \subseteq BuffersIn(s) /\ Waiting(s, n) \cap BuffersOf(s[n]) = {}
  BY <1>1, <1>2, <1>7, WaitingIs DEF Chain
<1>9. Waiting(s, n) \cap BuffersOf(f) = {} /\ \A x \in Waiting(s, n) : heap'[x] = heap[x]
  BY <1>1, <1>8 DEF Steady
<1>10. ASSUME NEW x \in BuffersIn(t) PROVE x \in BuffersIn(s) /\ heap'[x].max = r.max
  <2>1. IsSeq(t) /\ Len(t) = n /\ t[n] = f /\ \A k \in 1..(n - 1) : t[k] = s[k]
    BY <1>3 DEF Replace
  <2>2. PICK k \in 1..n : x \in BuffersOf(t[k])
    BY <1>10, <2>1, InBuffers
  <2>3. x \in BuffersOf(s[k])
    BY <1>1, <1>2, <2>1, <2>2
  <2>4. x \in BuffersIn(s)
    BY <1>1, <2>2, <2>3, InBuffers
  <2>5. CASE x \in BuffersOf(s[n])
    BY <1>1, <2>4, <2>5 DEF Limited
  <2>6. CASE x \notin BuffersOf(s[n])
    BY <1>1, <1>7, <2>4, <2>6 DEF Steady, Chain
  <2> QED
    BY <2>4, <2>5, <2>6
<1>11. Chain(p, t, heap', r, g)
  <2>1. Shape(r, f, g[n]) /\ n \in 1..Len(s)
    BY <1>2 DEF Ghost
  <2> HIDE DEF s, n, r
  <2> QED
    BY <1>1, <1>2, <1>6, <1>7, <1>9, <1>10, <2>1, ChainUpto
<1>12. \E e : Chain(p, u, heap', r, e) /\ e[Len(t) + 1] = b
  <2>1. t # <<>> /\ Len(t) = n /\ t[n] = f
    BY <1>2, <1>3, StackLen DEF Replace
  <2>2. Linked(p, r, heap'[t[Len(t)].b], t[Len(t)], c, g[Len(t)], b)
    BY <2>1 DEF Ghost
  <2>3. BuffersOf(c) \cap BuffersIn(t) = {} \/ (c.op = "message" /\ BuffersOf(c) \subseteq BuffersOf(t[Len(t)]))
    BY <1>1, <1>10, <2>1
  <2>4. Shape(r, c, b) /\ \A x \in BuffersOf(c) : heap'[x].max = r.max
    BY DEF Limited
  <2> HIDE DEF s, n, r
  <2> QED
    BY <1>3, <1>4, <1>11, <2>1, <2>2, <2>3, <2>4, ChainPush
<1>13. PICK e : Chain(p, u, heap', r, e) /\ e[Len(t) + 1] = b
  BY <1>12
<1>14. u[Len(u)] = c /\ Len(u) = Len(t) + 1
  BY <1>4 DEF Push
<1>15. AtTop(p, r, heap'[u[Len(u)].b], heap'[Releasing(u[Len(u)])], structs'[p], u[Len(u)], e[Len(u)])
  BY <1>13, <1>14 DEF AtTopNow
<1>16. u # <<>>
  <2>1. Len(t) \in Nat /\ IsSeq(u)
    BY <1>3, <1>4, StackLen DEF Push, Replace
  <2> QED
    BY <2>1, <1>14, StackLen
<1> QED
  BY <1>5, <1>13, <1>15, <1>16 DEF Continues, Following, Follows

\* The call on top has returned to the one below, which has become f.
LEMMA ReturnsFollows ==
  ASSUME IInv, NEW p \in Procs, NEW g, Here(p, g), NEW n \in Nat \ {0}, Len(stack[p]) = n + 1, NEW f,
         Replace(Below(p), f, stack'[p]), f.op = stack[p][n].op, f.b = stack[p][n].b, f.scratch = {}, f.saved = stack[p][n].saved,
         Shape(request[p], f, g[n]), AtTopNow(p, f, g[n]),
         \A c \in InUse(p) : c # f.b /\ c \notin BuffersOf(Top(p)) => heap'[c] = heap[c], Limited(p, f)
  PROVE  Continues(p)
<1> DEFINE s == stack[p]
           t == stack'[p]
           r == request[p]
<1>1. stack[p] # <<>>
  BY StackLen DEF IInv, StackOK, Good
<1>2. /\ Good(s) /\ InUse(p) = BuffersIn(s) /\ Top(p) = s[n + 1] /\ IsSeq(s) /\ Pop(s, Below(p)) /\ Len(s) = n + 1
      /\ n \in 1..(n + 1) /\ n + 1 \in 1..(n + 1)
  <2>1. Good(s) /\ InUse(p) = BuffersIn(s) /\ Top(p) = s[n + 1] /\ IsSeq(s) /\ Len(s) = n + 1
    BY <1>1, TopFacts, InUseIs DEF Top, Good
  <2>2. Pop(s, Below(p))
    BY <1>1, <2>1, Popped DEF Below
  <2>3. n \in 1..(n + 1) /\ n + 1 \in 1..(n + 1)
    OBVIOUS
  <2> QED
    BY <2>1, <2>2, <2>3
<1>3. Chain(p, s, heap, r, g)
  BY DEF Here, Follows
<1>4. Upto(s, n, f, t)
  <2>1. IsSeq(t) /\ Len(t) = n /\ t[n] = f /\ \A k \in 1..(n - 1) : t[k] = Below(p)[k]
    BY <1>2 DEF Pop, Replace
  <2>2. \A k \in 1..(n - 1) : Below(p)[k] = s[k]
    BY <1>2 DEF Pop
  <2> QED
    BY <2>1, <2>2 DEF Upto
<1>5. /\ Waiting(s, n) \subseteq BuffersIn(s) /\ Waiting(s, n) \cap BuffersOf(s[n]) = {}
      /\ Waiting(s, n) \cap BuffersOf(s[n + 1]) = {}
  <2>1. \A j \in n..Len(s) : Waiting(s, n) \cap BuffersOf(s[j]) = {}
    BY <1>2, <1>3, WaitingIs DEF Chain
  <2>2. Waiting(s, n) \subseteq BuffersIn(s)
    BY <1>2, <1>3, WaitingIs DEF Chain
  <2> QED
    BY <2>1, <2>2
<1>6. BuffersOf(f) = {s[n].b} /\ s[n].b \in BuffersOf(s[n])
  BY DEF BuffersOf
<1>7. Waiting(s, n) \cap BuffersOf(f) = {} /\ \A b \in Waiting(s, n) : heap'[b] = heap[b]
  BY <1>2, <1>5, <1>6
<1>8. \A b \in BuffersIn(t) : heap'[b].max = r.max
  <2> SUFFICES ASSUME NEW b \in BuffersIn(t), b # f.b PROVE heap'[b].max = r.max
    BY <1>6 DEF Limited
  <2>1. PICK k \in 1..n : b \in BuffersOf(t[k])
    BY <1>4, InBuffers DEF Upto
  <2>2. k # n /\ k \in 1..(n - 1) /\ k \in 1..(n + 1) /\ k < n
    BY <1>4, <1>6, <2>1 DEF Upto
  <2>3. t[k] = s[k]
    BY <1>4, <2>2 DEF Upto
  <2>4. b \in BuffersIn(s)
    BY <1>2, <2>1, <2>2, <2>3, InBuffers
  <2>5. b \notin BuffersOf(s[n + 1])
    <3> SUFFICES ASSUME b \in BuffersOf(s[n + 1]) PROVE FALSE
      OBVIOUS
    <3>1. s[n + 1].op = "message"
      <4>1. BuffersOf(s[k]) \cap BuffersOf(s[n + 1]) # {} /\ k < n + 1 /\ k \in 1..Len(s) /\ n + 1 \in 1..Len(s)
        <5>1. b \in BuffersOf(s[k])
          BY <2>1, <2>3
        <5>2. k < n + 1 /\ k \in 1..Len(s) /\ n + 1 \in 1..Len(s)
          BY <1>2, <2>2
        <5> HIDE DEF s
        <5> QED
          BY <5>1, <5>2
      <4> HIDE DEF s
      <4> QED
        BY <1>2, <4>1 DEF Good
    <3>2. Shape(r, s[n + 1], g[n + 1]) /\ Linked(p, r, heap[s[n].b], s[n], s[n + 1], g[n], g[n + 1])
      BY <1>2, <1>3 DEF Chain
    <3>3. s[n + 1].b = s[n].b
      BY <3>1, <3>2 DEF Linked
    <3>4. s[n + 1].scratch = {}
      BY <3>1, <3>2 DEF Shape
    <3> QED
      BY <3>3, <3>4 DEF BuffersOf
  <2> QED
    BY <1>2, <1>3, <2>4, <2>5 DEF Chain
<1>9. Chain(p, t, heap', r, g)
  <2> HIDE DEF s, t, r
  <2>1. Len(s) = n + 1 /\ n \in 1..Len(s)
    BY <1>2 DEF s
  <2>2. Shape(r, f, g[n])
    BY DEF r
  <2> QED
    BY <1>2, <1>3, <1>4, <1>7, <1>8, <2>1, <2>2, ChainUpto
<1>10. AtTop(p, r, heap'[t[Len(t)].b], heap'[Releasing(t[Len(t)])], structs'[p], t[Len(t)], g[Len(t)])
  BY <1>4 DEF Upto, AtTopNow
<1>11. t # <<>>
  BY <1>4, StackLen DEF Upto
<1> QED
  BY <1>9, <1>10, <1>11 DEF Continues, Following, Follows
-----------------------------------------------------------------------------
(* the heap in a step *)

LEMMA HeapChanged ==
  ASSUME IInv, NEW p \in Procs, stack[p] # <<>>, NEW b \in BuffersOf(Top(p)), NEW x, heap' = [heap EXCEPT ![b] = x]
  PROVE  heap'[b] = x /\ (\A c \in Buffers : c # b => heap'[c] = heap[c]) /\ Off(p) /\ Steady(p)
<1>1. heap = [c \in Buffers |-> heap[c]] /\ InUse(p) \subseteq Buffers /\ \A q \in Procs : InUse(q) \subseteq Buffers
  BY DEF IInv, HeapOK, IsHeap, StackOK
<1>2. b \in InUse(p) /\ b \in Buffers
  BY TopFacts
<1>3. heap'[b] = x /\ \A c \in Buffers : c # b => heap'[c] = heap[c]
  BY <1>1, <1>2
<1>4. \A q \in Procs : q # p => b \notin InUse(q)
  BY <1>2 DEF IInv, Disjoint
<1> QED
  BY <1>1, <1>3, <1>4 DEF Off, Steady

LEMMA HeapSame == ASSUME NEW p, heap' = heap PROVE Off(p) /\ Steady(p)
BY DEF Off, Steady

\* A Buffer is taken, for a step in which hs are the others.
LEMMA HeapGets ==
  ASSUME IInv, NEW p \in Procs, stack[p] # <<>>, NEW b \in Buffers, NEW e, NEW hs, Gets(b, e, hs), IsHeap(hs),
         \A c \in Buffers : c \notin BuffersOf(Top(p)) => hs[c] = heap[c]
  PROVE  /\ heap'[b].buf = e /\ heap'[b].index = 0 /\ heap'[b].err = None /\ heap'[b].depth = 0
         /\ heap'[b].array_indexes = NoIndexes /\ heap'[b].max = MaxRecursionDepth
         /\ b \notin InUse(p) /\ (\A c \in Buffers : c # b => heap'[c] = hs[c]) /\ Off(p) /\ Steady(p)
<1> DEFINE h == IF b \in buffer_pool THEN hs[b] ELSE NewBuffer(MaxRecursionDepth)
           x == newBuffer(h, e)
<1>1. \A q \in Procs : b \notin InUse(q) /\ InUse(q) \subseteq Buffers
  <2>1. b \in buffer_pool \/ b \in Unused
    <3>1. b \in buffer_pool \/ (Unused # {} /\ b = CHOOSE u \in Unused : TRUE)
      BY DEF Gets
    <3> QED
      BY <3>1
  <2> QED
    BY <2>1 DEF Unused, IInv, Disjoint, StackOK
<1>2. BuffersOf(Top(p)) \subseteq InUse(p)
  BY TopFacts
<1>3. IsNew(h)
  <2>1. hs[b] = heap[b]
    BY <1>1, <1>2
  <2>2. b \in buffer_pool => IsNew(hs[b])
    BY <2>1 DEF IInv, ClearedFirst
  <2> QED
    BY <2>2, NewBufferIsNew
<1> HIDE DEF h
<1>4. x = [h EXCEPT !.buf = e, !.max = MaxRecursionDepth]
  BY DEF newBuffer
<1>5. /\ x.buf = e /\ x.index = 0 /\ x.err = None /\ x.depth = 0 /\ x.array_indexes = NoIndexes
      /\ x.max = MaxRecursionDepth
  BY <1>3, <1>4 DEF IsNew, IsBuffer
<1>6. heap' = [hs EXCEPT ![b] = x]
  BY DEF Gets, h
<1> HIDE DEF x
<1>7. heap'[b] = x /\ \A c \in Buffers : c # b => heap'[c] = hs[c]
  BY <1>6 DEF IsHeap
<1>8. \A q \in Procs : q # p => InUse(q) \cap BuffersOf(Top(p)) = {}
  BY <1>2 DEF IInv, Disjoint
<1>9. Off(p)
  BY <1>1, <1>7, <1>8 DEF Off
<1>10. Steady(p)
  BY <1>1, <1>7 DEF Steady
<1> QED
  BY <1>1, <1>5, <1>7, <1>9, <1>10

-----------------------------------------------------------------------------
(* the call on top *)

LEMMA TopIs ==
  ASSUME IInv, NEW p \in Procs, stack[p] # <<>>, NEW g, Here(p, g)
  PROVE  /\ Shape(request[p], Top(p), Ghost(p, g))
         /\ AtTop(p, request[p], heap[Top(p).b], heap[Releasing(Top(p))], structs[p], Top(p), Ghost(p, g))
         /\ (\A c \in BuffersOf(Top(p)) : heap[c].max = request[p].max)
         /\ request[p].op \in {"Marshal", "Unmarshal"} /\ request[p].max \in Nat
<1>1. IsSeq(stack[p]) /\ Len(stack[p]) \in 1..Len(stack[p])
  BY TopFacts, StackLen DEF Good
<1>2. BuffersOf(Top(p)) \subseteq BuffersIn(stack[p])
  BY TopFacts, InUseIs
<1> QED
  BY <1>1, <1>2 DEF Here, Follows, Chain, Asked, Ghost, Top

LEMMA MarshalTop ==
  ASSUME IInv, NEW p \in Procs, stack[p] # <<>>, NEW g, Here(p, g), Top(p).op = "Marshal"
  PROVE  /\ request[p].op = "Marshal" /\ structs[p] = request[p].into /\ Top(p).todo \in Lists
         /\ EncodingTop(heap[Top(p).b], heap[Releasing(Top(p))], Top(p), Ghost(p, g))
         /\ Top(p).scratch # {} => Top(p).numbers \in Lists
<1>1. request[p].op = "Marshal"
  BY TopIs DEF Shape
<1> QED
  BY <1>1, TopIs DEF Shape, AtTop

LEMMA Next1Is ==
  ASSUME IInv, NEW p \in Procs, stack[p] # <<>>
  PROVE  /\ Next1(p).todo = Tail(Top(p).todo) /\ Next1(p).numbers = Top(p).numbers /\ Next1(p).at = Top(p).at
         /\ Next1(p).saved = Top(p).saved /\ Next1(p).result = Top(p).result
         /\ Looks(Next1(p), Top(p).op, Top(p).b, Top(p).scratch, Top(p).pc)
<1>1. IsFrame(Top(p))
  BY TopFacts
<1> QED
  BY <1>1, Next1Looks DEF Next1, IsFrame

\* A field has been encoded.
LEMMA EncodedFollows ==
  ASSUME IInv, NEW p \in Procs, stack[p] # <<>>, NEW g, Here(p, g), Top(p).op = "Marshal", Top(p).pc = "run",
         Top(p).scratch = {}, Top(p).todo # <<>>, Becomes(p, Next1(p)), structs' = structs, Steady(p),
         heap'[Top(p).b].buf = heap[Top(p).b].buf \o FieldOf(Top(p).todo).bytes,
         heap'[Top(p).b].err = Promise!FirstError(heap[Top(p).b].err, FieldOf(Top(p).todo).err),
         heap'[Top(p).b].max = heap[Top(p).b].max
  PROVE  Continues(p)
<1> DEFINE f == Next1(p)
           v == Top(p).todo
           h == heap[Top(p).b]
           h2 == heap'[Top(p).b]
           a == Ghost(p, g)
<1>1. /\ request[p].op = "Marshal" /\ structs[p] = request[p].into /\ v \in Lists /\ IsSeq(h.buf) /\ a = Finished(h, v)
  BY MarshalTop DEF EncodingTop
<1>2. /\ f.op = "Marshal" /\ f.b = Top(p).b /\ f.scratch = {} /\ f.pc = "run" /\ f.todo = Tail(v)
      /\ f.saved = Top(p).saved
  BY Next1Is DEF Looks
<1>3. IsSeq(h2.buf) /\ Tail(v) \in Lists /\ Finished(h2, Tail(v)) = a
  <2> HIDE DEF h, h2, v, a
  <2> QED
    BY <1>1, FinishedNext DEF v, h, h2
<1>4. Releasing(f) = f.b
  BY <1>2 DEF Releasing
<1>5. BuffersOf(f) = {Top(p).b} /\ BuffersOf(Top(p)) = {Top(p).b}
  BY <1>2 DEF BuffersOf
<1> HIDE DEF f, v, a
<1>6. Shape(request[p], f, a)
  BY <1>1, <1>2, <1>3 DEF Shape
<1>7. EncodingTop(h2, h2, f, a)
  BY <1>2, <1>3 DEF EncodingTop
<1>8. AtTopNow(p, f, a)
  BY <1>1, <1>2, <1>4, <1>7 DEF AtTopNow, AtTop
<1>9. Limited(p, f)
  BY <1>5, TopIs DEF Limited
<1>10. Replaces(p, f)
  BY <1>2 DEF Replaces
<1>11. BuffersOf(f) \cap InUse(p) \subseteq BuffersOf(Top(p))
  BY <1>5
<1> QED
  BY <1>6, <1>8, <1>9, <1>10, <1>11, BecomesFollows DEF f, a

LEMMA FirstErrorIs ==
  ASSUME NEW e
  PROVE  Promise!FirstError(e, None) = e /\ Promise!FirstError(None, e) = e
BY NonesAreOne DEF Promise!FirstError

LEMMA PutIs ==
  ASSUME NEW h, IsBuffer(h), NEW x, NEW e
  PROVE  /\ Put(h, x).buf = h.buf \o x /\ Put(h, x).err = h.err /\ Put(h, x).max = h.max
         /\ noteError(h, e).buf = h.buf /\ noteError(h, e).max = h.max
         /\ noteError(h, e).err = Promise!FirstError(h.err, e)
<1>1. Put(h, x) = [h EXCEPT !.buf = h.buf \o x] /\ noteError(h, e) = [h EXCEPT !.err = IF h.err = None THEN e ELSE h.err]
  BY DEF Put, noteError
<1>2. Put(h, x).buf = h.buf \o x /\ Put(h, x).err = h.err /\ Put(h, x).max = h.max
  <2> DEFINE y == h.buf \o x
  <2> HIDE DEF y
  <2>1. Put(h, x) = [h EXCEPT !.buf = y]
    BY <1>1 DEF y
  <2> QED
    BY <2>1 DEF IsBuffer, y
<1>3. /\ noteError(h, e).buf = h.buf /\ noteError(h, e).max = h.max
      /\ noteError(h, e).err = IF h.err = None THEN e ELSE h.err
  BY <1>1 DEF IsBuffer
<1> QED
  BY <1>2, <1>3, NonesAreOne DEF Promise!FirstError

LEMMA PutGives ==
  ASSUME NEW h, IsBuffer(h), NEW x
  PROVE  Put(h, x).buf = h.buf \o x /\ Put(h, x).err = h.err /\ Put(h, x).max = h.max
BY PutIs

LEMMA HeapBuffers ==
  ASSUME IInv, NEW p \in Procs, stack[p] # <<>>
  PROVE  /\ Top(p).b \in BuffersOf(Top(p)) /\ IsBuffer(heap[Top(p).b])
         /\ Releasing(Top(p)) \in BuffersOf(Top(p)) /\ IsBuffer(heap[Releasing(Top(p))])
BY TopFacts, ReleasingOneOf DEF BuffersOf, IInv, HeapOK, IsHeap

LEMMA EncodeNumberFollows ==
  ASSUME IInv, NEW p \in Procs, NEW g, Here(p, g), EncodeNumber(p)
  PROVE  Continues(p) /\ Off(p)
<1> DEFINE v == Top(p).todo
           h == heap[Top(p).b]
           x == Put(h, <<Head(v)>>)
<1>1. /\ stack[p] # <<>> /\ Top(p).op = "Marshal" /\ Top(p).pc = "run" /\ Top(p).scratch = {} /\ v # <<>>
      /\ Head(v).kind = "number" /\ Becomes(p, Next1(p)) /\ structs' = structs
      /\ heap' = [heap EXCEPT ![Top(p).b] = x]
  BY DEF EncodeNumber, Encoding, Runs, Field
<1> HIDE DEF x
<1>2. heap'[Top(p).b] = x /\ Off(p) /\ Steady(p)
  <2> DEFINE b == Top(p).b
  <2>1. b \in BuffersOf(Top(p)) /\ heap' = [heap EXCEPT ![b] = x] /\ stack[p] # <<>>
    BY <1>1, HeapBuffers
  <2> HIDE DEF b
  <2>2. heap'[b] = x /\ Off(p) /\ Steady(p)
    BY <2>1, HeapChanged
  <2> QED
    BY <2>2 DEF b
<1>3. FieldOf(v).bytes = <<Head(v)>> /\ FieldOf(v).err = None
  <2>1. FieldOf(v) = Promise!Items(<<Head(v)>>, None)
    BY <1>1, NonesAreOne DEF FieldOf, Promise!Field
  <2> QED
    BY <2>1 DEF Promise!Items
<1>4. IsBuffer(h)
  BY <1>1, HeapBuffers
<1>5. /\ heap'[Top(p).b].buf = h.buf \o FieldOf(v).bytes /\ heap'[Top(p).b].max = h.max
      /\ heap'[Top(p).b].err = Promise!FirstError(h.err, FieldOf(v).err)
  <2> HIDE DEF h, v
  <2>1. x.buf = h.buf \o <<Head(v)>> /\ x.err = h.err /\ x.max = h.max
    BY <1>4, PutIs DEF x
  <2>2. Promise!FirstError(h.err, None) = h.err
    BY FirstErrorIs
  <2> QED
    BY <1>2, <1>3, <2>1, <2>2
<1> QED
  BY <1>1, <1>2, <1>5, EncodedFollows

LEMMA EncodeFailingFollows ==
  ASSUME IInv, NEW p \in Procs, NEW g, Here(p, g), EncodeFailing(p)
  PROVE  Continues(p) /\ Off(p)
<1> DEFINE v == Top(p).todo
           h == heap[Top(p).b]
           x == noteError(h, "failed")
<1>1. /\ stack[p] # <<>> /\ Top(p).op = "Marshal" /\ Top(p).pc = "run" /\ Top(p).scratch = {} /\ v # <<>>
      /\ Head(v).kind = "failing" /\ Becomes(p, Next1(p)) /\ structs' = structs
      /\ heap' = [heap EXCEPT ![Top(p).b] = x]
  BY DEF EncodeFailing, Encoding, Runs, Field
<1> HIDE DEF x
<1>2. heap'[Top(p).b] = x /\ Off(p) /\ Steady(p)
  <2> DEFINE b == Top(p).b
  <2>1. b \in BuffersOf(Top(p)) /\ heap' = [heap EXCEPT ![b] = x] /\ stack[p] # <<>>
    BY <1>1, HeapBuffers
  <2> HIDE DEF b
  <2>2. heap'[b] = x /\ Off(p) /\ Steady(p)
    BY <2>1, HeapChanged
  <2> QED
    BY <2>2 DEF b
<1>3. FieldOf(v).bytes = <<>> /\ FieldOf(v).err = "failed"
  <2>1. FieldOf(v) = Promise!Items(<<>>, "failed")
    BY <1>1 DEF FieldOf, Promise!Field
  <2> QED
    BY <2>1 DEF Promise!Items
<1>4. IsBuffer(h) /\ IsSeq(h.buf)
  BY <1>1, HeapBuffers, MarshalTop DEF EncodingTop
<1>5. /\ heap'[Top(p).b].buf = h.buf \o FieldOf(v).bytes /\ heap'[Top(p).b].max = h.max
      /\ heap'[Top(p).b].err = Promise!FirstError(h.err, FieldOf(v).err)
  <2> HIDE DEF h, v
  <2>1. x.buf = h.buf /\ x.err = Promise!FirstError(h.err, "failed") /\ x.max = h.max
    BY <1>4, PutIs DEF x
  <2>2. h.buf \o <<>> = h.buf
    BY <1>4, SeqJoined
  <2> QED
    BY <1>2, <1>3, <2>1, <2>2
<1> QED
  BY <1>1, <1>2, <1>5, EncodedFollows

LEMMA BufferChanged ==
  ASSUME IInv, NEW p \in Procs, stack[p] # <<>>, NEW x, heap' = [heap EXCEPT ![Top(p).b] = x]
  PROVE  heap'[Top(p).b] = x /\ (\A c \in Buffers : c # Top(p).b => heap'[c] = heap[c]) /\ Off(p) /\ Steady(p)
<1> DEFINE b == Top(p).b
<1>1. b \in BuffersOf(Top(p)) /\ heap' = [heap EXCEPT ![b] = x]
  BY HeapBuffers
<1> HIDE DEF b
<1>2. heap'[b] = x /\ (\A c \in Buffers : c # b => heap'[c] = heap[c]) /\ Off(p) /\ Steady(p)
  BY <1>1, HeapChanged
<1> QED
  BY <1>2 DEF b

LEMMA EndMarshalFollows ==
  ASSUME IInv, NEW p \in Procs, NEW g, Here(p, g), EndMarshal(p)
  PROVE  Continues(p) /\ Off(p)
<1> DEFINE t == Top(p)
           h == heap[t.b]
           x == [bytes |-> IF h.err = None THEN h.buf ELSE <<>>, err |-> h.err]
           f == [[t EXCEPT !.result = x] EXCEPT !.pc = "clear"]
           a == Ghost(p, g)
<1>1. /\ stack[p] # <<>> /\ t.op = "Marshal" /\ t.pc = "run" /\ t.scratch = {} /\ t.todo = <<>>
      /\ Becomes(p, f) /\ heap' = heap /\ structs' = structs
  BY DEF EndMarshal, Runs, StartRelease
<1>2. /\ request[p].op = "Marshal" /\ structs[p] = request[p].into /\ t.todo \in Lists /\ IsSeq(h.buf)
      /\ a = Finished(h, t.todo)
  BY <1>1, MarshalTop DEF EncodingTop
<1>3. a = x
  <2>1. a = Result(h.buf, h.err)
    BY <1>1, <1>2, FinishedAll
  <2> HIDE DEF h
  <2> QED
    BY <2>1, NonesAreOne DEF Result, Promise!Items
<1>4. /\ f.op = t.op /\ f.b = t.b /\ f.saved = t.saved /\ f.scratch = {} /\ f.todo = t.todo /\ f.pc = "clear"
      /\ f.result = x
  <2>1. IsFrame(t)
    BY <1>1, TopFacts
  <2> HIDE DEF t, x
  <2> QED
    BY <1>1, <2>1 DEF IsFrame
<1>5. Releasing(f) = f.b /\ BuffersOf(f) = {t.b} /\ BuffersOf(t) = {t.b}
  BY <1>1, <1>4 DEF Releasing, BuffersOf
<1> HIDE DEF f, a, x
<1>6. Shape(request[p], f, a)
  BY <1>1, <1>2, <1>4 DEF Shape
<1>7. AtTopNow(p, f, a)
  BY <1>1, <1>2, <1>3, <1>4, <1>5 DEF AtTopNow, AtTop, EncodingTop
<1>8. Limited(p, f)
  BY <1>1, <1>5, TopIs DEF Limited
<1>9. Off(p) /\ Steady(p)
  BY <1>1, HeapSame
<1>10. Replaces(p, f) /\ BuffersOf(f) \cap InUse(p) \subseteq BuffersOf(t)
  BY <1>4, <1>5 DEF Replaces
<1> QED
  BY <1>1, <1>6, <1>7, <1>8, <1>9, <1>10, BecomesFollows DEF a

LEMMA StartPackedFollows ==
  ASSUME IInv, NEW p \in Procs, NEW g, Here(p, g), request[p].max = MaxRecursionDepth, StartPacked(p)
  PROVE  Continues(p) /\ Off(p)
<1> DEFINE t == Top(p)
           v == t.todo
           h == heap[t.b]
           a == Ghost(p, g)
<1>1. /\ stack[p] # <<>> /\ t.op = "Marshal" /\ t.pc = "run" /\ t.scratch = {} /\ v # <<>>
      /\ Head(v).kind = "packed" /\ structs' = structs
  BY DEF StartPacked, Encoding, Runs, Field
<1>2. /\ request[p].op = "Marshal" /\ structs[p] = request[p].into /\ v \in Lists /\ IsSeq(h.buf) /\ a = Finished(h, v)
  BY <1>1, MarshalTop DEF EncodingTop
<1>3. CASE Head(v).of = <<>>
  <2>1. Becomes(p, Next1(p)) /\ heap' = heap
    BY <1>3 DEF StartPacked, Field
  <2>2. Off(p) /\ Steady(p)
    BY <2>1, HeapSame
  <2>3. FieldOf(v).bytes = <<>> /\ FieldOf(v).err = None
    <3>1. FieldOf(v) = Promise!Items(<<>>, None)
      BY <1>1, <1>3, NonesAreOne DEF FieldOf, Promise!Field
    <3> QED
      BY <3>1 DEF Promise!Items
  <2>4. h.buf \o <<>> = h.buf /\ Promise!FirstError(h.err, None) = h.err
    BY <1>2, SeqJoined, FirstErrorIs
  <2>5. /\ heap'[t.b].buf = h.buf \o FieldOf(v).bytes /\ heap'[t.b].err = Promise!FirstError(h.err, FieldOf(v).err)
        /\ heap'[t.b].max = h.max
    BY <2>1, <2>3, <2>4
  <2> QED
    BY <1>1, <2>1, <2>2, <2>5, EncodedFollows
<1>4. CASE Head(v).of # <<>>
  <2>1. PICK b \in Buffers : Gets(b, <<>>, heap) /\ Becomes(p, [Next1(p) EXCEPT !.scratch = {b}, !.numbers = Head(v).of])
    BY <1>4 DEF StartPacked, Field
  <2> DEFINE e == Next1(p)
             ns == Head(v).of
             f == [e EXCEPT !.scratch = {b}, !.numbers = ns]
             h2 == heap'[t.b]
             hs == heap'[b]
  <2>2. /\ hs.buf = <<>> /\ hs.max = MaxRecursionDepth /\ b \notin InUse(p)
        /\ (\A c \in Buffers : c # b => heap'[c] = heap[c]) /\ Off(p) /\ Steady(p)
    <3>1. IsHeap(heap)
      BY DEF IInv, HeapOK
    <3> QED
      BY <1>1, <2>1, <3>1, HeapGets
  <2>3. t.b \in Buffers /\ t.b \in InUse(p)
    BY <1>1, TopFacts
  <2>4. h2 = h
    BY <2>2, <2>3
  <2>5. /\ f.op = t.op /\ f.b = t.b /\ f.saved = t.saved /\ f.scratch = {b} /\ f.todo = Tail(v) /\ f.pc = "run"
        /\ f.numbers = ns
    <3>1. IsFrame(e) /\ e.op = t.op /\ e.b = t.b /\ e.saved = t.saved /\ e.todo = Tail(v) /\ e.pc = "run"
      BY <1>1, Next1Is DEF Looks
    <3> HIDE DEF e, t, v, ns
    <3> QED
      BY <3>1 DEF IsFrame
  <2>6. Becomes(p, f)
    BY <2>1
  <2> HIDE DEF e, f
  <2>7. Releasing(f) = b /\ BuffersOf(f) = {t.b, b} /\ BuffersOf(t) = {t.b}
    BY <1>1, <2>5 DEF Releasing, BuffersOf
  <2>8. ns \in Lists /\ Tail(v) \in Lists
    BY <1>1, <1>2, ListParts
  <2>9. a = Finished(Put(h2, <<Packed(hs.buf \o f.numbers)>>), f.todo)
    <3>1. hs.buf \o ns = ns
      BY <2>2, <2>8, ListsAreSeqs, SeqJoined
    <3>2. Packed(ns) = Head(v)
      BY <1>1, <1>2, HeadOfList DEF Packed
    <3>3. FieldOf(v).bytes = <<Head(v)>> /\ FieldOf(v).err = None
      <4>1. FieldOf(v) = Promise!Items(<<Head(v)>>, None)
        BY <1>1, <1>4, NonesAreOne DEF FieldOf, Promise!Field
      <4> QED
        BY <4>1 DEF Promise!Items
    <3> DEFINE w == Put(h, <<Head(v)>>)
    <3>4. IsBuffer(h)
      BY <1>1, HeapBuffers
    <3> HIDE DEF h
    <3>5. w.buf = h.buf \o <<Head(v)>> /\ w.err = h.err
      BY <3>4, PutIs
    <3>6. Promise!FirstError(h.err, None) = h.err
      BY FirstErrorIs
    <3> HIDE DEF w, v
    <3>7. w.buf = h.buf \o FieldOf(v).bytes /\ w.err = Promise!FirstError(h.err, FieldOf(v).err)
      BY <3>3, <3>5, <3>6
    <3>8. Finished(w, Tail(v)) = Finished(h, v)
      BY <1>1, <1>2, <3>7, FinishedNext
    <3>9. Put(h2, <<Packed(hs.buf \o f.numbers)>>) = w
      BY <2>4, <2>5, <3>1, <3>2 DEF w
    <3> QED
      BY <1>2, <2>5, <3>8, <3>9
  <2> HIDE DEF a
  <2>10. Shape(request[p], f, a)
    BY <1>1, <1>2, <2>5, <2>8 DEF Shape
  <2>11. AtTopNow(p, f, a)
    <3>1. IsSeq(h2.buf) /\ IsSeq(hs.buf)
      BY <1>2, <2>2, <2>4, SeqOne
    <3>2. EncodingTop(h2, hs, f, a)
      BY <2>5, <2>9, <3>1 DEF EncodingTop
    <3> QED
      BY <1>1, <1>2, <2>5, <2>7, <3>2 DEF AtTopNow, AtTop
  <2>12. Limited(p, f)
    BY <1>1, <2>2, <2>4, <2>7, TopIs DEF Limited
  <2>13. Replaces(p, f) /\ BuffersOf(f) \cap InUse(p) \subseteq BuffersOf(t)
    BY <2>2, <2>5, <2>7 DEF Replaces
  <2> QED
    BY <1>1, <2>2, <2>6, <2>10, <2>11, <2>12, <2>13, BecomesFollows DEF a
<1> QED
  BY <1>3, <1>4
\* the scratch buffer
LEMMA ScratchIs ==
  ASSUME IInv, NEW p \in Procs, stack[p] # <<>>, Top(p).scratch # {}
  PROVE  /\ Top(p).scratch = {Releasing(Top(p))} /\ Releasing(Top(p)) # Top(p).b /\ Top(p).op = "Marshal"
         /\ BuffersOf(Top(p)) = {Top(p).b, Releasing(Top(p))} /\ Releasing(Top(p)) \in Buffers /\ Top(p).b \in Buffers
<1>1. FrameOK(Top(p)) /\ Releasing(Top(p)) \in Buffers /\ Top(p).b \in Buffers
  BY TopFacts
<1>2. PICK b \in Top(p).scratch : Top(p).scratch = {b} /\ b # Top(p).b
  BY <1>1 DEF FrameOK
<1>3. Releasing(Top(p)) = b
  BY <1>2 DEF Releasing
<1> QED
  BY <1>1, <1>2, <1>3 DEF FrameOK, BuffersOf

LEMMA PackNumberFollows ==
  ASSUME IInv, NEW p \in Procs, NEW g, Here(p, g), PackNumber(p)
  PROVE  Continues(p) /\ Off(p)
<1> DEFINE t == Top(p)
           b == Releasing(t)
           h == heap[t.b]
           hs == heap[b]
           ns == t.numbers
           x == Put(hs, <<Head(ns)>>)
           f == [t EXCEPT !.numbers = Tail(ns)]
           a == Ghost(p, g)
<1>1. /\ stack[p] # <<>> /\ t.op = "Marshal" /\ t.pc = "run" /\ t.scratch # {} /\ ns # <<>>
      /\ Becomes(p, f) /\ heap' = [heap EXCEPT ![b] = x] /\ structs' = structs
  BY DEF PackNumber, Packs, Runs
<1>2. /\ request[p].op = "Marshal" /\ structs[p] = request[p].into /\ t.todo \in Lists /\ ns \in Lists
      /\ EncodingTop(h, hs, t, a)
  BY <1>1, MarshalTop
<1>3. /\ t.scratch = {b} /\ b # t.b /\ BuffersOf(t) = {t.b, b} /\ b \in Buffers /\ t.b \in Buffers
  BY <1>1, ScratchIs
<1>4. /\ IsSeq(h.buf) /\ IsSeq(hs.buf) /\ a = Finished(Put(h, <<Packed(hs.buf \o ns)>>), t.todo)
  BY <1>1, <1>2 DEF EncodingTop
<1>5. /\ f.op = t.op /\ f.b = t.b /\ f.saved = t.saved /\ f.scratch = t.scratch /\ f.todo = t.todo /\ f.pc = t.pc
      /\ f.numbers = Tail(ns)
  <2>1. IsFrame(t)
    BY <1>1, TopFacts
  <2> HIDE DEF t
  <2> QED
    BY <2>1 DEF IsFrame
<1>6. Releasing(f) = b /\ BuffersOf(f) = BuffersOf(t)
  BY <1>5 DEF Releasing, BuffersOf
<1>7. x.buf = hs.buf \o <<Head(ns)>> /\ x.max = hs.max
  <2>1. IsBuffer(hs)
    BY <1>1, HeapBuffers
  <2> HIDE DEF hs, ns
  <2> QED
    BY <2>1, PutIs
<1> HIDE DEF x, f, a
<1>8. heap'[b] = x /\ heap'[t.b] = h /\ Off(p) /\ Steady(p)
  <2>1. b \in BuffersOf(t) /\ heap' = [heap EXCEPT ![b] = x] /\ stack[p] # <<>>
    BY <1>1, <1>3
  <2> HIDE DEF b
  <2>2. heap'[b] = x /\ (\A c \in Buffers : c # b => heap'[c] = heap[c]) /\ Off(p) /\ Steady(p)
    BY <2>1, HeapChanged
  <2> QED
    BY <1>3, <2>2
<1>9. x.buf \o Tail(ns) = hs.buf \o ns /\ IsSeq(x.buf) /\ Tail(ns) \in Lists
  <2>1. IsSeq(ns) /\ Tail(ns) \in Lists
    BY <1>1, <1>2, ListsAreSeqs, ListParts
  <2>2. IsSeq(Tail(ns)) /\ ns = <<Head(ns)>> \o Tail(ns)
    BY <1>1, <2>1, SeqSplit
  <2> DEFINE u == hs.buf
             v == <<Head(ns)>>
             w == Tail(ns)
  <2>3. IsSeq(u) /\ IsSeq(v) /\ IsSeq(w) /\ x.buf = u \o v /\ ns = v \o w
    BY <1>4, <1>7, <2>2, SeqOne
  <2> HIDE DEF u, v, w
  <2>4. (u \o v) \o w = u \o (v \o w)
    BY <2>3, SeqAssociates
  <2>5. IsSeq(u \o v)
    BY <2>3, SeqJoined
  <2>6. x.buf \o w = u \o ns /\ IsSeq(x.buf)
    BY <2>3, <2>4, <2>5
  <2> QED
    BY <2>1, <2>6 DEF u, w
<1> HIDE DEF b, h, hs, ns, t
<1>10. Shape(request[p], f, a)
  BY <1>1, <1>2, <1>5, <1>9 DEF Shape
<1>11. EncodingTop(h, x, f, a)
  BY <1>1, <1>4, <1>5, <1>9 DEF EncodingTop
<1>12. AtTopNow(p, f, a)
  BY <1>1, <1>2, <1>5, <1>6, <1>8, <1>11 DEF AtTopNow, AtTop
<1>13. Limited(p, f)
  <2>1. hs.max = request[p].max /\ h.max = request[p].max
    BY <1>1, <1>3, TopIs DEF b, h, hs, t
  <2> QED
    BY <1>3, <1>6, <1>7, <1>8, <2>1 DEF Limited
<1>14. Replaces(p, f) /\ BuffersOf(f) \cap InUse(p) \subseteq BuffersOf(t)
  BY <1>5, <1>6 DEF Replaces, t
<1> QED
  BY <1>1, <1>8, <1>10, <1>12, <1>13, <1>14, BecomesFollows DEF a, t

LEMMA AppendPackedFollows ==
  ASSUME IInv, NEW p \in Procs, NEW g, Here(p, g), AppendPacked(p)
  PROVE  Continues(p) /\ Off(p)
<1> DEFINE t == Top(p)
           b == Releasing(t)
           h == heap[t.b]
           hs == heap[b]
           x == Put(h, <<Packed(hs.buf)>>)
           f == [t EXCEPT !.pc = "clear"]
           a == Ghost(p, g)
<1>1. /\ stack[p] # <<>> /\ t.op = "Marshal" /\ t.pc = "run" /\ t.scratch # {} /\ t.numbers = <<>>
      /\ Becomes(p, f) /\ heap' = [heap EXCEPT ![t.b] = x] /\ structs' = structs
  BY DEF AppendPacked, Packs, Runs, StartRelease
<1>2. /\ request[p].op = "Marshal" /\ structs[p] = request[p].into /\ t.todo \in Lists /\ t.numbers \in Lists
      /\ EncodingTop(h, hs, t, a)
  BY <1>1, MarshalTop
<1>3. /\ t.scratch = {b} /\ b # t.b /\ BuffersOf(t) = {t.b, b} /\ b \in Buffers /\ t.b \in Buffers
  BY <1>1, ScratchIs
<1>4. IsSeq(h.buf) /\ IsSeq(hs.buf) /\ a = Finished(x, t.todo)
  <2>1. IsSeq(h.buf) /\ IsSeq(hs.buf) /\ a = Finished(Put(h, <<Packed(hs.buf \o <<>>)>>), t.todo)
    BY <1>1, <1>2 DEF EncodingTop
  <2>2. hs.buf \o <<>> = hs.buf
    BY <2>1, SeqJoined
  <2> QED
    BY <2>1, <2>2
<1>5. /\ f.op = t.op /\ f.b = t.b /\ f.saved = t.saved /\ f.scratch = t.scratch /\ f.todo = t.todo /\ f.pc = "clear"
      /\ f.numbers = t.numbers
  <2>1. IsFrame(t)
    BY <1>1, TopFacts
  <2> HIDE DEF t
  <2> QED
    BY <2>1 DEF IsFrame
<1>6. Releasing(f) = b /\ BuffersOf(f) = BuffersOf(t)
  BY <1>5 DEF Releasing, BuffersOf
<1>7. IsSeq(x.buf) /\ x.max = h.max
  <2> DEFINE y == <<Packed(hs.buf)>>
  <2>1. IsBuffer(h) /\ IsSeq(y)
    BY <1>1, HeapBuffers, SeqOne
  <2> HIDE DEF h, y
  <2>2. x.buf = h.buf \o y /\ x.max = h.max
    BY <2>1, PutIs DEF y
  <2> QED
    BY <1>4, <2>1, <2>2, SeqJoined
<1> HIDE DEF x, f, a
<1>8. heap'[t.b] = x /\ heap'[b] = hs /\ Off(p) /\ Steady(p)
  BY <1>1, <1>3, BufferChanged
<1> HIDE DEF b, h, hs, t
<1>9. Shape(request[p], f, a)
  BY <1>1, <1>2, <1>5 DEF Shape
<1>10. EncodingTop(x, hs, f, a)
  BY <1>1, <1>4, <1>5, <1>7 DEF EncodingTop
<1>11. AtTopNow(p, f, a)
  BY <1>1, <1>2, <1>5, <1>6, <1>8, <1>10 DEF AtTopNow, AtTop
<1>12. Limited(p, f)
  <2>1. hs.max = request[p].max /\ h.max = request[p].max
    BY <1>1, <1>3, TopIs DEF b, h, hs, t
  <2> QED
    BY <1>3, <1>6, <1>7, <1>8, <2>1 DEF Limited
<1>13. Replaces(p, f) /\ BuffersOf(f) \cap InUse(p) \subseteq BuffersOf(t)
  BY <1>5, <1>6 DEF Replaces, t
<1> QED
  BY <1>1, <1>8, <1>9, <1>11, <1>12, <1>13, BecomesFollows DEF a, t

LEMMA ResultIs ==
  ASSUME NEW bytes, NEW err
  PROVE  Result(bytes, err).err = err /\ Result(bytes, err).bytes = IF err = None THEN bytes ELSE <<>>
BY DEF Result, Promise!Items

\* A field that marshals itself adds what it has given, or its error.
LEMMA GivenIs ==
  ASSUME NEW v \in Lists, v # <<>>, Head(v).kind = "custom", NEW h, IsBuffer(h), IsSeq(h.buf), NEW b,
         b = Result(Promise!Encoded[Head(v).of].bytes, Promise!Encoded[Head(v).of].err)
  PROVE  IsSeq(Given(h, b).buf) /\ Finished(Given(h, b), Tail(v)) = Finished(h, v) /\ Given(h, b).max = h.max
<1> DEFINE x == Head(v)
           e == Promise!Encoded[x.of]
           w == Given(h, b)
           F == FieldOf(v)
<1>1. b.err = e.err /\ b.bytes = IF e.err = None THEN e.bytes ELSE <<>>
  <2>1. b = Result(e.bytes, e.err)
    OBVIOUS
  <2> HIDE DEF e
  <2> QED
    BY <2>1, ResultIs
<1>2. F = Promise!Items(IF e.err # None \/ e.bytes = <<>> THEN <<>> ELSE <<[x EXCEPT !.of = e.bytes]>>, e.err)
  BY NonesAreOne DEF FieldOf, Promise!Field
<1>3. [x EXCEPT !.of = e.bytes] = Custom(e.bytes)
  <2>1. x = Item("custom", x.of)
    BY HeadOfList
  <2> HIDE DEF x, e
  <2> QED
    BY <2>1 DEF Item, Custom
<1>4. F.err = e.err /\ F.bytes = IF e.err # None \/ e.bytes = <<>> THEN <<>> ELSE <<Custom(e.bytes)>>
  <2> HIDE DEF e, F, x
  <2> QED
    BY <1>2, <1>3 DEF Promise!Items
<1> HIDE DEF e, F, x, w
<1>5. w.buf = h.buf \o F.bytes /\ w.err = Promise!FirstError(h.err, F.err) /\ w.max = h.max
  <2>1. h.buf \o <<>> = h.buf
    BY SeqJoined
  <2>2. CASE e.err # None
    <3>1. w = noteError(h, e.err)
      BY <1>1, <2>2 DEF Given, w
    <3>2. w.buf = h.buf /\ w.err = Promise!FirstError(h.err, e.err) /\ w.max = h.max
      BY <3>1, PutIs
    <3> QED
      BY <1>4, <2>1, <2>2, <3>2
  <2>3. CASE e.err = None /\ e.bytes = <<>>
    <3>1. w = h
      BY <1>1, <2>3 DEF Given, w
    <3> QED
      BY <1>4, <2>1, <2>3, <3>1, FirstErrorIs
  <2>4. CASE e.err = None /\ e.bytes # <<>>
    <3>1. w = Put(h, <<Custom(e.bytes)>>)
      BY <1>1, <2>4 DEF Given, w
    <3>2. w.buf = h.buf \o <<Custom(e.bytes)>> /\ w.err = h.err /\ w.max = h.max
      BY <3>1, PutIs
    <3> QED
      BY <1>4, <2>4, <3>2, FirstErrorIs
  <2> QED
    BY <2>2, <2>3, <2>4
<1>6. IsSeq(w.buf) /\ Finished(w, Tail(v)) = Finished(h, v)
  BY <1>5, FinishedNext DEF F
<1> QED
  BY <1>5, <1>6 DEF w

LEMMA EncodeMarshalerFollows ==
  ASSUME IInv, NEW p \in Procs, NEW g, Here(p, g), request[p].max = MaxRecursionDepth, EncodeMarshaler(p)
  PROVE  Continues(p) /\ Off(p)
<1> DEFINE t == Top(p)
           v == t.todo
           w == Head(v).of
           f == Next1(p)
           h == heap[t.b]
           a == Ghost(p, g)
           r == Result(Promise!Encoded[w].bytes, Promise!Encoded[w].err)
<1>1. /\ stack[p] # <<>> /\ t.op = "Marshal" /\ t.pc = "run" /\ t.scratch = {} /\ v # <<>>
      /\ Head(v).kind = "custom" /\ structs' = structs
  BY DEF EncodeMarshaler, Encoding, Runs, Field
<1>2. /\ request[p].op = "Marshal" /\ structs[p] = request[p].into /\ v \in Lists /\ IsSeq(h.buf) /\ a = Finished(h, v)
  BY <1>1, MarshalTop DEF EncodingTop
<1>3. PICK b \in Buffers : Gets(b, <<>>, heap) /\ Calls(p, f, Frame("Marshal", b, w, <<>>))
  BY DEF EncodeMarshaler, Field
<1> DEFINE c == Frame("Marshal", b, w, <<>>)
           h2 == heap'[t.b]
           hs == heap'[b]
<1>4. /\ hs.buf = <<>> /\ hs.err = None /\ hs.max = MaxRecursionDepth /\ b \notin InUse(p)
      /\ (\A d \in Buffers : d # b => heap'[d] = heap[d]) /\ Off(p) /\ Steady(p)
  <2>1. IsHeap(heap)
    BY DEF IInv, HeapOK
  <2> QED
    BY <1>1, <1>3, <2>1, HeapGets
<1>5. t.b \in Buffers /\ t.b \in InUse(p) /\ IsBuffer(h)
  BY <1>1, TopFacts, HeapBuffers
<1>6. h2 = h
  BY <1>4, <1>5
<1>7. /\ f.op = t.op /\ f.b = t.b /\ f.saved = t.saved /\ f.scratch = {} /\ f.todo = Tail(v) /\ f.pc = "run"
  BY <1>1, Next1Is DEF Looks
<1>8. c.op = "Marshal" /\ c.b = b /\ c.scratch = {} /\ c.todo = w /\ c.pc = "run"
  BY DEF Frame
<1>9. Releasing(c) = b /\ BuffersOf(c) = {b} /\ BuffersOf(f) = {t.b} /\ BuffersOf(t) = {t.b}
  BY <1>1, <1>7, <1>8 DEF Releasing, BuffersOf
<1>10. w \in Lists /\ Tail(v) \in Lists
  BY <1>1, <1>2, ListParts
<1>11. r = Finished(hs, w)
  BY <1>4, <1>10, FinishedNew
<1>12. IsSeq(Given(h, r).buf) /\ Finished(Given(h, r), Tail(v)) = Finished(h, v)
  <2> HIDE DEF h, v
  <2>1. r = Result(Promise!Encoded[Head(v).of].bytes, Promise!Encoded[Head(v).of].err)
    BY DEF v
  <2> HIDE DEF r
  <2> QED
    BY <1>1, <1>2, <1>5, <2>1, GivenIs
<1>13. Calls(p, f, c)
  BY <1>3
<1> HIDE DEF f, c, r, a, h2, hs, w
<1>14. Shape(request[p], f, a) /\ Shape(request[p], c, r)
  BY <1>1, <1>2, <1>7, <1>8, <1>10 DEF Shape
<1>15. Linked(p, request[p], heap'[f.b], f, c, a, r)
  <2>1. heap'[f.b] = h
    BY <1>6, <1>7 DEF h2
  <2> HIDE DEF h
  <2> QED
    BY <1>1, <1>2, <1>7, <1>8, <1>12, <2>1 DEF Linked
<1>16. AtTopNow(p, c, r)
  <2>1. EncodingTop(hs, hs, c, r)
    BY <1>4, <1>8, <1>11, SeqOne DEF EncodingTop
  <2> QED
    BY <1>1, <1>2, <1>8, <1>9, <2>1 DEF AtTopNow, AtTop, hs
<1>17. Limited(p, f) /\ Limited(p, c)
  BY <1>1, <1>4, <1>6, <1>9, TopIs DEF Limited, hs, h2
<1>18. Replaces(p, f) /\ BuffersOf(f) = BuffersOf(t) /\ BuffersOf(c) \cap InUse(p) = {}
  BY <1>4, <1>7, <1>9 DEF Replaces
<1> QED
  BY <1>1, <1>4, <1>13, <1>14, <1>15, <1>16, <1>17, <1>18, CallsFollows DEF a

LEMMA ClearFollows ==
  ASSUME IInv, NEW p \in Procs, NEW g, Here(p, g), Clear(p)
  PROVE  Continues(p) /\ Off(p)
<1> DEFINE t == Top(p)
           b == Releasing(t)
           h == heap[t.b]
           x == Cleared(heap[b])
           f == [t EXCEPT !.pc = "put"]
           a == Ghost(p, g)
<1>1. /\ stack[p] # <<>> /\ t.pc = "clear" /\ Becomes(p, f) /\ heap' = [heap EXCEPT ![b] = x] /\ structs' = structs
  BY DEF Clear
<1>2. IsFrame(t) /\ b \in BuffersOf(t) /\ IsBuffer(heap[b]) /\ t.b \in Buffers
  BY <1>1, TopFacts, HeapBuffers
<1>3. IsNew(x) /\ x.max = heap[b].max
  <2> DEFINE o == heap[b]
  <2> HIDE DEF o
  <2>1. IsBuffer(o) => IsNew(Cleared(o)) /\ Cleared(o).max = o.max
    BY BufferChanges DEF Cleared, IsBuffer
  <2> QED
    BY <1>2, <2>1 DEF o
<1>4. /\ f.op = t.op /\ f.b = t.b /\ f.saved = t.saved /\ f.scratch = t.scratch /\ f.todo = t.todo /\ f.pc = "put"
      /\ f.numbers = t.numbers /\ f.result = t.result
  BY <1>2 DEF IsFrame
<1>5. Releasing(f) = b /\ BuffersOf(f) = BuffersOf(t)
  BY <1>4 DEF Releasing, BuffersOf
<1> HIDE DEF x, f, a
<1>6. heap'[b] = x /\ (\A c \in Buffers : c # b => heap'[c] = heap[c]) /\ Off(p) /\ Steady(p)
  <2> HIDE DEF b
  <2> QED
    BY <1>1, <1>2, HeapChanged
<1>7. Shape(request[p], t, a) /\ AtTop(p, request[p], h, heap[b], structs[p], t, a)
  BY <1>1, TopIs DEF a
<1>8. Shape(request[p], f, a)
  BY <1>1, <1>4, <1>7 DEF Shape
<1>9. AtTopNow(p, f, a)
  <2>1. CASE request[p].op = "Marshal"
    <3>1. EncodingTop(h, heap[b], t, a) /\ structs[p] = request[p].into
      BY <1>7, <2>1 DEF AtTop
    <3>2. EncodingTop(heap'[t.b], x, f, a)
      <4>1. IsSeq(x.buf)
        BY <1>3, SeqOne DEF IsNew
      <4>2. CASE t.scratch = {}
        <5>1. heap'[t.b] = x
          BY <1>6, <4>2 DEF Releasing
        <5> QED
          BY <1>1, <1>4, <3>1, <4>1, <4>2, <5>1 DEF EncodingTop
      <4>3. CASE t.scratch # {}
        <5>1. heap'[t.b] = h
          BY <1>1, <1>2, <1>6, <4>3, ScratchIs
        <5> HIDE DEF h, b, t
        <5> QED
          BY <1>1, <1>4, <3>1, <4>1, <4>3, <5>1 DEF EncodingTop
      <4> QED
        BY <4>2, <4>3
    <3> QED
      BY <1>1, <1>4, <1>5, <1>6, <2>1, <3>1, <3>2 DEF AtTopNow, AtTop
  <2>2. CASE request[p].op # "Marshal"
    <3>1. DecodingTop(p, request[p].max, h, structs[p], t, a)
      BY <1>7, <2>2 DEF AtTop
    <3> DEFINE h2 == heap'[f.b]
               o == structs'[p]
               m == request[p].max
    <3>2. o = structs[p]
      BY <1>1
    <3> HIDE DEF h2, o, h, t, m
    <3>3. DecodingTop(p, m, h2, o, f, a)
      BY <1>1, <1>4, <3>1, <3>2 DEF DecodingTop
    <3> QED
      BY <2>2, <3>3 DEF AtTopNow, AtTop, h2, o, m
  <2> QED
    BY <2>1, <2>2
<1>10. Limited(p, f)
  <2>1. \A c \in BuffersOf(t) : heap[c].max = request[p].max /\ c \in Buffers
    BY <1>1, TopIs, TopFacts
  <2> HIDE DEF b, t
  <2> QED
    BY <1>2, <1>3, <1>5, <1>6, <2>1 DEF Limited
<1>11. Replaces(p, f) /\ BuffersOf(f) \cap InUse(p) \subseteq BuffersOf(t)
  BY <1>4, <1>5 DEF Replaces
<1> QED
  BY <1>1, <1>6, <1>8, <1>9, <1>10, <1>11, BecomesFollows DEF a
-----------------------------------------------------------------------------
(* a call returns *)

\* the call below
LEMMA BelowIs ==
  ASSUME IInv, NEW p \in Procs, NEW g, Here(p, g), NEW n \in Nat \ {0}, Len(stack[p]) = n + 1
  PROVE  /\ stack[p] # <<>> /\ Ghost(p, g) = g[n + 1] /\ Top(p) = stack[p][n + 1]
         /\ Linked(p, request[p], heap[stack[p][n].b], stack[p][n], Top(p), g[n], Ghost(p, g))
         /\ Shape(request[p], stack[p][n], g[n]) /\ IsFrame(stack[p][n]) /\ stack[p][n].pc = "run"
         /\ stack[p][n].b \in InUse(p) /\ stack[p][n].b \in Buffers
         /\ heap[stack[p][n].b].max = request[p].max /\ IsBuffer(heap[stack[p][n].b])
<1> DEFINE s == stack[p]
           f == s[n]
<1>1. Good(s) /\ IsSeq(s) /\ InUse(p) = BuffersIn(s) /\ InUse(p) \subseteq Buffers
  BY InUseIs DEF IInv, StackOK, Good
<1>2. s # <<>>
  BY <1>1, StackLen
<1>3. n \in 1..Len(s) /\ n + 1 \in 1..Len(s) /\ n < Len(s)
  OBVIOUS
<1>4. FrameOK(f) /\ f.pc = "run"
  BY <1>1, <1>3 DEF Good
<1>5. Chain(p, s, heap, request[p], g)
  BY DEF Here, Follows
<1>6. Linked(p, request[p], heap[f.b], f, s[n + 1], g[n], g[n + 1]) /\ Shape(request[p], f, g[n])
  BY <1>3, <1>5 DEF Chain
<1>7. f.b \in BuffersIn(s)
  <2>1. f.b \in BuffersOf(s[n])
    BY DEF BuffersOf
  <2> HIDE DEF s, f
  <2> QED
    BY <1>1, <1>3, <2>1, InBuffers
<1>8. heap[f.b].max = request[p].max
  BY <1>5, <1>7 DEF Chain
<1>9. IsBuffer(heap[f.b])
  BY <1>1, <1>7 DEF IInv, HeapOK, IsHeap
<1> QED
  BY <1>1, <1>2, <1>4, <1>6, <1>7, <1>8, <1>9 DEF Top, Ghost, FrameOK

\* What a call that returns r makes of the one below.
Told(f, r) == IF f.op = "Marshal" THEN f ELSE [f EXCEPT !.result.err = r.err]

LEMMA ToldIs ==
  ASSUME NEW f, IsFrame(f), NEW r
  PROVE  /\ Looks(Told(f, r), f.op, f.b, f.scratch, f.pc) /\ Told(f, r).saved = f.saved /\ Told(f, r).at = f.at
         /\ Told(f, r).todo = f.todo /\ Told(f, r).numbers = f.numbers
         /\ f.op # "Marshal" /\ f.result = Promise!Items(<<>>, f.result.err) =>
              Told(f, r).result = Promise!Items(<<>>, Told(f, r).result.err) /\ Told(f, r).result.err = r.err
<1> DEFINE e == r.err
           o == [f EXCEPT !.result.err = e]
<1> HIDE DEF e
<1>1. Looks(o, f.op, f.b, f.scratch, f.pc)
  BY FrameChanges
<1>2. o.saved = f.saved /\ o.at = f.at /\ o.todo = f.todo /\ o.numbers = f.numbers
  BY DEF IsFrame
<1>3. f.result = Promise!Items(<<>>, f.result.err) => o.result = Promise!Items(<<>>, o.result.err) /\ o.result.err = e
  BY DEF IsFrame, Promise!Items
<1>4. Told(f, r) = IF f.op = "Marshal" THEN f ELSE o
  BY DEF Told, e
<1>5. Looks(f, f.op, f.b, f.scratch, f.pc)
  BY DEF Looks
<1> HIDE DEF o
<1> QED
  BY <1>1, <1>2, <1>3, <1>4, <1>5 DEF e

LEMMA DeliverIs ==
  ASSUME IInv, NEW p \in Procs, NEW n \in Nat \ {0}, Len(stack[p]) = n + 1, NEW f, NEW hs, IsHeap(hs),
         stack[p][n].b \in Buffers, Deliver(p, f, hs)
  PROVE  /\ Replace(Below(p), Told(stack[p][n], f.result), stack'[p]) /\ UNCHANGED reply
         /\ stack[p][n].op # "Marshal" => heap' = hs
         /\ stack[p][n].op = "Marshal" =>
              /\ heap'[stack[p][n].b] = Given(hs[stack[p][n].b], f.result)
              /\ \A c \in Buffers : c # stack[p][n].b => heap'[c] = hs[c]
<1> DEFINE s == stack[p]
           t == Below(p)
           u == s[n]
           r == f.result
           v == Told(u, r)
           b == u.b
           x == IF u.op # "Marshal" THEN hs[b] ELSE Given(hs[b], r)
<1>1. IsSeq(s) /\ s # <<>> /\ Len(s) - 1 = n
  BY StackLen DEF IInv, StackOK, Good
<1>2. Pop(s, t)
  BY <1>1, Popped DEF Below
<1>3. IsSeq(t) /\ Len(t) = n /\ t # <<>>
  BY <1>2, StackLen DEF Pop
<1>4. /\ stack' = [stack EXCEPT ![p] = [t EXCEPT ![n] = IF u.op = "Marshal" THEN u ELSE [u EXCEPT !.result.err = r.err]]]
      /\ heap' = [hs EXCEPT ![b] = IF u.op # "Marshal" THEN @
                                   ELSE IF r.err # None THEN noteError(@, r.err)
                                   ELSE IF r.bytes = <<>> THEN @ ELSE Put(@, <<Custom(r.bytes)>>)]
      /\ UNCHANGED reply
  <2> HIDE DEF s, t
  <2> QED
    BY <1>1, <1>3 DEF Deliver, s, t
<1>5. stack' = [stack EXCEPT ![p] = [t EXCEPT ![n] = v]]
  BY <1>4 DEF Told
<1>6. heap' = [hs EXCEPT ![b] = x]
  BY <1>4 DEF Given
<1> HIDE DEF v, x, t
<1>7. stack'[p] = [t EXCEPT ![n] = v]
  BY <1>5 DEF IInv, StackOK
<1>8. Replace(t, v, stack'[p])
  <2> DEFINE w == [t EXCEPT ![Len(t)] = v]
  <2>1. stack'[p] = w
    BY <1>3, <1>7
  <2>2. Replace(t, v, w)
    BY <1>3, Excepted
  <2> HIDE DEF w
  <2> QED
    BY <2>1, <2>2
<1>9. heap'[b] = x /\ \A c \in Buffers : c # b => heap'[c] = hs[c]
  BY <1>6 DEF IsHeap
<1>10. u.op # "Marshal" => heap' = hs
  <2>1. IsHeap(hs) /\ b \in Buffers
    OBVIOUS
  <2> HIDE DEF u, b
  <2> QED
    BY <1>6, <2>1 DEF x, IsHeap
<1>11. u.op = "Marshal" => heap'[b] = Given(hs[b], r)
  BY <1>9 DEF x
<1> QED
  BY <1>4, <1>8, <1>9, <1>10, <1>11 DEF v, t

\* Marshal returns to a field that marshals itself.
LEMMA MarshalReturns ==
  ASSUME IInv, NEW p \in Procs, NEW g, Here(p, g), NEW n \in Nat \ {0}, Len(stack[p]) = n + 1, request[p].op = "Marshal",
         Top(p).pc = "put", Top(p).scratch = {}, Deliver(p, Top(p), heap), structs' = structs
  PROVE  Continues(p) /\ Off(p)
<1> DEFINE t == Top(p)
           u == stack[p][n]
           h == heap[u.b]
           h2 == heap'[u.b]
           b == Ghost(p, g)
           a == g[n]
<1>1. /\ stack[p] # <<>> /\ Linked(p, request[p], h, u, t, a, b) /\ Shape(request[p], u, a) /\ IsFrame(u)
      /\ u.pc = "run" /\ u.b \in InUse(p) /\ u.b \in Buffers /\ h.max = request[p].max /\ IsBuffer(h)
  BY BelowIs
<1>2. u.op = "Marshal" /\ t.op = "Marshal"
  BY <1>1, TopIs DEF Shape
<1>3. structs[p] = request[p].into /\ b = t.result
  BY <1>1, <1>2, MarshalTop DEF EncodingTop
<1>4. u.scratch = {} /\ IsSeq(h.buf) /\ a = Finished(Given(h, b), u.todo)
  BY <1>1 DEF Linked
<1>5. Replace(Below(p), u, stack'[p]) /\ h2 = Given(h, t.result) /\ \A c \in Buffers : c # u.b => heap'[c] = heap[c]
  <2>1. IsHeap(heap)
    BY DEF IInv, HeapOK
  <2>2. Told(u, t.result) = u
    BY <1>2 DEF Told
  <2> QED
    BY <1>1, <1>2, <2>1, <2>2, DeliverIs
<1> HIDE DEF t, u, a, b
<1>6. IsSeq(h2.buf) /\ h2.max = h.max
  <2> DEFINE r == t.result
  <2>1. h2 = Given(h, r)
    BY <1>5
  <2> HIDE DEF r, h, h2
  <2>2. CASE r.err # None
    <3>1. h2 = noteError(h, r.err)
      BY <2>1, <2>2 DEF Given
    <3> QED
      BY <1>1, <1>4, <3>1, PutIs
  <2>3. CASE r.err = None /\ r.bytes = <<>>
    BY <1>4, <2>1, <2>3 DEF Given
  <2>4. CASE r.err = None /\ r.bytes # <<>>
    <3> DEFINE y == <<Custom(r.bytes)>>
    <3>1. h2 = Put(h, y)
      BY <2>1, <2>4 DEF Given
    <3>2. IsSeq(y)
      BY SeqOne
    <3> HIDE DEF y
    <3>3. h2.buf = h.buf \o y /\ h2.max = h.max
      BY <1>1, <3>1, PutGives
    <3> QED
      BY <1>4, <3>2, <3>3, SeqJoined
  <2> QED
    BY <2>2, <2>3, <2>4
<1>7. EncodingTop(h2, h2, u, a)
  BY <1>1, <1>3, <1>4, <1>5, <1>6 DEF EncodingTop
<1>8. Releasing(u) = u.b /\ BuffersOf(u) = {u.b}
  BY <1>4 DEF Releasing, BuffersOf
<1>9. AtTopNow(p, u, a)
  BY <1>3, <1>7, <1>8 DEF AtTopNow, AtTop
<1>10. Limited(p, u)
  BY <1>1, <1>6, <1>8 DEF Limited
<1>11. InUse(p) \subseteq Buffers /\ \A q \in Procs : q # p => InUse(q) \subseteq Buffers /\ u.b \notin InUse(q)
  BY <1>1 DEF IInv, StackOK, Disjoint
<1>12. Off(p)
  BY <1>5, <1>11 DEF Off
<1>13. \A c \in InUse(p) : c # u.b /\ c \notin BuffersOf(Top(p)) => heap'[c] = heap[c]
  BY <1>5, <1>11
<1>14. Continues(p)
  BY <1>1, <1>4, <1>5, <1>9, <1>10, <1>13, ReturnsFollows DEF u, a
<1> QED
  BY <1>12, <1>14

\* Unmarshal, or a decoder within it, returns to one that decodes.
LEMMA DecoderReturns ==
  ASSUME IInv, NEW p \in Procs, NEW g, Here(p, g), NEW n \in Nat \ {0}, Len(stack[p]) = n + 1, request[p].op # "Marshal",
         NEW f, NEW hs, IsHeap(hs), Deliver(p, f, hs), structs' = structs,
         \A c \in Buffers : c \notin BuffersOf(Top(p)) => hs[c] = heap[c],
         hs[stack[p][n].b].max = request[p].max,
         DecodingTop(p, request[p].max, hs[stack[p][n].b], structs[p], Told(stack[p][n], f.result), g[n])
  PROVE  Continues(p) /\ Off(p)
<1> DEFINE u == stack[p][n]
           v == Told(u, f.result)
           a == g[n]
<1>1. /\ stack[p] # <<>> /\ Linked(p, request[p], heap[u.b], u, Top(p), a, Ghost(p, g)) /\ Shape(request[p], u, a) /\ IsFrame(u)
      /\ u.pc = "run" /\ u.b \in InUse(p) /\ u.b \in Buffers
  BY BelowIs
<1>2. /\ u.op \in {"Unmarshal", "message", "duration"} /\ u.scratch = {} /\ u.op # "duration"
      /\ u.result = Promise!Items(<<>>, u.result.err) /\ a.depth \in Nat \ {0} /\ a.outcome \in Promise!Outcomes
  BY <1>1 DEF Shape, Linked
<1>3. Replace(Below(p), v, stack'[p]) /\ heap' = hs
  BY <1>1, <1>2, DeliverIs
<1>4. /\ v.op = u.op /\ v.b = u.b /\ v.scratch = {} /\ v.saved = u.saved /\ v.pc = "run"
      /\ v.result = Promise!Items(<<>>, v.result.err)
  BY <1>1, <1>2, ToldIs DEF Looks
<1>5. Releasing(v) = u.b /\ BuffersOf(v) = {u.b}
  BY <1>4 DEF Releasing, BuffersOf
<1> HIDE DEF v, a, u
<1>6. Shape(request[p], v, a)
  BY <1>2, <1>4 DEF Shape
<1>7. AtTopNow(p, v, a)
  BY <1>3, <1>4 DEF AtTopNow, AtTop, u, v, a
<1>8. Limited(p, v)
  BY <1>3, <1>5 DEF Limited, u
<1>9. InUse(p) \subseteq Buffers /\ \A q \in Procs : q # p => InUse(q) \subseteq Buffers /\ InUse(q) \cap InUse(p) = {}
  BY DEF IInv, StackOK, Disjoint
<1>10. BuffersOf(Top(p)) \subseteq InUse(p)
  BY <1>1, TopFacts
<1>11. Off(p)
  BY <1>3, <1>9, <1>10 DEF Off
<1>12. \A c \in InUse(p) : c # v.b /\ c \notin BuffersOf(Top(p)) => heap'[c] = heap[c]
  BY <1>3, <1>9
<1>13. Continues(p)
  BY <1>3, <1>4, <1>6, <1>7, <1>8, <1>12, ReturnsFollows DEF u, a
<1> QED
  BY <1>11, <1>13

LEMMA ComesSame ==
  ASSUME NEW f, NEW e, f.at = e.at, NEW max, NEW items, NEW depth, NEW into, NEW counts, NEW err, NEW o,
         ComesTo(f, max, items, depth, into, counts, err, o)
  PROVE  ComesTo(e, max, items, depth, into, counts, err, o)
BY DEF ComesTo, Decoder

\* ... from a call that had a Buffer of its own
LEMMA OwnReturns ==
  ASSUME IInv, NEW p \in Procs, NEW g, Here(p, g), NEW n \in Nat \ {0}, Len(stack[p]) = n + 1, request[p].op # "Marshal",
         Top(p).op # "message", NEW f, NEW hs, IsHeap(hs), Deliver(p, f, hs), structs' = structs,
         \A c \in Buffers : c \notin BuffersOf(Top(p)) => hs[c] = heap[c],
         Ghost(p, g).outcome.into = structs[p], Ghost(p, g).outcome.err = f.result.err
  PROVE  Continues(p) /\ Off(p)
<1> DEFINE u == stack[p][n]
           v == Told(u, f.result)
           h == heap[u.b]
           a == g[n]
           b == Ghost(p, g)
           st == structs[p]
           max == request[p].max
           t == Top(p)
<1>1. /\ stack[p] # <<>> /\ Linked(p, request[p], h, u, t, a, b) /\ Shape(request[p], u, a) /\ IsFrame(u)
      /\ u.pc = "run" /\ u.b \in InUse(p) /\ u.b \in Buffers /\ h.max = max
  BY BelowIs
<1>2. /\ u.op # "Marshal" /\ u.op # "duration" /\ u.result = Promise!Items(<<>>, u.result.err) /\ a.depth \in Nat
  BY <1>1 DEF Shape, Linked
<1>3. /\ Reads(h) /\ Indexes(h) /\ h.depth = a.depth
      /\ ComesTo(u, max, Left(h), a.depth, b.outcome.into, FilledIn(p, h), b.outcome.err, a.outcome)
  BY <1>1 DEF Linked
<1>4. v.op = u.op /\ v.pc = "run" /\ v.at = u.at /\ v.result.err = f.result.err
  BY <1>1, <1>2, ToldIs DEF Looks
<1>5. hs[u.b] = h
  <2> DEFINE s == stack[p]
  <2>1. Good(s) /\ Len(s) = n + 1 /\ t = s[n + 1] /\ s # <<>>
    BY <1>1, BelowIs DEF IInv, StackOK
  <2>2. BuffersOf(s[n]) \cap BuffersOf(t) = {}
    <3>1. s[Len(s)].op # "message" /\ n \in 1..(Len(s) - 1)
      BY <2>1
    <3> HIDE DEF s
    <3> QED
      BY <2>1, <3>1, TopApart
  <2>3. u.b \in BuffersOf(u)
    BY DEF BuffersOf
  <2>4. u.b \notin BuffersOf(t)
    BY <2>2, <2>3
  <2> QED
    BY <1>1, <2>4
<1> HIDE DEF v
<1>6. ComesTo(v, max, Left(h), a.depth, st, FilledIn(p, h), v.result.err, a.outcome)
  <2>1. ComesTo(u, max, Left(h), a.depth, st, FilledIn(p, h), v.result.err, a.outcome)
    BY <1>3, <1>4
  <2> HIDE DEF u, h, a, st, max
  <2> QED
    BY <1>4, <2>1, ComesSame
<1>7. DecodingTop(p, max, h, st, v, a)
  <2> HIDE DEF u, h, a, st, max
  <2>1. h.depth >= a.depth /\ h.depth \in Nat
    BY <1>2, <1>3
  <2> QED
    BY <1>2, <1>3, <1>4, <1>6, <2>1 DEF DecodingTop
<1>8. hs[u.b].max = max
  BY <1>1, <1>5
<1> QED
  BY <1>5, <1>7, <1>8, DecoderReturns DEF v

\* h with other bytes
Narrowed(x, h, buf, index) ==
  /\ x.buf = buf /\ x.index = index /\ x.depth = h.depth /\ x.max = h.max
  /\ x.array_indexes = h.array_indexes /\ IsBuffer(x)

LEMMA NarrowedIs ==
  ASSUME NEW h, IsBuffer(h), NEW y, NEW z
  PROVE  Narrowed([h EXCEPT !.buf = y, !.index = z], h, y, z)
<1>1. IsBuffer([h EXCEPT !.buf = y, !.index = z])
  BY BufferChanges
<1> QED
  BY <1>1 DEF IsBuffer, Narrowed

\* ... from a message, whose Buffer is that of the call below
LEMMA MessageReturns ==
  ASSUME IInv, NEW p \in Procs, NEW g, Here(p, g), NEW n \in Nat \ {0}, Len(stack[p]) = n + 1, request[p].op # "Marshal",
         Top(p).op = "message", NEW f, f.saved = Top(p).saved, NEW h, IsBuffer(h), h.max = request[p].max,
         Deliver(p, f, [heap EXCEPT ![Top(p).b] = [h EXCEPT !.buf = f.saved.buf, !.index = f.saved.index]]), structs' = structs,
         Indexes(h), h.depth \in Nat, h.depth >= g[n].depth, f.result.err = None => h.depth = g[n].depth,
         Ghost(p, g).outcome.into = structs[p], Ghost(p, g).outcome.err = f.result.err,
         Ghost(p, g).outcome.counts = FilledIn(p, h)
  PROVE  Continues(p) /\ Off(p)
<1> DEFINE u == stack[p][n]
           v == Told(u, f.result)
           a == g[n]
           b == Ghost(p, g)
           st == structs[p]
           max == request[p].max
           t == Top(p)
           x == [h EXCEPT !.buf = f.saved.buf, !.index = f.saved.index]
           hs == [heap EXCEPT ![t.b] = x]
<1>1. /\ stack[p] # <<>> /\ Linked(p, request[p], heap[u.b], u, t, a, b) /\ Shape(request[p], u, a) /\ IsFrame(u)
      /\ u.pc = "run" /\ u.b \in InUse(p) /\ u.b \in Buffers
  BY BelowIs
<1>2. /\ u.op # "Marshal" /\ u.op # "duration" /\ u.result = Promise!Items(<<>>, u.result.err) /\ a.depth \in Nat
  BY <1>1 DEF Shape, Linked
<1>3. /\ t.b = u.b /\ Reads(t.saved)
      /\ ComesTo(u, max, Left(t.saved), a.depth, b.outcome.into, b.outcome.counts, b.outcome.err, a.outcome)
  BY <1>1 DEF Linked
<1>4. v.op = u.op /\ v.pc = "run" /\ v.at = u.at /\ v.result.err = f.result.err
  BY <1>1, <1>2, ToldIs DEF Looks
<1>5. /\ x.buf = t.saved.buf /\ x.index = t.saved.index /\ x.depth = h.depth /\ x.max = h.max
      /\ x.array_indexes = h.array_indexes /\ IsBuffer(x)
  <2>1. Narrowed(x, h, f.saved.buf, f.saved.index)
    BY NarrowedIs
  <2> HIDE DEF x
  <2> QED
    BY <2>1 DEF Narrowed
<1>6. IsHeap(hs) /\ hs[u.b] = x /\ \A c \in Buffers : c \notin BuffersOf(t) => hs[c] = heap[c]
  <2>1. IsHeap(heap)
    BY DEF IInv, HeapOK
  <2>2. t.b \in BuffersOf(t)
    BY DEF BuffersOf
  <2> HIDE DEF x, t, u
  <2> QED
    BY <1>1, <1>3, <1>5, <2>1, <2>2 DEF IsHeap
<1>7. Deliver(p, f, hs)
  OBVIOUS
<1> HIDE DEF v, x, hs
<1>8. Reads(x) /\ Left(x) = Left(t.saved)
  BY <1>3, <1>5 DEF Reads, Left
<1>9. Indexes(x) /\ FilledIn(p, x) = FilledIn(p, h)
  BY <1>5 DEF Indexes, FilledIn
<1>10. ComesTo(v, max, Left(x), a.depth, st, FilledIn(p, x), v.result.err, a.outcome)
  <2>1. ComesTo(u, max, Left(x), a.depth, st, FilledIn(p, x), v.result.err, a.outcome)
    BY <1>3, <1>4, <1>8, <1>9
  <2> HIDE DEF u, a, st, max
  <2> QED
    BY <1>4, <2>1, ComesSame
<1>11. DecodingTop(p, max, x, st, v, a)
  <2>1. x.depth >= a.depth /\ (v.result.err = None => x.depth = a.depth) /\ x.depth \in Nat
    BY <1>4, <1>5
  <2> HIDE DEF u, a, st, max
  <2> QED
    BY <1>2, <1>4, <1>8, <1>9, <1>10, <2>1 DEF DecodingTop
<1>12. hs[u.b].max = max
  BY <1>5, <1>6
<1> QED
  BY <1>6, <1>7, <1>11, <1>12, DecoderReturns DEF v

LEMMA StackIsLong ==
  ASSUME IInv, NEW p \in Procs, stack[p] # <<>>
  PROVE  /\ Len(stack[p]) \in Nat \ {0}
         /\ Below(p) = <<>> <=> Len(stack[p]) = 1
<1> DEFINE s == stack[p]
<1>1. IsSeq(s)
  BY DEF IInv, StackOK, Good
<1>2. Len(s) \in Nat \ {0}
  BY <1>1, StackLen
<1>3. Pop(s, Below(p))
  BY <1>1, Popped DEF Below
<1>4. Below(p) = <<>> <=> Len(Below(p)) = 0
  BY <1>3, StackLen DEF Pop
<1> QED
  BY <1>2, <1>3, <1>4 DEF Pop

LEMMA PutBackFollows ==
  ASSUME IInv, NEW p \in Procs, NEW g, Here(p, g), PutBack(p), Top(p).scratch # {} \/ Len(stack[p]) # 1
  PROVE  Continues(p) /\ Off(p) /\ reply' = reply
<1> DEFINE t == Top(p)
<1>1. stack[p] # <<>> /\ t.pc = "put" /\ structs' = structs
  BY DEF PutBack
<1>2. CASE t.scratch # {}
  <2> DEFINE b == Releasing(t)
             h == heap[t.b]
             e == [t EXCEPT !.scratch = {}]
             f == [e EXCEPT !.pc = "run"]
             a == Ghost(p, g)
  <2>1. Becomes(p, f) /\ heap' = heap /\ reply' = reply
    BY <1>2 DEF PutBack, WithoutScratch
  <2>2. t.op = "Marshal" /\ BuffersOf(t) = {t.b, b}
    BY <1>1, <1>2, ScratchIs
  <2>3. /\ request[p].op = "Marshal" /\ structs[p] = request[p].into /\ t.todo \in Lists
        /\ EncodingTop(h, heap[b], t, a)
    BY <1>1, <2>2, MarshalTop
  <2>4. /\ f.op = t.op /\ f.b = t.b /\ f.saved = t.saved /\ f.scratch = {} /\ f.todo = t.todo /\ f.pc = "run"
    <3>1. IsFrame(t)
      BY <1>1, TopFacts
    <3> HIDE DEF t
    <3> QED
      BY <3>1 DEF IsFrame
  <2>5. Releasing(f) = f.b /\ BuffersOf(f) = {t.b}
    BY <2>4 DEF Releasing, BuffersOf
  <2>6. IsSeq(h.buf) /\ a = Finished(h, t.todo)
    BY <1>1, <1>2, <2>3 DEF EncodingTop
  <2> HIDE DEF b, f, a
  <2>7. EncodingTop(h, h, f, a)
    BY <2>4, <2>6 DEF EncodingTop
  <2>8. Shape(request[p], f, a)
    BY <2>2, <2>3, <2>4 DEF Shape
  <2>9. AtTopNow(p, f, a)
    BY <1>1, <2>1, <2>3, <2>4, <2>5, <2>7 DEF AtTopNow, AtTop
  <2>10. Limited(p, f)
    BY <1>1, <2>1, <2>2, <2>5, TopIs DEF Limited
  <2>11. Off(p) /\ Steady(p)
    BY <2>1, HeapSame
  <2>12. Replaces(p, f) /\ BuffersOf(f) \cap InUse(p) \subseteq BuffersOf(t)
    BY <2>2, <2>4, <2>5 DEF Replaces
  <2> QED
    BY <1>1, <2>1, <2>8, <2>9, <2>10, <2>11, <2>12, BecomesFollows DEF a
<1>3. CASE t.scratch = {}
  <2>1. Len(stack[p]) # 1 /\ Deliver(p, t, heap) /\ IsHeap(heap)
    BY <1>3 DEF PutBack, IInv, HeapOK
  <2> DEFINE n == Len(stack[p]) - 1
  <2>2. n \in Nat \ {0} /\ Len(stack[p]) = n + 1
    BY <1>1, <2>1, StackIsLong
  <2>3. reply' = reply
    <3>1. Below(p) # <<>>
      BY <1>1, <2>1, StackIsLong
    <3> QED
      BY <2>1, <3>1 DEF Deliver
  <2> HIDE DEF n
  <2>4. CASE request[p].op = "Marshal"
    BY <1>1, <1>3, <2>1, <2>2, <2>3, <2>4, MarshalReturns
  <2>5. CASE request[p].op # "Marshal"
    <3>1. DecodingTop(p, request[p].max, heap[t.b], structs[p], t, Ghost(p, g))
      BY <1>1, <2>5, TopIs DEF AtTop
    <3>2. Ghost(p, g).outcome.into = structs[p] /\ Ghost(p, g).outcome.err = t.result.err
      BY <1>1, <3>1 DEF DecodingTop
    <3>3. t.op # "message"
      BY <1>1, TopFacts DEF FrameOK
    <3> QED
      BY <1>1, <2>1, <2>2, <2>3, <2>5, <3>2, <3>3, OwnReturns
  <2> QED
    BY <2>4, <2>5
<1> QED
  BY <1>2, <1>3

\* The call of the client returns what is promised.
LEMMA PutBackAnswers ==
  ASSUME IInv, NEW p \in Procs, NEW g, Here(p, g), PutBack(p), Top(p).scratch = {}, Len(stack[p]) = 1
  PROVE  /\ stack' = [stack EXCEPT ![p] = <<>>] /\ heap' = heap
         /\ reply' = [reply EXCEPT ![p] = {Promise!Answer(request[p])}]
<1> DEFINE t == Top(p)
           r == request[p]
           x == t.result
           a == Ghost(p, g)
           st == structs[p]
<1>1. stack[p] # <<>> /\ t.pc = "put" /\ Below(p) = <<>>
  <2>1. stack[p] # <<>> /\ t.pc = "put"
    BY DEF PutBack
  <2> QED
    BY <2>1, StackIsLong
<1>2. /\ stack' = [stack EXCEPT ![p] = <<>>] /\ heap' = heap
      /\ reply' = [reply EXCEPT ![p] = {[bytes |-> x.bytes, err |-> x.err, struct |-> st]}]
  BY <1>1 DEF PutBack, Deliver
<1>3. Asked(r, t, a)
  BY DEF Here, Follows, Chain, Top, Ghost
<1>4. Shape(r, t, a) /\ AtTop(p, r, heap[t.b], heap[Releasing(t)], st, t, a)
  BY <1>1, TopIs
<1>5. CASE r.op = "Marshal"
  <2> DEFINE y == Promise!Marshaled(r)
  <2>1. Promise!Answer(r) = y
    BY <1>5 DEF Promise!Answer
  <2>2. y = [bytes |-> y.bytes, err |-> y.err, struct |-> r.into]
    BY DEF Promise!Marshaled
  <2>3. a = Promise!Items(y.bytes, y.err)
    BY <1>3, <1>5 DEF Asked
  <2> HIDE DEF y, x
  <2>4. st = r.into /\ a = x
    BY <1>1, <1>4, <1>5 DEF AtTop, EncodingTop, x
  <2>5. x.bytes = y.bytes /\ x.err = y.err
    BY <2>3, <2>4 DEF Promise!Items
  <2> QED
    BY <1>2, <2>1, <2>2, <2>4, <2>5 DEF x
<1>6. CASE r.op # "Marshal"
  <2> DEFINE y == Promise!Unmarshaled(r)
  <2>1. Promise!Answer(r) = y
    BY <1>6 DEF Promise!Answer
  <2>2. y = [bytes |-> <<>>, err |-> y.err, struct |-> y.struct]
    BY DEF Promise!Unmarshaled
  <2>3. a.outcome.into = y.struct /\ a.outcome.err = y.err
    BY <1>3, <1>6 DEF Asked
  <2> HIDE DEF y, x
  <2>4. a.outcome.into = st /\ a.outcome.err = x.err /\ x = Promise!Items(<<>>, x.err)
    BY <1>1, <1>4, <1>6 DEF AtTop, DecodingTop, Shape, x
  <2>5. x.bytes = <<>>
    BY <2>4 DEF Promise!Items
  <2> QED
    BY <1>2, <2>1, <2>2, <2>3, <2>4, <2>5 DEF x
<1> QED
  BY <1>5, <1>6
-----------------------------------------------------------------------------
(* what Unmarshal comes to *)

LEMMA DecoderIs ==
  ASSUME NEW f, NEW max, NEW items, NEW depth, NEW into, NEW counts, NEW err,
         IsDecoder(Decoder(f, max, items, depth, into, counts, err))
  PROVE  /\ items \in Lists /\ depth \in Nat /\ max \in Nat /\ into \in Promise!Arrays /\ counts \in Promise!Counts
         /\ f.at \in Seq({"message", "custom"}) /\ err \in {None, "too deep", "bad"}
<1> DEFINE d == Decoder(f, max, items, depth, into, counts, err)
           S == Seq({"message", "custom"})
           E == {Promise!None, "too deep", "bad"}
           A == Promise!Arrays
           C == Promise!Counts
<1>1. d \in [items : Lists, at : S, depth : Nat, max : Nat, into : A, counts : C, err : E]
  BY DEF IsDecoder, Promise!Decoders
<1>2. /\ d.items = items /\ d.at = f.at /\ d.depth = depth /\ d.max = max /\ d.into = into /\ d.counts = counts
      /\ d.err = err
  BY DEF Decoder
<1> HIDE DEF d, S, E, A, C
<1>3. items \in Lists /\ depth \in Nat /\ max \in Nat /\ into \in A /\ counts \in C /\ f.at \in S /\ err \in E
  BY <1>1, <1>2
<1> QED
  BY <1>3, NonesAreOne DEF S, E, A, C

LEMMA IsADecoder ==
  ASSUME NEW f, NEW max \in Nat, NEW items \in Lists, NEW depth \in Nat, NEW into \in Promise!Arrays,
         NEW counts \in Promise!Counts, NEW err \in {None, "too deep", "bad"}, f.at \in Seq({"message", "custom"})
  PROVE  IsDecoder(Decoder(f, max, items, depth, into, counts, err))
<1> DEFINE S == Seq({"message", "custom"})
           E == {Promise!None, "too deep", "bad"}
           A == Promise!Arrays
           C == Promise!Counts
           d == [items |-> items, at |-> f.at, depth |-> depth, max |-> max, into |-> into, counts |-> counts, err |-> err]
<1>1. f.at \in S /\ into \in A /\ counts \in C /\ err \in E
  BY NonesAreOne
<1> HIDE DEF S, E, A, C
<1>2. d \in [items : Lists, at : S, depth : Nat, max : Nat, into : A, counts : C, err : E]
  BY <1>1
<1> QED
  BY <1>2 DEF IsDecoder, Promise!Decoders, Decoder, S, E, A, C

\* Nothing is left, or there is an error.
LEMMA ComesEnd ==
  ASSUME NEW f, NEW max, NEW items, NEW depth, NEW into, NEW counts, NEW err, NEW o,
         ComesTo(f, max, items, depth, into, counts, err, o), items = <<>> \/ err # None
  PROVE  o.into = into /\ o.counts = counts /\ o.err = err
<1> DEFINE d == Decoder(f, max, items, depth, into, counts, err)
<1>1. IsDecoder(d) /\ o = Promise!Decoded[d]
  BY DEF ComesTo
<1>2. d.items = items /\ d.into = into /\ d.counts = counts /\ d.err = err
  BY DEF Decoder
<1> HIDE DEF d
<1>3. o = DecodedBy(Promise!Decoded, d)
  BY <1>1, DecodedIs
<1>4. o = Ended(d)
  BY <1>2, <1>3, NonesAreOne DEF DecodedBy
<1> QED
  BY <1>2, <1>4 DEF Ended

LEMMA ComesOutcome ==
  ASSUME NEW f, NEW max, NEW items, NEW depth, NEW into, NEW counts, NEW err, NEW o,
         ComesTo(f, max, items, depth, into, counts, err, o)
  PROVE  o \in Promise!Outcomes
BY DecodedIs DEF ComesTo, DecodesAll, IsDecoder

\* the outcomes of the lists within the first item
InMessage(f, max, items, depth, into, counts) ==
  Promise!Decoded[Promise!MessageIn(Decoder(f, max, items, depth, into, counts, None))]

InCustom(f, max, items, depth, into, counts) ==
  Promise!Decoded[Promise!CustomIn(Decoder(f, max, items, depth, into, counts, None))]

NextDecoder(f, max, items, depth, into, counts) ==
  Promise!After(Decoder(f, max, items, depth, into, counts, None),
                InMessage(f, max, items, depth, into, counts), InCustom(f, max, items, depth, into, counts))

LEMMA ComesNext ==
  ASSUME NEW f, NEW max, NEW items, NEW depth, NEW into, NEW counts, NEW o,
         ComesTo(f, max, items, depth, into, counts, None, o), items # <<>>
  PROVE  /\ IsDecoder(NextDecoder(f, max, items, depth, into, counts))
         /\ o = Promise!Decoded[NextDecoder(f, max, items, depth, into, counts)]
         /\ IsOutcome(InMessage(f, max, items, depth, into, counts)) /\ IsOutcome(InCustom(f, max, items, depth, into, counts))
<1> DEFINE d == Decoder(f, max, items, depth, into, counts, None)
           m == Promise!MessageIn(d)
           c == Promise!CustomIn(d)
<1>1. IsDecoder(d) /\ o = Promise!Decoded[d]
  BY DEF ComesTo
<1>2. d.items = items /\ d.err = None
  BY DEF Decoder
<1> HIDE DEF d
<1>3. IsDecoder(m) /\ IsDecoder(c)
  BY <1>1, <1>2, MessageInIs, CustomInIs DEF IsNested
<1> HIDE DEF m, c
<1> DEFINE in == Promise!Decoded[m]
           self == Promise!Decoded[c]
<1>4. IsOutcome(in) /\ IsOutcome(self)
  BY <1>3, DecodedIs DEF DecodesAll, IsDecoder, IsOutcome
<1>5. o = Promise!Decoded[Promise!After(d, in, self)]
  <2>1. o = DecodedBy(Promise!Decoded, d)
    BY <1>1, DecodedIs
  <2> QED
    BY <1>2, <2>1, NonesAreOne DEF DecodedBy, m, c
<1>6. IsDecoder(Promise!After(d, in, self))
  <2> HIDE DEF in, self
  <2> QED
    BY <1>1, <1>2, <1>4, AfterIs
<1> QED
  BY <1>4, <1>5, <1>6 DEF NextDecoder, InMessage, InCustom, d, m, c
\* what becomes of a decoder
DecoderFields == {"items", "at", "depth", "max", "into", "counts", "err"}

IsFields(d) == d = [x \in DecoderFields |-> d[x]]

LEMMA SameFields ==
  ASSUME NEW d, NEW e, IsFields(d), IsFields(e), \A x \in DecoderFields : d[x] = e[x]
  PROVE  d = e
<1>1. [x \in DecoderFields |-> d[x]] = [x \in DecoderFields |-> e[x]]
  OBVIOUS
<1> QED
  BY <1>1 DEF IsFields

LEMMA DecoderFieldsAre ==
  ASSUME NEW f, NEW max, NEW items, NEW depth, NEW into, NEW counts, NEW err
  PROVE  /\ IsFields(Decoder(f, max, items, depth, into, counts, err))
         /\ Decoder(f, max, items, depth, into, counts, err).items = items
         /\ Decoder(f, max, items, depth, into, counts, err).at = f.at
         /\ Decoder(f, max, items, depth, into, counts, err).depth = depth
         /\ Decoder(f, max, items, depth, into, counts, err).max = max
         /\ Decoder(f, max, items, depth, into, counts, err).into = into
         /\ Decoder(f, max, items, depth, into, counts, err).counts = counts
         /\ Decoder(f, max, items, depth, into, counts, err).err = err
BY DEF Decoder, IsFields, DecoderFields

LEMMA Stores ==
  ASSUME NEW f, NEW max, NEW items, NEW depth, NEW into, NEW counts, NEW err, NEW x
  PROVE  Promise!Stored(Decoder(f, max, items, depth, into, counts, err), x) =
           IF f.at \in Paths /\ counts[f.at] < ArrayLen
           THEN Decoder(f, max, items, depth, [into EXCEPT ![f.at][counts[f.at] + 1] = x], [counts EXCEPT ![f.at] = @ + 1], err)
           ELSE Decoder(f, max, items, depth, into, counts, err)
<1> DEFINE d == Decoder(f, max, items, depth, into, counts, err)
           at == f.at
           i == counts[at]
           y == [into EXCEPT ![at][i + 1] = x]
           z == [counts EXCEPT ![at] = i + 1]
           e == Decoder(f, max, items, depth, y, z, err)
<1>1. IsFields(d) /\ d.items = items /\ d.at = at /\ d.depth = depth /\ d.max = max /\ d.into = into /\ d.counts = counts /\ d.err = err
  BY DecoderFieldsAre
<1>2. IsFields(e) /\ e.items = items /\ e.at = at /\ e.depth = depth /\ e.max = max /\ e.into = y /\ e.counts = z /\ e.err = err
  <2> HIDE DEF y, z
  <2> QED
    BY DecoderFieldsAre
<1>3. [d EXCEPT !.into = y, !.counts = z] = e
  <2> HIDE DEF d, e, y, z, at
  <2> QED
    BY <1>1, <1>2 DEF IsFields, DecoderFields
<1>4. [d EXCEPT !.into[d.at][d.counts[d.at] + 1] = x, !.counts[d.at] = @ + 1] = [d EXCEPT !.into = y, !.counts = z]
  <2> HIDE DEF d
  <2> QED
    BY <1>1
<1>5. Promise!Stored(d, x) = IF at \in Paths /\ i < ArrayLen THEN e ELSE d
  <2> HIDE DEF d, e
  <2> QED
    BY <1>1, <1>3, <1>4 DEF Promise!Stored
<1> QED
  BY <1>5

LEMMA AfterItem ==
  ASSUME NEW f, NEW max, NEW items, NEW depth, NEW into, NEW counts, NEW in, NEW self
  PROVE  LET a == Promise!After(Decoder(f, max, items, depth, into, counts, None), in, self)
             rest == Tail(items)
             item == Head(items)
         IN  /\ item.kind = "number" => a = Promise!Stored(Decoder(f, max, rest, depth, into, counts, None), item.x)
             /\ item.kind = "message" => a = Decoder(f, max, rest, depth, in.into, in.counts, in.err)
             /\ item.kind = "custom" => a = Decoder(f, max, rest, depth, self.into, counts, self.err)
             /\ item.kind = "duration" /\ Promise!AllNumbers(item.of) => a = Decoder(f, max, rest, depth, into, counts, None)
             /\ item.kind \notin {"number", "message", "custom"} /\ ~(item.kind = "duration" /\ Promise!AllNumbers(item.of)) =>
                  a = Decoder(f, max, rest, depth, into, counts, "bad")
<1> DEFINE t == Tail(items)
           d == Decoder(f, max, items, depth, into, counts, None)
           e == Decoder(f, max, t, depth, into, counts, None)
           item == Head(items)
           x == [d EXCEPT !.items = Tail(@)]
           a == Promise!After(d, in, self)
           e2 == Decoder(f, max, t, depth, in.into, in.counts, in.err)
           e3 == Decoder(f, max, t, depth, self.into, counts, self.err)
           e5 == Decoder(f, max, t, depth, into, counts, "bad")
<1> HIDE DEF t
<1>1. /\ IsFields(d) /\ d.items = items /\ d.at = f.at /\ d.depth = depth /\ d.max = max /\ d.into = into
      /\ d.counts = counts /\ d.err = None
  BY DecoderFieldsAre
<1>2. /\ IsFields(e) /\ e.items = t /\ e.at = f.at /\ e.depth = depth /\ e.max = max /\ e.into = into
      /\ e.counts = counts /\ e.err = None
  BY DecoderFieldsAre
<1>3. /\ IsFields(e2) /\ e2.items = t /\ e2.at = f.at /\ e2.depth = depth /\ e2.max = max /\ e2.into = in.into
      /\ e2.counts = in.counts /\ e2.err = in.err
  BY DecoderFieldsAre
<1>7. /\ IsFields(e3) /\ e3.items = t /\ e3.at = f.at /\ e3.depth = depth /\ e3.max = max /\ e3.into = self.into
      /\ e3.counts = counts /\ e3.err = self.err
  BY DecoderFieldsAre
<1>8. /\ IsFields(e5) /\ e5.items = t /\ e5.at = f.at /\ e5.depth = depth /\ e5.max = max /\ e5.into = into
      /\ e5.counts = counts /\ e5.err = "bad"
  BY DecoderFieldsAre
<1>9. /\ x = e
      /\ [e EXCEPT !.into = in.into, !.counts = in.counts, !.err = in.err] = e2
      /\ [e EXCEPT !.into = self.into, !.err = self.err] = e3
      /\ [e EXCEPT !.err = "bad"] = e5
  <2> HIDE DEF d, e, e2, e3, e5
  <2>1. x = e
    BY <1>1, <1>2 DEF IsFields, DecoderFields, t
  <2>2. [e EXCEPT !.into = in.into, !.counts = in.counts, !.err = in.err] = e2
    BY <1>2, <1>3 DEF IsFields, DecoderFields
  <2>3. [e EXCEPT !.into = self.into, !.err = self.err] = e3
    BY <1>2, <1>7 DEF IsFields, DecoderFields
  <2>4. [e EXCEPT !.err = "bad"] = e5
    BY <1>2, <1>8 DEF IsFields, DecoderFields
  <2> QED
    BY <2>1, <2>2, <2>3, <2>4
<1>4. a = CASE item.kind = "number"  -> Promise!Stored(x, item.x)
        [] item.kind = "message" -> [x EXCEPT !.into = in.into, !.counts = in.counts, !.err = in.err]
        [] item.kind = "custom"  -> [x EXCEPT !.into = self.into, !.err = self.err]
        [] item.kind = "duration" /\ Promise!AllNumbers(item.of) -> x
        [] OTHER -> [x EXCEPT !.err = "bad"]
  BY <1>1 DEF Promise!After
<1> DEFINE y1 == Promise!Stored(e, item.x)
           k == item.kind
           all == Promise!AllNumbers(item.of)
<1>5. a = CASE k = "number"  -> y1 [] k = "message" -> e2 [] k = "custom"  -> e3 [] k = "duration" /\ all -> e [] OTHER -> e5
  <2> HIDE DEF a, d, e, e2, e3, e5
  <2> QED
    BY <1>4, <1>9
<1> HIDE DEF y1, all, k, e, e2, e3, e5
<1>6. /\ k = "number" => a = y1
      /\ k = "message" => a = e2
      /\ k = "custom" => a = e3
      /\ k = "duration" /\ all => a = e
      /\ k \notin {"number", "message", "custom"} /\ ~(k = "duration" /\ all) => a = e5
  <2> HIDE DEF a
  <2> QED
    BY <1>5
<1> QED
  BY <1>6 DEF t, y1, all, k, e, e2, e3, e5

LEMMA DecodersHaveFields == \A d : IsDecoder(d) => IsFields(d)
<1> SUFFICES ASSUME NEW d, IsDecoder(d) PROVE IsFields(d)
  OBVIOUS
<1> DEFINE S == Seq({"message", "custom"})
           E == {Promise!None, "too deep", "bad"}
           A == Promise!Arrays
           C == Promise!Counts
<1>1. d \in [items : Lists, at : S, depth : Nat, max : Nat, into : A, counts : C, err : E]
  BY DEF IsDecoder, Promise!Decoders
<1> HIDE DEF S, E, A, C
<1> QED
  BY <1>1 DEF IsFields, DecoderFields

Checked(depth, max) == IF depth > max THEN "too deep" ELSE None

\* The decoder of a list within is that of a call for it.
LEMMA NestedDecoder ==
  ASSUME NEW f, NEW max, NEW items, NEW depth, NEW into, NEW counts, NEW v, NEW n, NEW cs, NEW c,
         NEW e, IsNested(e, Decoder(f, max, items, depth, into, counts, None), v, c.at, n, cs)
  PROVE  e = Decoder(c, max, v, n, into, cs, Checked(n, max))
<1> DEFINE d == Decoder(f, max, items, depth, into, counts, None)
           x == Checked(n, max)
           y == Decoder(c, max, v, n, into, cs, x)
<1>1. d.max = max /\ d.into = into /\ d.err = None
  BY DecoderFieldsAre
<1> HIDE DEF d
<1>2. /\ IsDecoder(e) /\ e.items = v /\ e.at = c.at /\ e.depth = n /\ e.max = max
      /\ e.into = into /\ e.counts = cs /\ e.err = x
  BY <1>1 DEF IsNested, d, Checked
<1> HIDE DEF x
<1>3. IsFields(y) /\ y.items = v /\ y.at = c.at /\ y.depth = n /\ y.max = max /\ y.into = into /\ y.counts = cs /\ y.err = x
  BY DecoderFieldsAre
<1>4. IsFields(e)
  BY <1>2, DecodersHaveFields
<1> HIDE DEF y
<1>5. \A z \in DecoderFields : e[z] = y[z]
  BY <1>2, <1>3 DEF DecoderFields
<1>6. e = y
  BY <1>3, <1>4, <1>5, SameFields
<1> QED
  BY <1>6 DEF y, x

LEMMA ComesNumber ==
  ASSUME NEW f, NEW max, NEW items, NEW depth, NEW into, NEW counts, NEW o,
         ComesTo(f, max, items, depth, into, counts, None, o), items # <<>>, Head(items).kind = "number"
  PROVE  /\ f.at \in Paths /\ counts[f.at] < ArrayLen =>
              ComesTo(f, max, Tail(items), depth, [into EXCEPT ![f.at][counts[f.at] + 1] = Head(items).x],
                      [counts EXCEPT ![f.at] = @ + 1], None, o)
         /\ ~(f.at \in Paths /\ counts[f.at] < ArrayLen) => ComesTo(f, max, Tail(items), depth, into, counts, None, o)
<1> DEFINE a == NextDecoder(f, max, items, depth, into, counts)
           t == Tail(items)
           x == Head(items).x
           y == [into EXCEPT ![f.at][counts[f.at] + 1] = x]
           z == [counts EXCEPT ![f.at] = @ + 1]
           d == Decoder(f, max, t, depth, y, z, None)
           e == Decoder(f, max, t, depth, into, counts, None)
           b == f.at \in Paths /\ counts[f.at] < ArrayLen
<1>1. IsDecoder(a) /\ o = Promise!Decoded[a]
  BY ComesNext
<1>2. a = Promise!Stored(e, x)
  BY AfterItem DEF NextDecoder
<1>3. Promise!Stored(e, x) = IF b THEN d ELSE e
  <2> HIDE DEF t, x
  <2> QED
    BY Stores
<1> HIDE DEF a
<1>4. /\ b => IsDecoder(d) /\ o = Promise!Decoded[d]
      /\ ~b => IsDecoder(e) /\ o = Promise!Decoded[e]
  <2> HIDE DEF b, d, e, x
  <2> QED
    BY <1>1, <1>2, <1>3
<1> HIDE DEF y, z, t, x, b
<1>5. /\ b => ComesTo(f, max, t, depth, y, z, None, o)
      /\ ~b => ComesTo(f, max, t, depth, into, counts, None, o)
  BY <1>4 DEF ComesTo
<1> QED
  BY <1>5 DEF y, z, t, x, b

\* ... when c is the call for the message within
LEMMA ComesMessage ==
  ASSUME NEW f, NEW max, NEW items, NEW depth, NEW into, NEW counts, NEW o,
         ComesTo(f, max, items, depth, into, counts, None, o), items # <<>>, Head(items).kind = "message",
         NEW c, c.at = Append(f.at, "message"), NEW in, in = InMessage(f, max, items, depth, into, counts)
  PROVE  /\ ComesTo(f, max, Tail(items), depth, in.into, in.counts, in.err, o)
         /\ ComesTo(c, max, Head(items).of, depth + 1, into, counts, Checked(depth + 1, max), in)
<1> DEFINE a == NextDecoder(f, max, items, depth, into, counts)
           t == Tail(items)
           d == Decoder(f, max, items, depth, into, counts, None)
           e == Decoder(f, max, t, depth, in.into, in.counts, in.err)
           m == Promise!MessageIn(d)
           v == Head(items).of
           n == depth + 1
           at == Append(f.at, "message")
           x == Checked(n, max)
<1>1. IsDecoder(a) /\ o = Promise!Decoded[a]
  BY ComesNext
<1>2. a = e
  BY AfterItem DEF NextDecoder
<1>3. ComesTo(f, max, t, depth, in.into, in.counts, in.err, o)
  <2> HIDE DEF a, t
  <2> QED
    BY <1>1, <1>2 DEF ComesTo
<1>4. IsNested(m, d, v, at, n, counts)
  <2>1. IsDecoder(d) /\ d.items = items /\ d.at = f.at /\ d.depth = depth /\ d.counts = counts
    BY DecoderFieldsAre DEF ComesTo
  <2> HIDE DEF d
  <2> QED
    BY <2>1, MessageInIs
<1>5. m = Decoder(c, max, v, n, into, counts, x) /\ IsDecoder(m)
  <2>1. IsNested(m, Decoder(f, max, items, depth, into, counts, None), v, c.at, n, counts)
    BY <1>4
  <2> HIDE DEF m, v, at, n, x, d
  <2>2. m = Decoder(c, max, v, n, into, counts, Checked(n, max))
    BY <2>1, NestedDecoder
  <2>3. IsDecoder(m)
    BY <1>4 DEF IsNested
  <2> QED
    BY <2>2, <2>3 DEF x
<1>6. in = Promise!Decoded[m]
  BY DEF InMessage
<1>7. ComesTo(c, max, v, n, into, counts, x, in)
  <2> HIDE DEF m, v, n, x
  <2> QED
    BY <1>5, <1>6 DEF ComesTo
<1> QED
  BY <1>3, <1>7

\* ... when c is the call that the field makes
LEMMA ComesCustom ==
  ASSUME NEW f, NEW max, NEW items, NEW depth, NEW into, NEW counts, NEW o,
         ComesTo(f, max, items, depth, into, counts, None, o), items # <<>>, Head(items).kind = "custom",
         NEW c, c.at = Append(f.at, "custom"), NEW self, self = InCustom(f, max, items, depth, into, counts)
  PROVE  /\ ComesTo(f, max, Tail(items), depth, self.into, counts, self.err, o)
         /\ ComesTo(c, max, Head(items).of, 1, into, Promise!NoneFilled, Checked(1, max), self)
<1> DEFINE a == NextDecoder(f, max, items, depth, into, counts)
           t == Tail(items)
           d == Decoder(f, max, items, depth, into, counts, None)
           e == Decoder(f, max, t, depth, self.into, counts, self.err)
           m == Promise!CustomIn(d)
           v == Head(items).of
           at == Append(f.at, "custom")
           x == Checked(1, max)
           zero == Promise!NoneFilled
<1>1. IsDecoder(a) /\ o = Promise!Decoded[a]
  BY ComesNext
<1>2. a = e
  BY AfterItem DEF NextDecoder
<1>3. ComesTo(f, max, t, depth, self.into, counts, self.err, o)
  <2> HIDE DEF a, t
  <2> QED
    BY <1>1, <1>2 DEF ComesTo
<1>4. IsNested(m, d, v, at, 1, zero)
  <2>1. IsDecoder(d) /\ d.items = items /\ d.at = f.at
    BY DecoderFieldsAre DEF ComesTo
  <2> HIDE DEF d
  <2> QED
    BY <2>1, CustomInIs
<1>5. m = Decoder(c, max, v, 1, into, zero, x) /\ IsDecoder(m)
  <2>1. IsNested(m, Decoder(f, max, items, depth, into, counts, None), v, c.at, 1, zero)
    BY <1>4
  <2> HIDE DEF m, v, at, zero, x, d
  <2>2. m = Decoder(c, max, v, 1, into, zero, Checked(1, max))
    BY <2>1, NestedDecoder
  <2>3. IsDecoder(m)
    BY <1>4 DEF IsNested
  <2> QED
    BY <2>2, <2>3 DEF x
<1>6. self = Promise!Decoded[m]
  BY DEF InCustom
<1>7. ComesTo(c, max, v, 1, into, zero, x, self)
  <2> HIDE DEF m, v, zero, x
  <2> QED
    BY <1>5, <1>6 DEF ComesTo
<1> QED
  BY <1>3, <1>7

LEMMA ComesOther ==
  ASSUME NEW f, NEW max, NEW items, NEW depth, NEW into, NEW counts, NEW o,
         ComesTo(f, max, items, depth, into, counts, None, o), items # <<>>,
         Head(items).kind \notin {"number", "message", "custom"}
  PROVE  ComesTo(f, max, Tail(items), depth, into, counts,
                 IF Head(items).kind = "duration" /\ Promise!AllNumbers(Head(items).of) THEN None ELSE "bad", o)
<1> DEFINE a == NextDecoder(f, max, items, depth, into, counts)
           t == Tail(items)
           x == IF Head(items).kind = "duration" /\ Promise!AllNumbers(Head(items).of) THEN None ELSE "bad"
           e == Decoder(f, max, t, depth, into, counts, x)
<1>1. IsDecoder(a) /\ o = Promise!Decoded[a]
  BY ComesNext
<1>2. a = e
  BY AfterItem DEF NextDecoder
<1>3. ComesTo(f, max, t, depth, into, counts, x, o)
  <2> HIDE DEF a, t, x
  <2> QED
    BY <1>1, <1>2 DEF ComesTo
<1> QED
  BY <1>3
-----------------------------------------------------------------------------
(* the steps of Unmarshal *)

LEMMA UnmarshalTop ==
  ASSUME IInv, NEW p \in Procs, stack[p] # <<>>, NEW g, Here(p, g), Top(p).op # "Marshal"
  PROVE  /\ request[p].op # "Marshal" /\ request[p].max \in Nat /\ Shape(request[p], Top(p), Ghost(p, g))
         /\ DecodingTop(p, request[p].max, heap[Top(p).b], structs[p], Top(p), Ghost(p, g))
         /\ Top(p).scratch = {} /\ BuffersOf(Top(p)) = {Top(p).b} /\ Releasing(Top(p)) = Top(p).b
         /\ heap[Top(p).b].max = request[p].max /\ IsBuffer(heap[Top(p).b]) /\ IsFrame(Top(p)) /\ Top(p).b \in Buffers
<1> DEFINE t == Top(p)
<1>1. /\ Shape(request[p], t, Ghost(p, g))
      /\ AtTop(p, request[p], heap[t.b], heap[Releasing(t)], structs[p], t, Ghost(p, g))
      /\ (\A c \in BuffersOf(t) : heap[c].max = request[p].max) /\ request[p].max \in Nat
  BY TopIs
<1>2. request[p].op # "Marshal"
  BY <1>1 DEF Shape
<1>3. t.scratch = {}
  BY <1>1, <1>2 DEF Shape
<1>4. BuffersOf(t) = {t.b} /\ Releasing(t) = t.b
  BY <1>3 DEF BuffersOf, Releasing
<1>5. IsFrame(t) /\ t.b \in Buffers /\ IsBuffer(heap[t.b])
  BY TopFacts DEF IInv, HeapOK, IsHeap
<1> HIDE DEF t
<1>6. DecodingTop(p, request[p].max, heap[t.b], structs[p], t, Ghost(p, g))
  BY <1>1, <1>2 DEF AtTop
<1> QED
  BY <1>1, <1>2, <1>3, <1>4, <1>5, <1>6 DEF t

\* A message within another one, and a duration, have a call below them.
LEMMA NotAlone ==
  ASSUME IInv, NEW p \in Procs, stack[p] # <<>>, NEW g, Here(p, g), Top(p).op \notin {"Marshal", "Unmarshal"}
  PROVE  \E n \in Nat \ {0} : Len(stack[p]) = n + 1
<1> DEFINE s == stack[p]
           n == Len(s) - 1
<1>1. Len(s) \in Nat \ {0}
  BY StackIsLong
<1>2. Len(s) # 1
  <2>1. Asked(request[p], s[1], g[1])
    BY DEF Here, Follows, Chain
  <2> QED
    BY <2>1 DEF Top, Asked
<1>3. n \in Nat \ {0} /\ Len(s) = n + 1
  BY <1>1, <1>2
<1> QED
  BY <1>3

LEMMA DeliversWithin ==
  ASSUME IInv, NEW p \in Procs, stack[p] # <<>>, NEW n \in Nat \ {0}, Len(stack[p]) = n + 1, NEW f, NEW hs, Deliver(p, f, hs)
  PROVE  reply' = reply
<1>1. Len(stack[p]) # 1
  OBVIOUS
<1>2. Below(p) # <<>>
  BY <1>1, StackIsLong
<1> QED
  BY <1>2 DEF Deliver

LEMMA EndStructFollows ==
  ASSUME IInv, NEW p \in Procs, stack[p] # <<>>, NEW g, Here(p, g), Top(p).op \in {"Unmarshal", "message"},
         NEW h, IsBuffer(h), h.max = request[p].max, Indexes(h), NEW err, EndStruct(p, h, err), structs' = structs,
         h.depth \in Nat, h.depth + 1 >= Ghost(p, g).depth, err = None => h.depth + 1 = Ghost(p, g).depth,
         Ghost(p, g).outcome.into = structs[p], Ghost(p, g).outcome.err = err, Ghost(p, g).outcome.counts = FilledIn(p, h)
  PROVE  Continues(p) /\ Off(p) /\ reply' = reply
<1> DEFINE t == Top(p)
           f == [t EXCEPT !.result.err = err]
           a == Ghost(p, g)
<1>1. /\ request[p].op # "Marshal" /\ Shape(request[p], t, a) /\ t.scratch = {} /\ BuffersOf(t) = {t.b} /\ IsFrame(t)
      /\ t.b \in Buffers
  BY UnmarshalTop
<1>2. /\ f.op = t.op /\ f.b = t.b /\ f.saved = t.saved /\ f.scratch = {} /\ f.pc = t.pc
      /\ f.result = [t.result EXCEPT !.err = err] /\ IsFrame(f)
  <2> HIDE DEF t
  <2> QED
    BY <1>1 DEF IsFrame
<1>3. f.result = Promise!Items(<<>>, err) /\ f.result.err = err
  <2>1. t.result = Promise!Items(<<>>, t.result.err)
    BY <1>1 DEF Shape
  <2> HIDE DEF t, f
  <2> QED
    BY <1>2, <2>1 DEF Promise!Items
<1>4. CASE t.op = "Unmarshal"
  <2> DEFINE e == [f EXCEPT !.pc = "clear"]
  <2>1. Becomes(p, e) /\ heap' = [heap EXCEPT ![t.b] = h] /\ reply' = reply
    BY <1>2, <1>4 DEF EndStruct, StartRelease
  <2>2. e.op = t.op /\ e.b = t.b /\ e.saved = t.saved /\ e.scratch = {} /\ e.pc = "clear" /\ e.result = f.result
    <3> HIDE DEF f, t
    <3> QED
      BY <1>2 DEF IsFrame
  <2> HIDE DEF e, f, a
  <2>3. heap'[t.b] = h /\ Off(p) /\ Steady(p)
    BY <2>1, BufferChanged
  <2>4. Releasing(e) = t.b /\ BuffersOf(e) = {t.b}
    BY <2>2 DEF Releasing, BuffersOf
  <2>5. Shape(request[p], e, a)
    BY <1>1, <1>3, <1>4, <2>2 DEF Shape
  <2>6. DecodingTop(p, request[p].max, h, structs[p], e, a)
    <3>1. a.outcome.into = structs[p] /\ a.outcome.err = e.result.err
      BY <1>3, <2>2 DEF a
    <3> QED
      BY <2>2, <3>1 DEF DecodingTop
  <2>7. AtTopNow(p, e, a)
    BY <1>1, <2>2, <2>3, <2>4, <2>6 DEF AtTopNow, AtTop
  <2>8. Limited(p, e)
    BY <2>3, <2>4 DEF Limited
  <2>9. Replaces(p, e) /\ BuffersOf(e) \cap InUse(p) \subseteq BuffersOf(t)
    BY <1>1, <2>2, <2>4 DEF Replaces
  <2> QED
    BY <2>1, <2>3, <2>5, <2>7, <2>8, <2>9, BecomesFollows DEF a
<1>5. CASE t.op = "message"
  <2>1. PICK n \in Nat \ {0} : Len(stack[p]) = n + 1
    BY <1>5, NotAlone
  <2>2. Linked(p, request[p], heap[stack[p][n].b], stack[p][n], t, g[n], a) /\ Shape(request[p], stack[p][n], g[n])
    BY <2>1, BelowIs
  <2>3. a.depth = g[n].depth + 1 /\ g[n].depth \in Nat
    BY <1>1, <1>5, <2>2 DEF Linked, Shape
  <2>4. h.depth >= g[n].depth /\ (err = None => h.depth = g[n].depth)
    BY <2>3
  <2>5. Deliver(p, f, [heap EXCEPT ![t.b] = [h EXCEPT !.buf = f.saved.buf, !.index = f.saved.index]])
    BY <1>2, <1>5 DEF EndStruct
  <2>6. reply' = reply
    <3> HIDE DEF f
    <3> QED
      BY <2>1, <2>5, DeliversWithin
  <2> HIDE DEF f
  <2>7. Continues(p) /\ Off(p)
    <3>1. request[p].op # "Marshal" /\ Top(p).op = "message" /\ f.saved = Top(p).saved
      BY <1>1, <1>2, <1>5
    <3>2. Deliver(p, f, [heap EXCEPT ![Top(p).b] = [h EXCEPT !.buf = f.saved.buf, !.index = f.saved.index]])
      BY <2>5
    <3>3. /\ f.result.err = None => h.depth = g[n].depth
          /\ Ghost(p, g).outcome.err = f.result.err
      BY <1>3, <2>4
    <3> HIDE DEF t, a
    <3> QED
      BY <2>1, <2>4, <3>1, <3>2, <3>3, MessageReturns, ZenonT(60)
  <2> QED
    BY <2>6, <2>7
<1> QED
  BY <1>4, <1>5
\* the Buffer on top, after its next item
Next2(p) == [heap[Top(p).b] EXCEPT !.index = @ + 1]

LEMMA AdvancedIs ==
  ASSUME IInv, NEW p \in Procs, stack[p] # <<>>, Reads(heap[Top(p).b]), Indexes(heap[Top(p).b]),
         heap[Top(p).b].index # Len(heap[Top(p).b].buf)
  PROVE  /\ Advanced(p) = [heap EXCEPT ![Top(p).b] = Next2(p)] /\ Advanced(p)[Top(p).b] = Next2(p) /\ IsHeap(Advanced(p))
         /\ \A c \in Buffers : c # Top(p).b => Advanced(p)[c] = heap[c]
         /\ IsBuffer(Next2(p)) /\ Reads(Next2(p)) /\ Left(Next2(p)) = Tail(Left(heap[Top(p).b]))
         /\ Next2(p).depth = heap[Top(p).b].depth /\ Next2(p).max = heap[Top(p).b].max
         /\ Next2(p).array_indexes = heap[Top(p).b].array_indexes /\ Next2(p).err = heap[Top(p).b].err
         /\ Indexes(Next2(p)) /\ FilledIn(p, Next2(p)) = FilledIn(p, heap[Top(p).b])
<1> DEFINE b == Top(p).b
           h == heap[b]
           x == Next2(p)
<1>1. b \in Buffers /\ IsBuffer(h) /\ IsHeap(heap)
  BY TopFacts DEF IInv, HeapOK, IsHeap
<1>2. Advanced(p) = [heap EXCEPT ![b] = x]
  BY DEF Advanced, Next2
<1>3. IsBuffer(h) => IsBuffer([h EXCEPT !.index = @ + 1])
  BY BufferChanges
<1>4. x = [h EXCEPT !.index = @ + 1]
  BY DEF Next2
<1> HIDE DEF x, h, b
<1>5. /\ IsBuffer(x) /\ x.buf = h.buf /\ x.index = h.index + 1 /\ x.depth = h.depth /\ x.max = h.max
      /\ x.array_indexes = h.array_indexes /\ x.err = h.err
  <2>1. IsBuffer(x)
    BY <1>1, <1>3, <1>4
  <2> QED
    BY <1>1, <1>4, <2>1 DEF IsBuffer
<1>6. Reads(x) /\ Left(x) = Tail(Left(h))
  <2>1. Reads(h) /\ h.index # Len(h.buf)
    BY DEF h, b
  <2> QED
    BY <1>5, <2>1, LeftNext
<1>7. Indexes(x) /\ FilledIn(p, x) = FilledIn(p, h)
  BY <1>5 DEF Indexes, FilledIn, h, b
<1>8. Advanced(p)[b] = x /\ IsHeap(Advanced(p)) /\ \A c \in Buffers : c # b => Advanced(p)[c] = heap[c]
  BY <1>1, <1>2, <1>5 DEF IsHeap
<1> QED
  BY <1>2, <1>5, <1>6, <1>7, <1>8 DEF x, h, b

LEMMA DecodingIs ==
  ASSUME IInv, NEW p \in Procs, NEW g, Here(p, g), NEW kind, Decoding(p, kind)
  PROVE  /\ stack[p] # <<>> /\ Top(p).op \in {"Unmarshal", "message"} /\ Top(p).pc = "run" /\ Top(p).result.err = None
         /\ Reads(heap[Top(p).b]) /\ Indexes(heap[Top(p).b]) /\ heap[Top(p).b].index # Len(heap[Top(p).b].buf)
         /\ heap[Top(p).b].depth = Ghost(p, g).depth /\ heap[Top(p).b].depth \in Nat
         /\ ComesTo(Top(p), request[p].max, Left(heap[Top(p).b]), Ghost(p, g).depth, structs[p],
                    FilledIn(p, heap[Top(p).b]), None, Ghost(p, g).outcome)
         /\ Left(heap[Top(p).b]) # <<>> /\ Head(Left(heap[Top(p).b])) = Current(p) /\ Current(p).kind = kind
         /\ Left(heap[Top(p).b]) \in Lists /\ Current(p).of \in Lists
<1> DEFINE h == heap[Top(p).b]
           a == Ghost(p, g)
<1>1. /\ stack[p] # <<>> /\ Top(p).op \in {"Unmarshal", "message"} /\ Top(p).pc = "run" /\ Top(p).result.err = None
      /\ h.index # Len(h.buf) /\ Current(p).kind = kind /\ Current(p) = h.buf[h.index + 1]
  BY DEF Decoding, InStruct, Runs, AtEnd, Bytes, Current
<1>2. DecodingTop(p, request[p].max, h, structs[p], Top(p), a)
  BY <1>1, UnmarshalTop
<1>3. /\ Reads(h) /\ Indexes(h) /\ h.depth = a.depth /\ h.depth \in Nat
      /\ ComesTo(Top(p), request[p].max, Left(h), a.depth, structs[p], FilledIn(p, h), None, a.outcome)
  <2> HIDE DEF h, a
  <2> QED
    BY <1>1, <1>2 DEF DecodingTop
<1>4. Left(h) # <<>> /\ Head(Left(h)) = Current(p)
  <2> DEFINE u == [buf |-> h.buf, index |-> h.index + 1]
  <2>1. u.buf = h.buf /\ u.index = h.index + 1
    OBVIOUS
  <2> HIDE DEF h, u
  <2> QED
    BY <1>1, <1>3, <2>1, LeftNext
<1>5. Left(h) \in Lists
  BY <1>3 DEF Reads
<1> HIDE DEF h, a
<1>6. Head(Left(h)).of \in Lists
  BY <1>4, <1>5, ListParts
<1> QED
  BY <1>1, <1>3, <1>4, <1>5, <1>6 DEF h, a

LEMMA DecodeBadFollows ==
  ASSUME IInv, NEW p \in Procs, NEW g, Here(p, g), DecodeBad(p)
  PROVE  Continues(p) /\ Off(p)
<1> DEFINE t == Top(p)
           h == heap[t.b]
           x == Next2(p)
           f == [t EXCEPT !.result.err = "bad"]
           a == Ghost(p, g)
           max == request[p].max
           v == Left(h)
           n == FilledIn(p, h)
           st == structs[p]
<1>1. Decoding(p, "bad") /\ Becomes(p, f) /\ heap' = Advanced(p) /\ structs' = structs
  BY DEF DecodeBad
<1>2. /\ stack[p] # <<>> /\ t.op \in {"Unmarshal", "message"} /\ t.pc = "run" /\ t.result.err = None
      /\ Reads(h) /\ Indexes(h) /\ h.index # Len(h.buf)
      /\ h.depth = a.depth /\ h.depth \in Nat
      /\ ComesTo(t, max, v, a.depth, st, n, None, a.outcome)
      /\ v # <<>> /\ Head(v).kind = "bad"
  BY <1>1, DecodingIs
<1>3. /\ request[p].op # "Marshal" /\ Shape(request[p], t, a) /\ t.scratch = {} /\ BuffersOf(t) = {t.b}
      /\ h.max = max /\ IsFrame(t)
  BY <1>2, UnmarshalTop
<1>4. /\ heap' = [heap EXCEPT ![t.b] = x] /\ heap'[t.b] = x
      /\ Reads(x) /\ Left(x) = Tail(v) /\ x.depth = h.depth /\ x.max = max /\ Indexes(x) /\ FilledIn(p, x) = n
  BY <1>1, <1>2, <1>3, AdvancedIs
<1>5. Off(p) /\ Steady(p)
  BY <1>2, <1>4, BufferChanged
<1>6. /\ f.op = t.op /\ f.b = t.b /\ f.saved = t.saved /\ f.scratch = {} /\ f.pc = "run" /\ f.at = t.at
      /\ f.result = Promise!Items(<<>>, f.result.err) /\ f.result.err = "bad"
  <2>1. t.result = Promise!Items(<<>>, t.result.err)
    BY <1>2, <1>3 DEF Shape
  <2> HIDE DEF t
  <2>2. /\ f.op = t.op /\ f.b = t.b /\ f.saved = t.saved /\ f.scratch = {} /\ f.pc = "run" /\ f.at = t.at
        /\ f.result = [t.result EXCEPT !.err = "bad"]
    BY <1>2, <1>3 DEF IsFrame
  <2> HIDE DEF f
  <2>3. f.result = Promise!Items(<<>>, f.result.err) /\ f.result.err = "bad"
    BY <2>1, <2>2 DEF Promise!Items
  <2> QED
    BY <2>2, <2>3
<1> HIDE DEF t, h, x, f, a, max, v, n, st
<1>7. ComesTo(f, max, Tail(v), a.depth, st, n, "bad", a.outcome)
  <2>1. ComesTo(t, max, Tail(v), a.depth, st, n, "bad", a.outcome)
    BY <1>2, ComesOther
  <2> QED
    BY <1>6, <2>1, ComesSame
<1>8. Releasing(f) = t.b /\ BuffersOf(f) = {t.b}
  BY <1>6 DEF Releasing, BuffersOf
<1>9. Shape(request[p], f, a)
  BY <1>2, <1>3, <1>6 DEF Shape
<1>10. DecodingTop(p, max, x, st, f, a)
  BY <1>2, <1>4, <1>6, <1>7 DEF DecodingTop
<1>11. AtTopNow(p, f, a)
  BY <1>1, <1>3, <1>4, <1>6, <1>8, <1>10 DEF AtTopNow, AtTop, max, st
<1>12. Limited(p, f)
  BY <1>4, <1>8 DEF Limited, max
<1>13. Replaces(p, f) /\ BuffersOf(f) \cap InUse(p) \subseteq BuffersOf(Top(p))
  BY <1>3, <1>6, <1>8 DEF Replaces, t
<1> QED
  BY <1>1, <1>2, <1>5, <1>9, <1>11, <1>12, <1>13, BecomesFollows DEF a, t
\* one more element of the array at a path
Indexed(y, p, x, at, i) ==
  /\ y.buf = x.buf /\ y.index = x.index /\ y.depth = x.depth /\ y.max = x.max /\ IsBuffer(y) /\ Indexes(y)
  /\ FilledIn(p, y) = [FilledIn(p, x) EXCEPT ![at] = i]

LEMMA IndexChanges ==
  ASSUME NEW p \in Procs, NEW x, IsBuffer(x), Indexes(x), NEW at \in Paths, NEW i
  PROVE  Indexed([x EXCEPT !.array_indexes[<<p, at>>] = i], p, x, at, i)
<1> DEFINE y == [x EXCEPT !.array_indexes[<<p, at>>] = i]
           m == x.array_indexes
           n == [m EXCEPT ![<<p, at>>] = i]
<1>1. /\ y.buf = x.buf /\ y.index = x.index /\ y.depth = x.depth /\ y.max = x.max
      /\ y.array_indexes = n
  BY DEF IsBuffer
<1>2. IsBuffer(y)
  BY BufferChanges
<1>3. m = [a \in Procs \X Paths |-> m[a]]
  BY DEF Indexes
<1> HIDE DEF y, m
<1>4. n = [a \in Procs \X Paths |-> n[a]]
  BY <1>3
<1>5. [path \in Paths |-> n[<<p, path>>]] = [[path \in Paths |-> m[<<p, path>>]] EXCEPT ![at] = i]
  <2>1. \A path \in Paths : n[<<p, path>>] = IF path = at THEN i ELSE m[<<p, path>>]
    BY <1>3
  <2> HIDE DEF n
  <2> QED
    BY <2>1
<1>6. Indexes(y)
  BY <1>1, <1>4 DEF Indexes
<1>7. FilledIn(p, y) = [FilledIn(p, x) EXCEPT ![at] = i]
  BY <1>1, <1>5 DEF FilledIn, m
<1> QED
  BY <1>1, <1>2, <1>6, <1>7 DEF y, Indexed

LEMMA DecodeNumberFollows ==
  ASSUME IInv, NEW p \in Procs, NEW g, Here(p, g), structs = [q \in Procs |-> structs[q]], DecodeNumber(p)
  PROVE  /\ Continues(p) /\ Off(p)
         /\ structs' = [q \in Procs |-> structs'[q]] /\ \A q \in Procs : q # p => structs'[q] = structs[q]
<1> DEFINE t == Top(p)
           b == t.b
           h == heap[b]
           x == Next2(p)
           a == Ghost(p, g)
           max == request[p].max
           v == Left(h)
           n == FilledIn(p, h)
           st == structs[p]
           at == t.at
           i == h.array_indexes[<<p, at>>]
           j == i + 1
           y == [x EXCEPT !.array_indexes[<<p, at>>] = j]
           o == a.outcome
           d == a.depth
<1>1. Decoding(p, "number") /\ stack' = stack
  BY DEF DecodeNumber
<1>2. /\ stack[p] # <<>> /\ t.op \in {"Unmarshal", "message"} /\ t.pc = "run" /\ t.result.err = None
      /\ Reads(h) /\ Indexes(h) /\ h.index # Len(h.buf)
      /\ h.depth = a.depth /\ h.depth \in Nat
      /\ ComesTo(t, max, v, d, st, n, None, o)
      /\ v # <<>> /\ Head(v) = Current(p) /\ Head(v).kind = "number"
  BY <1>1, DecodingIs
<1>3. /\ request[p].op # "Marshal" /\ Shape(request[p], t, a) /\ t.scratch = {} /\ BuffersOf(t) = {b} /\ Releasing(t) = b
      /\ h.max = max /\ IsFrame(t) /\ b \in Buffers
  BY <1>2, UnmarshalTop
<1>4. /\ Advanced(p) = [heap EXCEPT ![b] = x] /\ Advanced(p)[b] = x /\ IsBuffer(x)
      /\ Reads(x) /\ Left(x) = Tail(v) /\ x.depth = h.depth /\ x.max = max /\ Indexes(x) /\ FilledIn(p, x) = n
      /\ x.array_indexes = h.array_indexes
  BY <1>1, <1>2, <1>3, AdvancedIs
<1>5. IF at \in Paths /\ i < ArrayLen
      THEN /\ structs' = [structs EXCEPT ![p][at][i + 1] = Current(p).x]
           /\ heap' = [Advanced(p) EXCEPT ![b].array_indexes[<<p, at>>] = i + 1]
      ELSE heap' = Advanced(p) /\ structs' = structs
  BY DEF DecodeNumber
<1>6. at \in Paths => n[at] = i
  BY DEF FilledIn
<1>7. \E z : heap' = [heap EXCEPT ![b] = z] /\ z.max = max /\ DecodingTop(p, max, z, structs'[p], t, a)
  <2>1. CASE at \in Paths /\ i < ArrayLen
    <3>1. heap' = [heap EXCEPT ![b] = y]
      <4>1. IsHeap(heap)
        BY DEF IInv, HeapOK
      <4>2. heap' = [Advanced(p) EXCEPT ![b].array_indexes[<<p, at>>] = i + 1]
        BY <1>5, <2>1
      <4> DEFINE aa == <<p, at>>
      <4> HIDE DEF aa, j, x, b
      <4> QED
        BY <1>3, <1>4, <4>1, <4>2 DEF IsHeap, aa, j
    <3>2. /\ y.buf = x.buf /\ y.index = x.index /\ y.depth = x.depth /\ y.max = x.max /\ Indexes(y)
          /\ FilledIn(p, y) = [FilledIn(p, x) EXCEPT ![at] = i + 1]
      <4> HIDE DEF x, j, at
      <4>1. Indexed(y, p, x, at, j)
        BY <1>4, <2>1, IndexChanges
      <4> QED
        BY <4>1 DEF Indexed, j
    <3>3. structs'[p] = [st EXCEPT ![at][i + 1] = Current(p).x]
      <4>1. structs' = [structs EXCEPT ![p][at][i + 1] = Current(p).x]
        BY <1>5, <2>1
      <4> DEFINE e == Current(p).x
      <4> HIDE DEF j, e, at
      <4> QED
        BY <4>1
    <3>4. ComesTo(t, max, Tail(v), d, structs'[p], FilledIn(p, y), None, o)
      <4>1. n[at] = i /\ n[t.at] < ArrayLen /\ t.at \in Paths
        BY <1>6, <2>1
      <4> DEFINE e == Head(v).x
                 into == [st EXCEPT ![t.at][n[t.at] + 1] = e]
                 counts == [n EXCEPT ![t.at] = @ + 1]
      <4>2. ComesTo(t, max, Tail(v), d, into, counts, None, o)
        <5> HIDE DEF t, v, n, st, max, d, o
        <5> QED
          BY <1>2, <4>1, ComesNumber
      <4>3. into = structs'[p]
        BY <1>2, <3>3, <4>1
      <4>4. counts = FilledIn(p, y)
        BY <1>4, <3>2, <4>1
      <4> QED
        BY <4>2, <4>3, <4>4
    <3> HIDE DEF x, y, t, h, i, a, n, v, st, max, d, o
    <3>5. Reads(y) /\ Left(y) = Tail(v) /\ y.depth = d /\ y.max = max
      BY <1>2, <1>4, <3>2 DEF Reads, Left, d
    <3>6. DecodingTop(p, max, y, structs'[p], t, a)
      BY <1>2, <3>2, <3>4, <3>5 DEF DecodingTop, d, o
    <3> QED
      BY <3>1, <3>5, <3>6
  <2>2. CASE ~(at \in Paths /\ i < ArrayLen)
    <3>1. heap' = [heap EXCEPT ![b] = x] /\ structs' = structs
      BY <1>4, <1>5, <2>2
    <3>2. ~(t.at \in Paths /\ n[t.at] < ArrayLen)
      BY <1>6, <2>2
    <3> HIDE DEF x, y, t, h, i, a, n, v, st, max, d, o
    <3>3. ComesTo(t, max, Tail(v), d, st, n, None, o)
      BY <1>2, <3>2, ComesNumber
    <3>4. structs'[p] = st
      BY <3>1 DEF st
    <3>5. DecodingTop(p, max, x, structs'[p], t, a)
      BY <1>2, <1>4, <3>3, <3>4 DEF DecodingTop, d, o
    <3> QED
      BY <1>4, <3>1, <3>5
  <2> QED
    BY <2>1, <2>2
<1>8. PICK z : heap' = [heap EXCEPT ![b] = z] /\ z.max = max /\ DecodingTop(p, max, z, structs'[p], t, a)
  BY <1>7
<1>9. heap'[b] = z /\ Off(p) /\ Steady(p)
  BY <1>2, <1>8, BufferChanged
<1>10. structs' = [q \in Procs |-> structs'[q]] /\ \A q \in Procs : q # p => structs'[q] = structs[q]
  <2> DEFINE e == Current(p).x
  <2>1. structs' = structs \/ structs' = [structs EXCEPT ![p][at][j] = e]
    BY <1>5
  <2> HIDE DEF j, e, at
  <2> QED
    BY <2>1
<1> HIDE DEF t, b, h, x, y, a, max, i
<1>11. AtTopNow(p, Top(p), a)
  BY <1>3, <1>8, <1>9 DEF AtTopNow, AtTop, max, t, b
<1>12. Limited(p, Top(p))
  BY <1>3, <1>8, <1>9 DEF Limited, max, t, b
<1> QED
  BY <1>1, <1>2, <1>9, <1>10, <1>11, <1>12, SameFollows DEF a
\* the frame of a call that has a struct to decode, at its start
LEMMA NewDecoder ==
  ASSUME NEW op \in {"Unmarshal", "message", "duration"}, NEW b, NEW at, NEW r, r.op # "Marshal", NEW a,
         a.depth \in Nat \ {0}, a.outcome \in Promise!Outcomes
  PROVE  /\ Frame(op, b, <<>>, at).op = op /\ Frame(op, b, <<>>, at).b = b /\ Frame(op, b, <<>>, at).at = at
         /\ Frame(op, b, <<>>, at).scratch = {} /\ Frame(op, b, <<>>, at).result.err = None
         /\ Frame(op, b, <<>>, at).pc = IF op = "duration" THEN "run" ELSE "enter"
         /\ Releasing(Frame(op, b, <<>>, at)) = b /\ BuffersOf(Frame(op, b, <<>>, at)) = {b}
         /\ Shape(r, Frame(op, b, <<>>, at), a) /\ IsFrame(Frame(op, b, <<>>, at))
<1> DEFINE f == Frame(op, b, <<>>, at)
<1>1. /\ f.op = op /\ f.b = b /\ f.at = at /\ f.scratch = {} /\ f.result = [bytes |-> <<>>, err |-> None]
      /\ f.pc = IF op = "duration" THEN "run" ELSE "enter"
  BY DEF Frame
<1>2. Looks(f, op, b, {}, IF op = "Unmarshal" \/ op = "message" THEN "enter" ELSE "run")
  BY NewFrame
<1>3. IsFrame(f)
  BY <1>2 DEF Looks
<1> HIDE DEF f
<1>4. Releasing(f) = b /\ BuffersOf(f) = {b}
  BY <1>1 DEF Releasing, BuffersOf
<1>5. f.result.err = None /\ f.result = Promise!Items(<<>>, f.result.err)
  BY <1>1 DEF Promise!Items
<1>6. Shape(r, f, a)
  BY <1>1, <1>5 DEF Shape
<1> QED
  BY <1>1, <1>3, <1>4, <1>5, <1>6 DEF f

LEMMA DecodeMessageFollows ==
  ASSUME IInv, NEW p \in Procs, NEW g, Here(p, g), DecodeMessage(p)
  PROVE  Continues(p) /\ Off(p)
<1> DEFINE t == Top(p)
           b == t.b
           h == heap[b]
           a == Ghost(p, g)
           max == request[p].max
           v == Left(h)
           n == FilledIn(p, h)
           st == structs[p]
           o == a.outcome
           d == a.depth
           w == Head(v).of
           in == InMessage(t, max, v, d, st, n)
           e == [depth |-> d + 1, outcome |-> in]
           sv == [buf |-> h.buf, index |-> h.index + 1]
           at == Append(t.at, "message")
           f == Frame("message", b, <<>>, at)
           c == [f EXCEPT !.saved = sv]
           y == [h EXCEPT !.buf = w, !.index = 0]
<1>1. /\ Decoding(p, "message") /\ Calls(p, t, [Frame("message", b, <<>>, at) EXCEPT !.saved = [buf |-> Bytes(p), index |-> heap[b].index + 1]])
      /\ heap' = [heap EXCEPT ![b].buf = Current(p).of, ![b].index = 0] /\ structs' = structs
  BY DEF DecodeMessage
<1>2. /\ stack[p] # <<>> /\ t.op \in {"Unmarshal", "message"} /\ t.pc = "run" /\ t.result.err = None
      /\ Reads(h) /\ Indexes(h) /\ h.index # Len(h.buf)
      /\ h.depth = d /\ h.depth \in Nat
      /\ ComesTo(t, max, v, d, st, n, None, o)
      /\ v # <<>> /\ Head(v) = Current(p) /\ Head(v).kind = "message" /\ w \in Lists
  BY <1>1, DecodingIs
<1>3. /\ request[p].op # "Marshal" /\ Shape(request[p], t, a) /\ t.scratch = {} /\ BuffersOf(t) = {b} /\ Releasing(t) = b
      /\ h.max = max /\ IsFrame(t) /\ IsBuffer(h) /\ b \in Buffers
  BY <1>2, UnmarshalTop
<1>4. Calls(p, t, c)
  BY <1>1 DEF Bytes
<1>5. heap' = [heap EXCEPT ![b] = y]
  <2>1. w = Current(p).of
    BY <1>2
  <2>2. heap' = [heap EXCEPT ![b].buf = w, ![b].index = 0] /\ IsHeap(heap)
    BY <1>1, <2>1 DEF IInv, HeapOK
  <2> HIDE DEF b, w
  <2> QED
    BY <2>2 DEF IsHeap
<1>6. /\ y.buf = w /\ y.index = 0 /\ y.depth = d /\ y.max = max /\ Indexes(y) /\ FilledIn(p, y) = n
  <2>1. Narrowed(y, h, w, 0)
    BY <1>3, NarrowedIs
  <2> HIDE DEF y, w, h
  <2>2. y.buf = w /\ y.index = 0 /\ y.depth = h.depth /\ y.max = h.max /\ y.array_indexes = h.array_indexes
    BY <2>1 DEF Narrowed
  <2> QED
    BY <1>2, <1>3, <2>2 DEF Indexes, FilledIn
<1>7. heap'[b] = y /\ Off(p) /\ Steady(p)
  <2> HIDE DEF y
  <2> QED
    BY <1>2, <1>5, BufferChanged
<1> HIDE DEF w
<1>8. Reads(y) /\ Left(y) = w
  <2> HIDE DEF y
  <2> QED
    BY <1>2, <1>6, LeftAll
<1>9. Reads(sv) /\ Left(sv) = Tail(v)
  <2>1. sv.buf = h.buf /\ sv.index = h.index + 1
    OBVIOUS
  <2> HIDE DEF sv, h
  <2> QED
    BY <1>2, <2>1, LeftNext
<1>10. e.depth = d + 1 /\ e.outcome = in /\ d + 1 \in Nat \ {0}
  BY <1>2
<1>11. in \in Promise!Outcomes
  <2> HIDE DEF t, h, max, v, n, st, d, o
  <2> QED
    BY <1>2, ComesNext DEF IsOutcome
<1> HIDE DEF e, in, sv, y, at, a, d
<1>12. /\ f.op = "message" /\ f.b = b /\ f.at = at /\ f.scratch = {} /\ f.result.err = None /\ f.pc = "enter"
       /\ Releasing(f) = b /\ BuffersOf(f) = {b} /\ Shape(request[p], f, e) /\ IsFrame(f)
  BY <1>3, <1>10, <1>11, NewDecoder
<1> HIDE DEF f
<1>13. /\ c.op = "message" /\ c.b = b /\ c.at = at /\ c.scratch = {} /\ c.result = f.result /\ c.pc = "enter" /\ c.saved = sv
  BY <1>12 DEF IsFrame
<1> HIDE DEF c
<1>14. Releasing(c) = b /\ BuffersOf(c) = {b}
  BY <1>13 DEF Releasing, BuffersOf
<1>15. Shape(request[p], c, e)
  BY <1>3, <1>12, <1>13 DEF Shape
<1> HIDE DEF t, b, h, max, v, n, st, o
<1>16. /\ ComesTo(t, max, Tail(v), d, in.into, in.counts, in.err, o)
       /\ ComesTo(c, max, w, d + 1, st, n, Checked(d + 1, max), in)
  <2>1. c.at = Append(t.at, "message") /\ in = InMessage(t, max, v, d, st, n)
    BY <1>13 DEF at, in
  <2> QED
    BY <1>2, <2>1, ComesMessage DEF w
<1>17. Linked(p, request[p], heap'[t.b], t, c, a, e)
  <2>1. Reads(c.saved) /\ ComesTo(t, request[p].max, Left(c.saved), a.depth, e.outcome.into, e.outcome.counts, e.outcome.err, a.outcome)
    BY <1>9, <1>10, <1>13, <1>16 DEF max, d, o
  <2> QED
    BY <1>2, <1>3, <1>10, <1>13, <2>1 DEF Linked, b, d
<1>18. DecodingTop(p, max, y, st, c, e)
  <2>1. Checked(e.depth, max) = IF e.depth > max THEN "too deep" ELSE None
    BY DEF Checked
  <2>2. ComesTo(c, max, Left(y), e.depth, st, FilledIn(p, y), Checked(e.depth, max), e.outcome)
    BY <1>6, <1>8, <1>10, <1>16
  <2>3. ComesTo(c, max, Left(y), e.depth, st, FilledIn(p, y), IF e.depth > max THEN "too deep" ELSE None, e.outcome)
    BY <2>1, <2>2
  <2>4. y.depth + 1 = e.depth /\ y.depth \in Nat /\ c.result.err = None
    BY <1>2, <1>6, <1>10, <1>12, <1>13
  <2> QED
    BY <1>6, <1>8, <1>13, <2>3, <2>4 DEF DecodingTop
<1>19. AtTopNow(p, c, e)
  BY <1>1, <1>3, <1>7, <1>13, <1>14, <1>18 DEF AtTopNow, AtTop, max, st
<1>20. Limited(p, t) /\ Limited(p, c)
  BY <1>3, <1>6, <1>7, <1>14 DEF Limited, max
<1>21. Replaces(p, t) /\ BuffersOf(c) \subseteq BuffersOf(t)
  BY <1>3, <1>14 DEF Replaces, t
<1> QED
  BY <1>2, <1>3, <1>4, <1>7, <1>13, <1>15, <1>17, <1>19, <1>20, <1>21, CallsFollows DEF a, t

\* A field is decoded by a call of its own, which comes to the outcome in.
LEMMA OwnCallFollows ==
  ASSUME IInv, NEW p \in Procs, NEW g, Here(p, g), request[p].max = MaxRecursionDepth, NEW kind, Decoding(p, kind), structs' = structs,
         NEW w, w = Current(p).of, NEW b \in Buffers, Gets(b, w, Advanced(p)), NEW op \in {"Unmarshal", "duration"}, NEW at,
         NEW c, c = Frame(op, b, <<>>, at), Calls(p, Top(p), c), NEW in \in Promise!Outcomes,
         ComesTo(Top(p), request[p].max, Tail(Left(heap[Top(p).b])), Ghost(p, g).depth, in.into,
                 FilledIn(p, heap[Top(p).b]), in.err, Ghost(p, g).outcome),
         op = "Unmarshal" =>
           ComesTo(c, request[p].max, w, 1, structs[p], Promise!NoneFilled, Checked(1, request[p].max), in),
         op = "duration" => in.into = structs[p] /\ in.err = IF Promise!AllNumbers(w) THEN None ELSE "bad"
  PROVE  Continues(p) /\ Off(p)
<1> DEFINE t == Top(p)
           h == heap[t.b]
           x == Next2(p)
           a == Ghost(p, g)
           max == request[p].max
           st == structs[p]
           e == [depth |-> 1, outcome |-> in]
           y == heap'[b]
<1>1. /\ stack[p] # <<>> /\ t.op \in {"Unmarshal", "message"} /\ t.pc = "run" /\ t.result.err = None
      /\ Reads(h) /\ Indexes(h) /\ h.index # Len(h.buf) /\ h.depth = a.depth /\ h.depth \in Nat /\ w \in Lists
  BY DecodingIs
<1>2. /\ request[p].op # "Marshal" /\ Shape(request[p], t, a) /\ t.scratch = {} /\ BuffersOf(t) = {t.b}
      /\ h.max = max /\ t.b \in Buffers
  BY <1>1, UnmarshalTop
<1>3. /\ Advanced(p)[t.b] = x /\ IsHeap(Advanced(p)) /\ (\A d \in Buffers : d # t.b => Advanced(p)[d] = heap[d])
      /\ Reads(x) /\ Left(x) = Tail(Left(h)) /\ x.depth = h.depth /\ x.max = max /\ Indexes(x) /\ FilledIn(p, x) = FilledIn(p, h)
  BY <1>1, <1>2, AdvancedIs
<1>4. /\ y.buf = w /\ y.index = 0 /\ y.depth = 0 /\ y.array_indexes = NoIndexes /\ y.max = max
      /\ b \notin InUse(p) /\ (\A d \in Buffers : d # b => heap'[d] = Advanced(p)[d]) /\ Off(p) /\ Steady(p)
  <2>1. \A d \in Buffers : d \notin BuffersOf(t) => Advanced(p)[d] = heap[d]
    BY <1>2, <1>3
  <2> QED
    BY <1>1, <1>3, <2>1, HeapGets
<1>5. heap'[t.b] = x
  <2>1. t.b # b
    BY <1>1, <1>4, TopFacts
  <2> QED
    BY <1>2, <1>3, <1>4, <2>1
<1>6. Reads(y) /\ Left(y) = w
  <2> HIDE DEF y
  <2> QED
    BY <1>1, <1>4, LeftAll
<1>7. Indexes(y) /\ FilledIn(p, y) = Promise!NoneFilled
  <2> HIDE DEF y
  <2> QED
    BY <1>4 DEF Indexes, FilledIn, NoIndexes, Promise!NoneFilled
<1>8. e.depth = 1 /\ e.outcome = in
  OBVIOUS
<1> HIDE DEF e, a
<1>9. /\ c.op = op /\ c.b = b /\ c.at = at /\ c.scratch = {} /\ c.result.err = None
      /\ c.pc = (IF op = "duration" THEN "run" ELSE "enter")
      /\ Releasing(c) = b /\ BuffersOf(c) = {b} /\ Shape(request[p], c, e)
  BY <1>2, <1>8, NewDecoder
<1> HIDE DEF t, h, x, max, st, y
<1>10. Linked(p, request[p], heap'[t.b], t, c, a, e)
  <2>1. ComesTo(t, request[p].max, Left(x), a.depth, e.outcome.into, FilledIn(p, x), e.outcome.err, a.outcome)
    BY <1>3, <1>8 DEF a, h, t
  <2> QED
    BY <1>1, <1>2, <1>3, <1>5, <1>9, <2>1 DEF Linked
<1>11. DecodingTop(p, max, y, st, c, e)
  <2>1. CASE op = "Unmarshal"
    <3>1. Checked(e.depth, max) = IF e.depth > max THEN "too deep" ELSE None
      BY DEF Checked
    <3>2. ComesTo(c, max, Left(y), e.depth, st, FilledIn(p, y), Checked(e.depth, max), e.outcome)
      BY <1>6, <1>7, <1>8, <2>1 DEF max, st
    <3>3. ComesTo(c, max, Left(y), e.depth, st, FilledIn(p, y), IF e.depth > max THEN "too deep" ELSE None, e.outcome)
      BY <3>1, <3>2
    <3>4. y.depth + 1 = e.depth /\ y.depth \in Nat
      BY <1>4, <1>8
    <3> QED
      BY <1>6, <1>7, <1>9, <2>1, <3>3, <3>4 DEF DecodingTop
  <2>2. CASE op = "duration"
    <3>1. e.outcome.into = st /\ e.outcome.err = IF Promise!AllNumbers(Left(y)) THEN None ELSE "bad"
      BY <1>6, <1>8, <2>2 DEF st
    <3>2. y.depth \in Nat
      BY <1>4
    <3> QED
      BY <1>6, <1>7, <1>9, <2>2, <3>1, <3>2 DEF DecodingTop
  <2> QED
    BY <2>1, <2>2
<1>12. AtTopNow(p, c, e)
  BY <1>2, <1>9, <1>11 DEF AtTopNow, AtTop, max, st, y
<1>13. Limited(p, t) /\ Limited(p, c)
  BY <1>2, <1>3, <1>4, <1>5, <1>9 DEF Limited, max, y
<1>14. Replaces(p, t) /\ BuffersOf(c) \cap InUse(p) = {}
  BY <1>4, <1>9 DEF Replaces, t
<1>15. Calls(p, t, c)
  BY DEF t
<1> QED
  BY <1>1, <1>2, <1>4, <1>9, <1>10, <1>12, <1>13, <1>14, <1>15, CallsFollows DEF a, t

LEMMA DecodeUnmarshalerFollows ==
  ASSUME IInv, NEW p \in Procs, NEW g, Here(p, g), request[p].max = MaxRecursionDepth, DecodeUnmarshaler(p)
  PROVE  Continues(p) /\ Off(p)
<1> DEFINE t == Top(p)
           h == heap[t.b]
           a == Ghost(p, g)
           max == request[p].max
           v == Left(h)
           n == FilledIn(p, h)
           st == structs[p]
           w == Current(p).of
           in == InCustom(t, max, v, a.depth, st, n)
           at == Append(t.at, "custom")
<1>1. Decoding(p, "custom") /\ structs' = structs
  BY DEF DecodeUnmarshaler
<1>2. PICK b \in Buffers : Gets(b, w, Advanced(p)) /\ Calls(p, t, Frame("Unmarshal", b, <<>>, at))
  BY DEF DecodeUnmarshaler
<1> DEFINE c == Frame("Unmarshal", b, <<>>, at)
<1>3. ComesTo(t, max, v, a.depth, st, n, None, a.outcome) /\ v # <<>> /\ Head(v).kind = "custom" /\ Head(v).of = w
  BY <1>1, DecodingIs
<1>4. c.at = at /\ Calls(p, t, c) /\ c = Frame("Unmarshal", b, <<>>, at)
  BY <1>2 DEF Frame
<1> HIDE DEF t, h, a, max, v, n, st, w, c
<1>5. in \in Promise!Outcomes
  BY <1>3, ComesNext DEF IsOutcome
<1>6. /\ ComesTo(t, max, Tail(v), a.depth, in.into, n, in.err, a.outcome)
      /\ ComesTo(c, max, w, 1, st, Promise!NoneFilled, Checked(1, max), in)
  BY <1>3, <1>4, ComesCustom
<1> DEFINE op == "Unmarshal"
<1>7. op = "Unmarshal" /\ op # "duration" /\ c = Frame(op, b, <<>>, at)
  BY <1>4
<1> HIDE DEF in, at, op
<1> QED
  BY <1>1, <1>2, <1>4, <1>5, <1>6, <1>7, OwnCallFollows DEF t, h, a, max, v, n, st, w

LEMMA StartDurationFollows ==
  ASSUME IInv, NEW p \in Procs, NEW g, Here(p, g), request[p].max = MaxRecursionDepth, StartDuration(p)
  PROVE  Continues(p) /\ Off(p)
<1> DEFINE t == Top(p)
           h == heap[t.b]
           a == Ghost(p, g)
           max == request[p].max
           v == Left(h)
           n == FilledIn(p, h)
           st == structs[p]
           w == Current(p).of
           err == IF Promise!AllNumbers(w) THEN None ELSE "bad"
           in == [into |-> st, counts |-> n, err |-> err]
           at == t.at
<1>1. Decoding(p, "duration") /\ structs' = structs
  BY DEF StartDuration
<1>2. PICK b \in Buffers : Gets(b, w, Advanced(p)) /\ Calls(p, t, Frame("duration", b, <<>>, at))
  BY DEF StartDuration
<1> DEFINE c == Frame("duration", b, <<>>, at)
<1>3. ComesTo(t, max, v, a.depth, st, n, None, a.outcome) /\ v # <<>> /\ Head(v).kind = "duration" /\ Head(v).of = w
  BY <1>1, DecodingIs
<1> HIDE DEF t, h, a, max, v, n, st, w
<1>4. st \in Promise!Arrays /\ n \in Promise!Counts
  BY <1>3, DecoderIs DEF ComesTo
<1>5. in \in Promise!Outcomes
  <2> DEFINE A == Promise!Arrays
             C == Promise!Counts
  <2> HIDE DEF A, C
  <2>1. st \in A /\ n \in C
    BY <1>4 DEF A, C
  <2>2. err \in {Promise!None, "too deep", "bad"}
    BY NonesAreOne
  <2> HIDE DEF err
  <2>3. in \in [into : A, counts : C, err : {Promise!None, "too deep", "bad"}]
    BY <2>1, <2>2
  <2> QED
    BY <2>3 DEF Promise!Outcomes, A, C
<1>6. ComesTo(t, max, Tail(v), a.depth, st, n, err, a.outcome)
  <2> DEFINE err2 == IF Head(v).kind = "duration" /\ Promise!AllNumbers(Head(v).of) THEN None ELSE "bad"
  <2>1. ComesTo(t, max, Tail(v), a.depth, st, n, err2, a.outcome)
    BY <1>3, ComesOther
  <2>2. err2 = err
    BY <1>3
  <2> HIDE DEF err, err2
  <2> QED
    BY <2>1, <2>2
<1>7. in.into = st /\ in.err = err
  OBVIOUS
<1>8. err = IF Promise!AllNumbers(w) THEN None ELSE "bad"
  OBVIOUS
<1> DEFINE op == "duration"
<1>9. op = "duration" /\ op # "Unmarshal" /\ c = Frame(op, b, <<>>, at)
  OBVIOUS
<1>10. Calls(p, t, c)
  BY <1>2
<1> HIDE DEF in, at, op, c, err
<1>11. ComesTo(t, max, Tail(v), a.depth, in.into, n, in.err, a.outcome)
  BY <1>6, <1>7
<1> QED
  BY <1>1, <1>2, <1>5, <1>7, <1>8, <1>9, <1>10, <1>11, OwnCallFollows DEF t, h, a, max, v, n, st, w

LEMMA NumbersNext ==
  ASSUME NEW v, IsSeq(v), v # <<>>
  PROVE  Promise!AllNumbers(v) <=> Head(v).kind = "number" /\ Promise!AllNumbers(Tail(v))
<1> DEFINE t == Tail(v)
<1>1. /\ IsSeq(t) /\ Head(v) = v[1] /\ Len(t) = Len(v) - 1 /\ \A k \in 1..(Len(v) - 1) : t[k] = v[k + 1]
  BY SeqSplit
<1>2. Len(v) \in Nat \ {0} /\ DOMAIN v = 1..Len(v) /\ DOMAIN t = 1..(Len(v) - 1)
  BY <1>1, StackLen
<1> HIDE DEF t
<1>3. (\A k \in 1..Len(v) : v[k].kind = "number") <=> v[1].kind = "number" /\ \A k \in 1..(Len(v) - 1) : t[k].kind = "number"
  <2>1. ASSUME v[1].kind = "number", \A k \in 1..(Len(v) - 1) : t[k].kind = "number", NEW k \in 1..Len(v), k # 1
        PROVE  v[k].kind = "number"
    <3>1. k - 1 \in 1..(Len(v) - 1) /\ (k - 1) + 1 = k
      BY <1>2, <2>1
    <3>2. t[k - 1].kind = "number" /\ t[k - 1] = v[(k - 1) + 1]
      BY <1>1, <2>1, <3>1
    <3> QED
      BY <3>1, <3>2
  <2>2. ASSUME \A k \in 1..Len(v) : v[k].kind = "number", NEW k \in 1..(Len(v) - 1) PROVE t[k].kind = "number"
    <3>1. k + 1 \in 1..Len(v) /\ t[k] = v[k + 1]
      BY <1>1, <1>2
    <3> QED
      BY <2>2, <3>1
  <2>3. 1 \in 1..Len(v)
    BY <1>2
  <2> QED
    BY <2>1, <2>2, <2>3
<1> QED
  BY <1>1, <1>2, <1>3 DEF Promise!AllNumbers, t

LEMMA NumbersNone == Promise!AllNumbers(<<>>)
BY DEF Promise!AllNumbers

LEMMA NothingLeft == ASSUME NEW o, Reads(o), o.index = Len(o.buf) PROVE Left(o) = <<>>
<1>1. Len(o.buf) \in Nat /\ o.index \in 0..Len(o.buf) /\ IsSeq(o.buf)
  BY StackLen DEF Reads
<1>2. IsSeq(Left(o)) /\ Len(Left(o)) = Len(o.buf) - o.index
  BY <1>1, LeftIs
<1>3. Len(Left(o)) = 0
  BY <1>1, <1>2
<1> QED
  BY <1>2, <1>3, StackLen

LEMMA DecodeDurationFollows ==
  ASSUME IInv, NEW p \in Procs, NEW g, Here(p, g), DecodeDuration(p)
  PROVE  Continues(p) /\ Off(p) /\ reply' = reply
<1> DEFINE t == Top(p)
           h == heap[t.b]
           a == Ghost(p, g)
           max == request[p].max
           v == Left(h)
           st == structs[p]
<1>1. stack[p] # <<>> /\ t.op = "duration" /\ t.pc = "run" /\ structs' = structs
  BY DEF DecodeDuration, Runs
<1>2. /\ request[p].op # "Marshal" /\ Shape(request[p], t, a) /\ t.scratch = {} /\ BuffersOf(t) = {t.b} /\ Releasing(t) = t.b
      /\ DecodingTop(p, max, h, st, t, a) /\ h.max = max /\ t.b \in Buffers /\ IsFrame(t) /\ IsBuffer(h)
  BY <1>1, UnmarshalTop
<1>3. Reads(h) /\ Indexes(h) /\ h.depth \in Nat /\ a.outcome.into = st
  BY <1>1, <1>2 DEF DecodingTop
<1>4. a.outcome.err = IF Promise!AllNumbers(v) THEN None ELSE "bad"
  <2> HIDE DEF t, h, a, max, v, st
  <2> QED
    BY <1>1, <1>2 DEF DecodingTop, v
<1>5. t.result.err = None
  BY <1>1, <1>2 DEF Shape
<1>6. CASE AtEnd(p)
  <2> DEFINE e == [t EXCEPT !.pc = "clear"]
  <2>1. Becomes(p, e) /\ heap' = heap /\ reply' = reply
    BY <1>6 DEF DecodeDuration, StartRelease
  <2>2. h.index = Len(h.buf)
    BY <1>6 DEF AtEnd, Bytes
  <2>3. a.outcome.err = None
    <3>1. v = <<>>
      BY <1>3, <2>2, NothingLeft
    <3> HIDE DEF v
    <3> QED
      BY <1>4, <3>1, NumbersNone
  <2>4. e.op = t.op /\ e.b = t.b /\ e.saved = t.saved /\ e.scratch = {} /\ e.pc = "clear" /\ e.result = t.result
    <3> HIDE DEF t
    <3> QED
      BY <1>2 DEF IsFrame
  <2> HIDE DEF e, h, a, v, st, max
  <2>5. Off(p) /\ Steady(p)
    BY <2>1, HeapSame
  <2>6. Releasing(e) = t.b /\ BuffersOf(e) = {t.b}
    BY <2>4 DEF Releasing, BuffersOf
  <2>7. Shape(request[p], e, a)
    BY <1>1, <1>2, <2>4 DEF Shape
  <2>8. DecodingTop(p, max, h, st, e, a)
    BY <1>3, <1>5, <2>3, <2>4 DEF DecodingTop
  <2>9. AtTopNow(p, e, a)
    BY <1>1, <1>2, <2>1, <2>4, <2>6, <2>8 DEF AtTopNow, AtTop, max, st, h
  <2>10. Limited(p, e)
    BY <1>2, <2>1, <2>6 DEF Limited, max, h
  <2>11. Replaces(p, e) /\ BuffersOf(e) \cap InUse(p) \subseteq BuffersOf(t)
    BY <1>2, <2>4, <2>6 DEF Replaces
  <2> QED
    BY <1>1, <2>1, <2>5, <2>7, <2>9, <2>10, <2>11, BecomesFollows DEF a
<1>7. CASE ~AtEnd(p)
  <2> DEFINE x == Next2(p)
  <2>1. h.index # Len(h.buf) /\ Current(p) = h.buf[h.index + 1]
    BY <1>7 DEF AtEnd, Bytes, Current
  <2>2. /\ Advanced(p) = [heap EXCEPT ![t.b] = x] /\ Reads(x) /\ Left(x) = Tail(v) /\ x.depth = h.depth /\ x.max = max /\ Indexes(x)
    BY <1>1, <1>2, <1>3, <2>1, AdvancedIs
  <2>3. IsSeq(v) /\ v # <<>> /\ Head(v) = Current(p)
    <3> DEFINE u == [buf |-> h.buf, index |-> h.index + 1]
    <3>1. u.buf = h.buf /\ u.index = h.index + 1
      OBVIOUS
    <3>2. v \in Lists
      BY <1>3 DEF Reads
    <3> HIDE DEF h, u
    <3> QED
      BY <1>3, <2>1, <3>1, <3>2, LeftNext, ListsAreSeqs
  <2>4. CASE Current(p).kind = "number"
    <3>1. heap' = Advanced(p) /\ stack' = stack /\ reply' = reply
      BY <1>7, <2>4 DEF DecodeDuration
    <3> HIDE DEF t, h, a, max, v, st, x
    <3>2. Promise!AllNumbers(v) <=> Promise!AllNumbers(Left(x))
      BY <2>2, <2>3, <2>4, NumbersNext
    <3>3. heap'[t.b] = x /\ Off(p) /\ Steady(p)
      BY <1>1, <2>2, <3>1, BufferChanged DEF t
    <3>4. a.outcome.err = IF Promise!AllNumbers(Left(x)) THEN None ELSE "bad"
      BY <1>4, <3>2
    <3>5. DecodingTop(p, max, x, st, t, a)
      BY <1>1, <1>3, <2>2, <3>4 DEF DecodingTop
    <3>6. AtTopNow(p, t, a)
      BY <1>1, <1>2, <3>3, <3>5 DEF AtTopNow, AtTop, max, st
    <3>7. Limited(p, t)
      BY <1>2, <2>2, <3>3 DEF Limited, max
    <3> QED
      BY <1>1, <3>1, <3>3, <3>6, <3>7, SameFollows DEF a, t
  <2>5. CASE Current(p).kind # "number"
    <3> DEFINE f == [t EXCEPT !.result.err = "bad"]
               hs == Freed(t.b)
    <3>1. Deliver(p, f, hs)
      BY <1>7, <2>5 DEF DecodeDuration
    <3>2. PICK n \in Nat \ {0} : Len(stack[p]) = n + 1
      BY <1>1, NotAlone
    <3>3. a.outcome.err = "bad"
      <4>1. ~Promise!AllNumbers(v)
        BY <2>3, <2>5, NumbersNext
      <4> QED
        BY <1>4, <4>1
    <3>4. f.result.err = "bad"
      <4>1. t.result = Promise!Items(<<>>, t.result.err)
        BY <1>1, <1>2 DEF Shape
      <4> HIDE DEF t
      <4>2. f.result = [t.result EXCEPT !.err = "bad"]
        BY <1>2 DEF IsFrame
      <4> HIDE DEF f
      <4> QED
        BY <4>1, <4>2 DEF Promise!Items
    <3>5. IsHeap(hs) /\ \A c \in Buffers : c \notin BuffersOf(t) => hs[c] = heap[c]
      <4>1. hs = [heap EXCEPT ![t.b] = NewBuffer(0)] /\ IsBuffer(NewBuffer(0)) /\ IsHeap(heap)
        BY NewBufferIsNew DEF Freed, IInv, HeapOK
      <4> HIDE DEF hs, t
      <4> QED
        BY <1>2, <4>1 DEF IsHeap
    <3>6. t.op # "message"
      BY <1>1
    <3>7. a.outcome.into = structs[p] /\ a.outcome.err = f.result.err
      BY <1>3, <3>3, <3>4
    <3> HIDE DEF f, hs
    <3>8. reply' = reply
      BY <1>1, <3>1, <3>2, DeliversWithin
    <3> QED
      BY <1>1, <1>2, <3>1, <3>2, <3>5, <3>6, <3>7, <3>8, OwnReturns
  <2> QED
    BY <2>4, <2>5
<1> QED
  BY <1>6, <1>7
\* h at another depth
Deeper(x, h, d) ==
  /\ x.buf = h.buf /\ x.index = h.index /\ x.depth = d /\ x.max = h.max /\ x.array_indexes = h.array_indexes
  /\ IsBuffer(x)

LEMMA DeeperIs ==
  ASSUME NEW h, IsBuffer(h), NEW d
  PROVE  Deeper([h EXCEPT !.depth = d], h, d)
<1>1. IsBuffer([h EXCEPT !.depth = d])
  BY BufferChanges
<1> QED
  BY <1>1 DEF IsBuffer, Deeper

LEMMA EnterFollows ==
  ASSUME IInv, NEW p \in Procs, NEW g, Here(p, g), Enter(p)
  PROVE  Continues(p) /\ Off(p) /\ reply' = reply
<1> DEFINE t == Top(p)
           h == heap[t.b]
           a == Ghost(p, g)
           max == request[p].max
           v == Left(h)
           n == FilledIn(p, h)
           st == structs[p]
           d == h.depth + 1
           x == [h EXCEPT !.depth = d]
           o == a.outcome
<1>1. stack[p] # <<>> /\ t.pc = "enter" /\ structs' = structs
  BY DEF Enter
<1>2. t.op # "Marshal"
  BY <1>1, TopIs DEF Shape
<1>3. /\ request[p].op # "Marshal" /\ max \in Nat /\ Shape(request[p], t, a) /\ t.scratch = {} /\ BuffersOf(t) = {t.b} /\ Releasing(t) = t.b
      /\ DecodingTop(p, max, h, st, t, a) /\ h.max = max /\ t.b \in Buffers /\ IsFrame(t) /\ IsBuffer(h)
  BY <1>1, <1>2, UnmarshalTop
<1>4. t.op \in {"Unmarshal", "message"}
  BY <1>1, <1>3 DEF Shape
<1>5. Reads(h) /\ Indexes(h) /\ d = a.depth /\ h.depth \in Nat /\ t.result.err = None
  <2> HIDE DEF h, a, max, st, t
  <2> QED
    BY <1>1, <1>3 DEF DecodingTop
<1>12. /\ d > max => ComesTo(t, max, v, a.depth, st, n, "too deep", o)
       /\ ~(d > max) => ComesTo(t, max, v, a.depth, st, n, None, o)
  <2> HIDE DEF h, a, max, st, t
  <2>1. ComesTo(t, max, v, a.depth, st, n, IF a.depth > max THEN "too deep" ELSE None, o)
    BY <1>1, <1>3 DEF DecodingTop
  <2>2. a.depth = d
    BY <1>5
  <2> HIDE DEF v, n, o, d
  <2>3. CASE d > max
    BY <2>1, <2>2, <2>3
  <2>4. CASE ~(d > max)
    BY <2>1, <2>2, <2>4
  <2> QED
    BY <2>3, <2>4
<1>6. IF x.depth > x.max THEN EndStruct(p, x, "too deep")
      ELSE /\ Becomes(p, [t EXCEPT !.pc = "run"]) /\ heap' = [heap EXCEPT ![t.b] = x] /\ reply' = reply
  BY DEF Enter
<1>7. Deeper(x, h, d)
  <2> HIDE DEF h, d
  <2> QED
    BY <1>3, DeeperIs
<1>8. x.buf = h.buf /\ x.index = h.index /\ x.depth = d /\ x.max = max /\ x.array_indexes = h.array_indexes /\ IsBuffer(x)
  <2> HIDE DEF x, h, d
  <2> QED
    BY <1>3, <1>7 DEF Deeper
<1> HIDE DEF x, h, d, max, st, v, n
<1>9. Reads(x) /\ Left(x) = v /\ Indexes(x) /\ FilledIn(p, x) = n /\ x.depth \in Nat
  BY <1>5, <1>8 DEF Reads, Left, Indexes, FilledIn, v, n, d
<1>10. CASE d > max
  <2>1. EndStruct(p, x, "too deep")
    BY <1>6, <1>8, <1>10
  <2>2. ComesTo(t, max, v, a.depth, st, n, "too deep", o)
    BY <1>10, <1>12
  <2> DEFINE err == "too deep"
  <2>3. err # None
    BY DEF None
  <2>7. EndStruct(p, x, err)
    BY <2>1
  <2>6. ComesTo(t, max, v, a.depth, st, n, err, o)
    BY <2>2
  <2> HIDE DEF err, a, o, t
  <2>4. o.into = st /\ o.counts = n /\ o.err = err
    BY <2>3, <2>6, ComesEnd
  <2>5. x.depth + 1 >= a.depth
    BY <1>5, <1>8 DEF d
  <2> QED
    BY <1>1, <1>4, <1>8, <1>9, <2>3, <2>4, <2>7, <2>5, EndStructFollows DEF max, st, a, o, t
<1>11. CASE ~(d > max)
  <2> DEFINE f == [t EXCEPT !.pc = "run"]
  <2>1. Becomes(p, f) /\ heap' = [heap EXCEPT ![t.b] = x] /\ reply' = reply
    BY <1>6, <1>8, <1>11
  <2>2. f.op = t.op /\ f.b = t.b /\ f.saved = t.saved /\ f.scratch = {} /\ f.pc = "run" /\ f.result = t.result /\ f.at = t.at
    <3> HIDE DEF t
    <3> QED
      BY <1>3 DEF IsFrame
  <2>3. ComesTo(t, max, v, a.depth, st, n, None, o)
    BY <1>11, <1>12
  <2> HIDE DEF f, a, o, t
  <2>4. heap'[t.b] = x /\ Off(p) /\ Steady(p)
    BY <1>1, <2>1, BufferChanged DEF t
  <2>5. Releasing(f) = t.b /\ BuffersOf(f) = {t.b}
    BY <2>2 DEF Releasing, BuffersOf
  <2>6. Shape(request[p], f, a)
    BY <1>3, <1>4, <2>2 DEF Shape
  <2>7. ComesTo(f, max, v, a.depth, st, n, None, o)
    BY <2>2, <2>3, ComesSame
  <2>8. x.depth = a.depth /\ x.depth >= a.depth
    BY <1>5, <1>8, <1>9
  <2>9. DecodingTop(p, max, x, st, f, a)
    BY <1>4, <1>5, <1>9, <2>2, <2>7, <2>8 DEF DecodingTop, o
  <2>10. AtTopNow(p, f, a)
    BY <1>1, <1>3, <2>2, <2>4, <2>5, <2>9 DEF AtTopNow, AtTop, max, st
  <2>11. Limited(p, f)
    BY <1>8, <2>4, <2>5 DEF Limited, max
  <2>12. Replaces(p, f) /\ BuffersOf(f) \cap InUse(p) \subseteq BuffersOf(t)
    BY <1>3, <2>2, <2>5 DEF Replaces, t
  <2> QED
    BY <1>1, <2>1, <2>4, <2>6, <2>10, <2>11, <2>12, BecomesFollows DEF a, t
<1> QED
  BY <1>10, <1>11

LEMMA LeaveFollows ==
  ASSUME IInv, NEW p \in Procs, NEW g, Here(p, g), Leave(p)
  PROVE  Continues(p) /\ Off(p) /\ reply' = reply
<1> DEFINE t == Top(p)
           h == heap[t.b]
           a == Ghost(p, g)
           max == request[p].max
           v == Left(h)
           n == FilledIn(p, h)
           st == structs[p]
           d == h.depth - 1
           x == [h EXCEPT !.depth = d]
           err == t.result.err
           o == a.outcome
<1>1. /\ stack[p] # <<>> /\ t.pc = "run" /\ t.op \in {"Unmarshal", "message"} /\ structs' = structs
      /\ EndStruct(p, x, err) /\ (err # None \/ h.index = Len(h.buf))
  BY DEF Leave, InStruct, Runs, AtEnd, Bytes
<1>2. /\ request[p].op # "Marshal" /\ Shape(request[p], t, a)
      /\ DecodingTop(p, max, h, st, t, a) /\ h.max = max /\ IsBuffer(h)
  BY <1>1, UnmarshalTop
<1>3. a.depth \in Nat \ {0}
  BY <1>2 DEF Shape
<1>4. /\ Reads(h) /\ Indexes(h) /\ h.depth \in Nat /\ h.depth >= a.depth /\ (err = None => h.depth = a.depth)
      /\ ComesTo(t, max, v, a.depth, st, n, err, o)
  <2> HIDE DEF h, a, max, st, t
  <2> QED
    BY <1>1, <1>2 DEF DecodingTop
<1>5. v = <<>> \/ err # None
  BY <1>1, <1>4, NothingLeft
<1>6. Deeper(x, h, d)
  <2> HIDE DEF h, d
  <2> QED
    BY <1>2, DeeperIs
<1> HIDE DEF x, h, max, st, v, n, a, o, t, err
<1>7. x.buf = h.buf /\ x.index = h.index /\ x.depth = d /\ x.max = max /\ x.array_indexes = h.array_indexes /\ IsBuffer(x)
  BY <1>2, <1>6 DEF Deeper
<1>8. Indexes(x) /\ FilledIn(p, x) = n
  BY <1>4, <1>7 DEF Indexes, FilledIn, n
<1>9. o.into = st /\ o.counts = n /\ o.err = err
  BY <1>4, <1>5, ComesEnd
<1>10. x.depth \in Nat /\ x.depth + 1 >= a.depth /\ (err = None => x.depth + 1 = a.depth)
  BY <1>3, <1>4, <1>7
<1> QED
  BY <1>1, <1>7, <1>8, <1>9, <1>10, EndStructFollows DEF max, st, a, o, t
-----------------------------------------------------------------------------
(* what a step leaves alone *)

LEMMA OthersFollow ==
  ASSUME IInv, NEW q \in Procs, stack[q] # <<>>, NEW g, Here(q, g), stack'[q] = stack[q], structs'[q] = structs[q],
         \A b \in InUse(q) : heap'[b] = heap[b]
  PROVE  Continues(q)
<1> DEFINE s == stack[q]
           r == request[q]
<1>1. InUse(q) = BuffersIn(s) /\ IsSeq(s) /\ s # <<>> /\ s[Len(s)] = Top(q)
  BY TopFacts, InUseIs DEF Good, Top
<1>2. Chain(q, s, heap, r, g) /\ AtTop(q, r, heap[s[Len(s)].b], heap[Releasing(s[Len(s)])], structs[q], s[Len(s)], g[Len(s)])
  BY DEF Here, Follows
<1>3. \A b \in BuffersIn(s) : heap'[b] = heap[b]
  BY <1>1
<1>4. stack'[q] = s /\ Top(q).b \in BuffersIn(s) /\ Releasing(Top(q)) \in BuffersIn(s)
  BY <1>1, TopFacts
<1> HIDE DEF s, r
<1>5. \A k \in 1..Len(s) : s[k].b \in BuffersIn(s)
  <2>1. \A k \in 1..Len(s) : s[k].b \in BuffersOf(s[k])
    BY DEF BuffersOf
  <2> QED
    BY <1>1, <2>1, InBuffers
<1>6. Chain(q, s, heap', r, g)
  BY <1>2, <1>3, <1>5 DEF Chain
<1>7. AtTop(q, r, heap'[s[Len(s)].b], heap'[Releasing(s[Len(s)])], structs'[q], s[Len(s)], g[Len(s)])
  BY <1>1, <1>2, <1>3, <1>4
<1>8. Follows(q, s, heap', structs'[q], r, g)
  BY <1>1, <1>6, <1>7 DEF Follows
<1> QED
  BY <1>4, <1>8 DEF Continues, Following, r

Elsewhere(p) == \A q \in Procs : q # p => stack'[q] = stack[q]

LEMMA StackElsewhere ==
  ASSUME IInv, NEW p \in Procs
  PROVE  /\ (\A s : stack' = [stack EXCEPT ![p] = s] => Elsewhere(p))
         /\ (\A f : Becomes(p, f) \/ StartRelease(p, f) => Elsewhere(p))
         /\ (\A f, c : Calls(p, f, c) => Elsewhere(p))
<1>1. stack = [q \in Procs |-> stack[q]]
  BY DEF IInv, StackOK
<1>2. ASSUME NEW s, stack' = [stack EXCEPT ![p] = s] PROVE Elsewhere(p)
  BY <1>1, <1>2 DEF Elsewhere
<1>3. ASSUME NEW f, Becomes(p, f) PROVE Elsewhere(p)
  BY <1>2, <1>3 DEF Becomes
<1>4. ASSUME NEW f, StartRelease(p, f) PROVE Elsewhere(p)
  BY <1>3, <1>4 DEF StartRelease
<1>5. ASSUME NEW f, NEW c, Calls(p, f, c) PROVE Elsewhere(p)
  BY <1>2, <1>5 DEF Calls
<1> QED
  BY <1>2, <1>3, <1>4, <1>5

LEMMA DeliverElsewhere == ASSUME IInv, NEW p \in Procs, NEW f, NEW hs, Deliver(p, f, hs) PROVE Elsewhere(p)
<1>1. \E s : stack' = [stack EXCEPT ![p] = s]
  BY DEF Deliver
<1> QED
  BY <1>1, StackElsewhere

LEMMA EndStructElsewhere ==
  ASSUME IInv, NEW p \in Procs, NEW h, NEW err, EndStruct(p, h, err)
  PROVE  Elsewhere(p)
<1>1. \E f, hs : StartRelease(p, f) \/ Deliver(p, f, hs)
  BY DEF EndStruct
<1> QED
  BY <1>1, StackElsewhere, DeliverElsewhere

LEMMA StepElsewhere == ASSUME IInv, NEW p \in Procs, Step(p) PROVE Elsewhere(p)
<1>1. stack' = stack => Elsewhere(p)
  BY DEF Elsewhere
<1>2. CASE EncodeNumber(p) \/ EncodeFailing(p) \/ DecodeBad(p) \/ PackNumber(p) \/ Clear(p)
  <2>1. \E f : Becomes(p, f)
    BY <1>2 DEF EncodeNumber, EncodeFailing, DecodeBad, PackNumber, Clear
  <2> QED
    BY <2>1, StackElsewhere
<1>3. CASE EncodeMarshaler(p) \/ DecodeMessage(p) \/ DecodeUnmarshaler(p) \/ StartDuration(p)
  <2>1. \E f, c : Calls(p, f, c)
    BY <1>3 DEF EncodeMarshaler, DecodeMessage, DecodeUnmarshaler, StartDuration
  <2> QED
    BY <2>1, StackElsewhere
<1>4. CASE EndMarshal(p) \/ AppendPacked(p)
  <2>1. \E f : StartRelease(p, f)
    BY <1>4 DEF EndMarshal, AppendPacked
  <2> QED
    BY <2>1, StackElsewhere
<1>5. CASE StartPacked(p)
  <2>1. \E f : Becomes(p, f)
    BY <1>5 DEF StartPacked
  <2> QED
    BY <2>1, StackElsewhere
<1>6. CASE DecodeNumber(p)
  BY <1>1, <1>6 DEF DecodeNumber
<1>7. CASE Enter(p)
  <2>1. (\E f : Becomes(p, f)) \/ (\E h, err : EndStruct(p, h, err))
    BY <1>7 DEF Enter
  <2> QED
    BY <2>1, StackElsewhere, EndStructElsewhere
<1>8. CASE Leave(p)
  <2>1. \E h, err : EndStruct(p, h, err)
    BY <1>8 DEF Leave
  <2> QED
    BY <2>1, EndStructElsewhere
<1>9. CASE DecodeDuration(p)
  <2>1. (\E f : StartRelease(p, f)) \/ stack' = stack \/ (\E f, hs : Deliver(p, f, hs))
    BY <1>9 DEF DecodeDuration
  <2> QED
    BY <1>1, <2>1, StackElsewhere, DeliverElsewhere
<1>10. CASE PutBack(p)
  <2>1. (\E f : Becomes(p, f)) \/ (\E f, hs : Deliver(p, f, hs))
    BY <1>10 DEF PutBack
  <2> QED
    BY <2>1, StackElsewhere, DeliverElsewhere
<1> QED
  BY <1>2, <1>3, <1>4, <1>5, <1>6, <1>7, <1>8, <1>9, <1>10 DEF Step
-----------------------------------------------------------------------------
(* what a step comes to *)

\* The goroutine goes on with what it follows, or it returns what was promised.
Goes(p) == Continues(p) /\ Off(p) /\ reply' = reply
Ends(p) == stack'[p] = <<>> /\ Off(p) /\ reply' = [reply EXCEPT ![p] = {Promise!Answer(request[p])}]

\* It leaves the others alone.
Alone(p) ==
  /\ Elsewhere(p) /\ request' = request /\ MaxRecursionDepth' = MaxRecursionDepth
  /\ structs' = [q \in Procs |-> structs'[q]] /\ \A q \in Procs : q # p => structs'[q] = structs[q]

LEMMA StepAlone ==
  ASSUME IInv, NEW p \in Procs, NEW g, Here(p, g), structs = [q \in Procs |-> structs[q]], Step(p)
  PROVE  Alone(p)
<1>1. Elsewhere(p)
  BY StepElsewhere
<1>2. request' = request /\ MaxRecursionDepth' = MaxRecursionDepth
  BY DEF Step, EncodeNumber, EncodeMarshaler, EncodeFailing, EndMarshal, StartPacked, PackNumber, AppendPacked, Enter, Leave,
         DecodeNumber, DecodeBad, DecodeMessage, DecodeUnmarshaler, StartDuration, DecodeDuration, Clear, PutBack
<1>3. structs' = structs \/ DecodeNumber(p)
  BY DEF Step, EncodeNumber, EncodeMarshaler, EncodeFailing, EndMarshal, StartPacked, PackNumber, AppendPacked, Enter, Leave,
         DecodeBad, DecodeMessage, DecodeUnmarshaler, StartDuration, DecodeDuration, Clear, PutBack
<1>4. structs' = [q \in Procs |-> structs'[q]] /\ \A q \in Procs : q # p => structs'[q] = structs[q]
  BY <1>3, DecodeNumberFollows
<1> QED
  BY <1>1, <1>2, <1>4 DEF Alone

LEMMA StepAnswers ==
  ASSUME IInv, NEW p \in Procs, NEW g, Here(p, g), request[p].max = MaxRecursionDepth, structs = [q \in Procs |-> structs[q]],
         Step(p)
  PROVE  Goes(p) \/ Ends(p)
<1>1. CASE EncodeNumber(p)
  BY <1>1, EncodeNumberFollows DEF Goes, EncodeNumber
<1>2. CASE EncodeMarshaler(p)
  BY <1>2, EncodeMarshalerFollows DEF Goes, EncodeMarshaler
<1>3. CASE EncodeFailing(p)
  BY <1>3, EncodeFailingFollows DEF Goes, EncodeFailing
<1>4. CASE EndMarshal(p)
  BY <1>4, EndMarshalFollows DEF Goes, EndMarshal
<1>5. CASE StartPacked(p)
  BY <1>5, StartPackedFollows DEF Goes, StartPacked
<1>6. CASE PackNumber(p)
  BY <1>6, PackNumberFollows DEF Goes, PackNumber
<1>7. CASE AppendPacked(p)
  BY <1>7, AppendPackedFollows DEF Goes, AppendPacked
<1>8. CASE Enter(p)
  BY <1>8, EnterFollows DEF Goes
<1>9. CASE Leave(p)
  BY <1>9, LeaveFollows DEF Goes
<1>10. CASE DecodeNumber(p)
  BY <1>10, DecodeNumberFollows DEF Goes, DecodeNumber
<1>11. CASE DecodeBad(p)
  BY <1>11, DecodeBadFollows DEF Goes, DecodeBad
<1>12. CASE DecodeMessage(p)
  BY <1>12, DecodeMessageFollows DEF Goes, DecodeMessage
<1>13. CASE DecodeUnmarshaler(p)
  BY <1>13, DecodeUnmarshalerFollows DEF Goes, DecodeUnmarshaler
<1>14. CASE StartDuration(p)
  BY <1>14, StartDurationFollows DEF Goes, StartDuration
<1>15. CASE DecodeDuration(p)
  BY <1>15, DecodeDurationFollows DEF Goes
<1>16. CASE Clear(p)
  BY <1>16, ClearFollows DEF Goes, Clear
<1>17. CASE PutBack(p)
  <2>1. CASE Top(p).scratch # {} \/ Len(stack[p]) # 1
    BY <1>17, <2>1, PutBackFollows DEF Goes
  <2>2. CASE Top(p).scratch = {} /\ Len(stack[p]) = 1
    <3>1. stack' = [stack EXCEPT ![p] = <<>>] /\ heap' = heap /\ reply' = [reply EXCEPT ![p] = {Promise!Answer(request[p])}]
      BY <1>17, <2>2, PutBackAnswers
    <3>2. stack'[p] = <<>>
      BY <3>1 DEF IInv, StackOK
    <3> QED
      BY <3>1, <3>2, HeapSame DEF Ends
  <2> QED
    BY <2>1, <2>2
<1> QED
  BY <1>1, <1>2, <1>3, <1>4, <1>5, <1>6, <1>7, <1>8, <1>9, <1>10, <1>11, <1>12, <1>13, <1>14, <1>15, <1>16, <1>17 DEF Step
-----------------------------------------------------------------------------
(* what a new call of a client comes to *)

LEMMA ClientGets ==
  ASSUME IInv, NEW p \in Procs, NEW b \in Buffers, NEW e, Gets(b, e, heap)
  PROVE  /\ heap'[b].buf = e /\ heap'[b].index = 0 /\ heap'[b].err = None /\ heap'[b].depth = 0
         /\ heap'[b].array_indexes = NoIndexes /\ heap'[b].max = MaxRecursionDepth
         /\ Off(p)
<1> DEFINE h == IF b \in buffer_pool THEN heap[b] ELSE NewBuffer(MaxRecursionDepth)
           x == newBuffer(h, e)
<1>1. \A q \in Procs : b \notin InUse(q) /\ InUse(q) \subseteq Buffers
  <2>1. b \in buffer_pool \/ b \in Unused
    <3>1. b \in buffer_pool \/ (Unused # {} /\ b = CHOOSE u \in Unused : TRUE)
      BY DEF Gets
    <3> QED
      BY <3>1
  <2> QED
    BY <2>1 DEF Unused, IInv, Disjoint, StackOK
<1>2. IsNew(h)
  <2>1. b \in buffer_pool => IsNew(heap[b])
    BY DEF IInv, ClearedFirst
  <2> QED
    BY <2>1, NewBufferIsNew
<1>3. heap' = [heap EXCEPT ![b] = x]
  BY DEF Gets
<1> HIDE DEF h
<1>4. x = [h EXCEPT !.buf = e, !.max = MaxRecursionDepth]
  BY DEF newBuffer
<1>5. /\ x.buf = e /\ x.index = 0 /\ x.err = None /\ x.depth = 0 /\ x.array_indexes = NoIndexes
      /\ x.max = MaxRecursionDepth
  BY <1>2, <1>4 DEF IsNew, IsBuffer
<1> HIDE DEF x
<1>6. heap'[b] = x /\ \A c \in Buffers : c # b => heap'[c] = heap[c]
  BY <1>3 DEF IInv, HeapOK, IsHeap
<1>7. Off(p)
  BY <1>1, <1>6 DEF Off
<1> QED
  BY <1>5, <1>6, <1>7

LEMMA StartFollows ==
  ASSUME NEW p, NEW r, NEW f, stack'[p] = <<f>>, NEW a, Asked(r, f, a), Shape(r, f, a),
         AtTop(p, r, heap'[f.b], heap'[Releasing(f)], structs'[p], f, a), \A b \in BuffersOf(f) : heap'[b].max = r.max
  PROVE  Following(p, stack'[p], heap', structs'[p], r)
<1> DEFINE s == <<f>>
           g == <<a>>
<1>1. IsSeq(s) /\ Len(s) = 1 /\ s[1] = f /\ g[1] = a /\ s # <<>>
  BY SeqOne
<1> HIDE DEF s, g
<1>2. \A b \in BuffersIn(s) : heap'[b].max = r.max
  BY <1>1, InBuffers
<1>3. \A k \in 1..Len(s) : k = 1
  BY <1>1
<1>4. Apart(s)
  <2> SUFFICES ASSUME NEW k \in 1..Len(s), NEW j \in 1..Len(s), k < j PROVE FALSE
    BY DEF Apart
  <2>1. k = 1 /\ j = 1
    BY <1>3
  <2> QED
    BY <2>1
<1>5. \A k \in 1..Len(s) : Shape(r, s[k], g[k])
  BY <1>1, <1>3
<1>6. \A k \in 1..Len(s) : ~(k < Len(s))
  BY <1>1
<1>7. Chain(p, s, heap', r, g)
  BY <1>1, <1>2, <1>4, <1>5, <1>6 DEF Chain
<1>8. AtTop(p, r, heap'[s[Len(s)].b], heap'[Releasing(s[Len(s)])], structs'[p], s[Len(s)], g[Len(s)])
  BY <1>1
<1>9. Following(p, s, heap', structs'[p], r)
  BY <1>1, <1>7, <1>8 DEF Following, Follows
<1> QED
  BY <1>9 DEF s

LEMMA MarshalStarts ==
  ASSUME IInv, NEW p \in Procs, NEW v \in Lists, NEW b \in Buffers, Gets(b, <<>>, heap), MaxRecursionDepth \in Nat,
         stack'[p] = <<Frame("Marshal", b, v, <<>>)>>, NEW r,
         r.op = "Marshal", r.of = v, r.max = MaxRecursionDepth, r.into = structs'[p]
  PROVE  Following(p, stack'[p], heap', structs'[p], r)
<1> DEFINE f == Frame("Marshal", b, v, <<>>)
           h == heap'[b]
           e == Promise!Encoded[v]
           a == Finished(h, v)
<1>1. f.op = "Marshal" /\ f.b = b /\ f.todo = v /\ f.scratch = {} /\ f.pc = "run"
  BY DEF Frame
<1>2. h.buf = <<>> /\ h.err = None /\ h.max = MaxRecursionDepth
  BY ClientGets
<1> HIDE DEF f, h
<1>3. a = Result(e.bytes, e.err)
  BY <1>2, FinishedNew
<1>4. Releasing(f) = b /\ BuffersOf(f) = {b}
  BY <1>1 DEF Releasing, BuffersOf
<1>5. Asked(r, f, a)
  <2>1. a = Promise!Items(Promise!Marshaled(r).bytes, Promise!Marshaled(r).err)
    <3>1. Promise!Marshaled(r).bytes = (IF e.err = None THEN e.bytes ELSE <<>>) /\ Promise!Marshaled(r).err = e.err
      BY NonesAreOne DEF Promise!Marshaled
    <3> HIDE DEF e
    <3> QED
      BY <1>3, <3>1 DEF Result
  <2> HIDE DEF a
  <2> QED
    BY <1>1, <2>1 DEF Asked
<1>6. Shape(r, f, a)
  BY <1>1 DEF Shape
<1>7. AtTop(p, r, h, h, structs'[p], f, a)
  <2>1. IsSeq(h.buf)
    BY <1>2, SeqOne
  <2> HIDE DEF a
  <2>2. a = Finished(h, f.todo)
    BY <1>1 DEF a
  <2> QED
    BY <1>1, <2>1, <2>2 DEF AtTop, EncodingTop
<1> HIDE DEF a
<1> QED
  BY <1>1, <1>2, <1>4, <1>5, <1>6, <1>7, StartFollows DEF h, f

\* The decoder that a call of the client starts with
LEMMA NestedFields ==
  ASSUME NEW d, IsFields(d), NEW items, NEW at, NEW depth, NEW counts, d.err = None
  PROVE  /\ IsFields(Promise!Nested(d, items, at, depth, counts))
         /\ Promise!Nested(d, items, at, depth, counts).items = items /\ Promise!Nested(d, items, at, depth, counts).at = at
         /\ Promise!Nested(d, items, at, depth, counts).depth = depth
         /\ Promise!Nested(d, items, at, depth, counts).max = d.max
         /\ Promise!Nested(d, items, at, depth, counts).into = d.into
         /\ Promise!Nested(d, items, at, depth, counts).counts = counts
         /\ Promise!Nested(d, items, at, depth, counts).err = Checked(depth, d.max)
<1> DEFINE x == Checked(depth, d.max)
           e == [d EXCEPT !.items = items, !.at = at, !.depth = depth, !.counts = counts, !.err = x]
<1>1. Promise!Nested(d, items, at, depth, counts) = e
  <2>1. d.err = None /\ (IF depth > d.max THEN "too deep" ELSE d.err) = x
    BY DEF Checked
  <2> QED
    BY <2>1 DEF Promise!Nested
<1> HIDE DEF x
<1>2. IsFields(e) /\ e.items = items /\ e.at = at /\ e.depth = depth /\ e.max = d.max /\ e.into = d.into /\ e.counts = counts /\ e.err = x
  BY DEF IsFields, DecoderFields
<1> HIDE DEF e
<1> QED
  BY <1>1, <1>2 DEF x

LEMMA UnmarshaledIs ==
  ASSUME NEW r, NEW f, f.at = <<>>
  PROVE  /\ Promise!Unmarshaled(r).struct
              = Promise!Decoded[Decoder(f, r.max, r.of, 1, r.into, Promise!NoneFilled, Checked(1, r.max))].into
         /\ Promise!Unmarshaled(r).err
              = Promise!Decoded[Decoder(f, r.max, r.of, 1, r.into, Promise!NoneFilled, Checked(1, r.max))].err
<1> DEFINE c == Promise!NoneFilled
           d == [items |-> <<>>, at |-> <<>>, depth |-> 0, max |-> r.max, into |-> r.into, counts |-> c, err |-> None]
           x == Checked(1, r.max)
           e == Promise!Nested(d, r.of, <<>>, 1, c)
           y == Decoder(f, r.max, r.of, 1, r.into, c, x)
<1>1. Promise!Unmarshaled(r).struct = Promise!Decoded[e].into /\ Promise!Unmarshaled(r).err = Promise!Decoded[e].err
  BY NonesAreOne DEF Promise!Unmarshaled
<1> HIDE DEF c
<1>2. IsFields(d) /\ d.err = None /\ d.max = r.max /\ d.into = r.into
  BY DEF IsFields, DecoderFields
<1> HIDE DEF d
<1>3. /\ IsFields(e) /\ e.items = r.of /\ e.at = <<>> /\ e.depth = 1 /\ e.max = r.max /\ e.into = r.into /\ e.counts = c
      /\ e.err = x
  BY <1>2, NestedFields
<1>4. /\ IsFields(y) /\ y.items = r.of /\ y.at = <<>> /\ y.depth = 1 /\ y.max = r.max /\ y.into = r.into /\ y.counts = c
      /\ y.err = x
  BY DecoderFieldsAre
<1> HIDE DEF e, y, x
<1>5. \A z \in DecoderFields : e[z] = y[z]
  BY <1>3, <1>4 DEF DecoderFields
<1>6. e = y
  BY <1>3, <1>4, <1>5, SameFields
<1> QED
  BY <1>1, <1>6 DEF y, c, x

LEMMA UnmarshalStarts ==
  ASSUME IInv, NEW p \in Procs, NEW m \in Lists, NEW b \in Buffers, Gets(b, m, heap), MaxRecursionDepth \in Nat,
         structs'[p] \in Promise!Arrays, stack'[p] = <<Frame("Unmarshal", b, <<>>, <<>>)>>, NEW r,
         r.op = "Unmarshal", r.of = m, r.max = MaxRecursionDepth, r.into = structs'[p]
  PROVE  Following(p, stack'[p], heap', structs'[p], r)
<1> DEFINE f == Frame("Unmarshal", b, <<>>, <<>>)
           h == heap'[b]
           st == structs'[p]
           max == MaxRecursionDepth
           c == Promise!NoneFilled
           x == Checked(1, max)
           d == Decoder(f, max, m, 1, st, c, x)
           o == Promise!Decoded[d]
           a == [depth |-> 1, outcome |-> o]
<1>1. f.at = <<>> /\ <<>> \in Seq({"message", "custom"})
  BY DEF Frame
<1>2. h.buf = m /\ h.index = 0 /\ h.depth = 0 /\ h.array_indexes = NoIndexes /\ h.max = max
  BY ClientGets
<1>3. IsDecoder(d)
  <2>1. x \in {None, "too deep", "bad"} /\ c \in Promise!Counts
    BY NoneFilledIs DEF Checked
  <2> HIDE DEF f, x, c
  <2> QED
    BY <1>1, <2>1, IsADecoder
<1>4. ComesTo(f, max, m, 1, st, c, x, o)
  BY <1>3 DEF ComesTo
<1>5. o \in Promise!Outcomes
  <2> HIDE DEF f, c, x, o
  <2> QED
    BY <1>4, ComesOutcome
<1>6. Promise!Unmarshaled(r).struct = o.into /\ Promise!Unmarshaled(r).err = o.err
  <2> HIDE DEF f
  <2> QED
    BY <1>1, UnmarshaledIs
<1> HIDE DEF o
<1>7. a.depth = 1 /\ a.outcome = o
  OBVIOUS
<1> HIDE DEF a
<1>8. /\ f.op = "Unmarshal" /\ f.b = b /\ f.result.err = None /\ f.pc = "enter" /\ Releasing(f) = b /\ BuffersOf(f) = {b}
      /\ Shape(r, f, a)
  <2>1. a.depth \in Nat \ {0} /\ a.outcome \in Promise!Outcomes
    BY <1>5, <1>7
  <2> QED
    BY <2>1, NewDecoder
<1> HIDE DEF f, h, c, x
<1>9. Asked(r, f, a)
  BY <1>6, <1>7, <1>8 DEF Asked
<1>10. Reads(h) /\ Left(h) = m
  BY <1>2, LeftAll
<1>11. Indexes(h) /\ FilledIn(p, h) = c
  BY <1>2 DEF Indexes, FilledIn, NoIndexes, Promise!NoneFilled, c
<1>12. DecodingTop(p, max, h, st, f, a)
  <2>1. x = IF 1 > max THEN "too deep" ELSE None
    BY DEF x, Checked
  <2>2. ComesTo(f, max, Left(h), a.depth, st, FilledIn(p, h), IF a.depth > max THEN "too deep" ELSE None, a.outcome)
    BY <1>4, <1>7, <1>10, <1>11, <2>1
  <2>3. h.depth + 1 = a.depth /\ h.depth \in Nat
    BY <1>2, <1>7
  <2> HIDE DEF d, st, max
  <2> QED
    BY <1>8, <1>10, <1>11, <2>2, <2>3 DEF DecodingTop
<1>13. AtTop(p, r, h, h, st, f, a)
  BY <1>12 DEF AtTop
<1> QED
  BY <1>2, <1>8, <1>9, <1>13, StartFollows DEF h, f

-----------------------------------------------------------------------------
(* the invariant *)

\* A goroutine in a call comes to what was promised; one that is in none is idle, or has its answer.
InCall(p) ==
  /\ reply[p] = {} /\ request[p].op # "none" /\ request[p].max = MaxRecursionDepth
  /\ Following(p, stack[p], heap, structs[p], request[p])

Idle(p)   == request[p] = NoRequest /\ reply[p] = {} /\ structs[p] = NoRequest.into
AtRest(p) == Idle(p) \/ (reply[p] # {} /\ request[p].op # "none")

OfProcs ==
  /\ structs = [p \in Procs |-> structs[p]] /\ request = [p \in Procs |-> request[p]]
  /\ reply = [p \in Procs |-> reply[p]]

Answered ==
  /\ MaxRecursionDepth \in MaxDepths
  /\ OfProcs
  /\ \A p \in Procs : (stack[p] # <<>> => InCall(p)) /\ (stack[p] = <<>> => AtRest(p))

LEMMA InitAnswered == ASSUME Init PROVE Answered
<1>1. OfProcs /\ MaxRecursionDepth \in MaxDepths
  BY DEF Init, OfProcs
<1>2. \A p \in Procs : stack[p] = <<>> /\ Idle(p)
  BY DEF Init, Idle
<1> QED
  BY <1>1, <1>2 DEF Answered, AtRest

\* Nothing has changed for q.
Same(q) ==
  /\ stack'[q] = stack[q] /\ structs'[q] = structs[q] /\ request'[q] = request[q] /\ reply'[q] = reply[q]
  /\ \A b \in InUse(q) : heap'[b] = heap[b]

LEMMA SameAnswered ==
  ASSUME IInv, Answered, NEW q \in Procs, Same(q), stack[q] # <<>> => MaxRecursionDepth' = MaxRecursionDepth
  PROVE  (stack'[q] # <<>> => InCall(q)') /\ (stack'[q] = <<>> => AtRest(q)')
<1>1. ASSUME stack[q] # <<>> PROVE InCall(q)'
  <2>1. InCall(q)
    BY <1>1 DEF Answered
  <2>2. PICK g : Here(q, g)
    BY <2>1 DEF InCall, Following, Here
  <2>3. Following(q, stack'[q], heap', structs'[q], request[q])
    BY <1>1, <2>2, OthersFollow DEF Same, Continues
  <2> QED
    BY <1>1, <2>1, <2>3 DEF InCall, Same
<1>2. ASSUME stack[q] = <<>> PROVE AtRest(q)'
  BY <1>2 DEF Answered, AtRest, Idle, Same
<1> QED
  BY <1>1, <1>2 DEF Same

LEMMA StepKeepsAnswered ==
  ASSUME IInv, Answered, NEW p \in Procs, stack[p] # <<>>, Step(p)
  PROVE  /\ Answered'
         /\ UNCHANGED <<request, reply>> \/ Promise!Return(p)
<1>1. InCall(p) /\ OfProcs
  BY DEF Answered
<1>2. PICK g : Here(p, g)
  BY <1>1 DEF InCall, Following, Here
<1>3. (Goes(p) \/ Ends(p)) /\ Alone(p)
  BY <1>1, <1>2, StepAnswers, StepAlone DEF InCall, OfProcs
<1>4. OfProcs' /\ MaxRecursionDepth' \in MaxDepths
  BY <1>1, <1>3 DEF OfProcs, Alone, Goes, Ends, Answered
<1>5. ASSUME NEW q \in Procs, q # p PROVE Same(q)
  BY <1>1, <1>3, <1>5 DEF OfProcs, Alone, Goes, Ends, Elsewhere, Off, Same
<1>6. \A q \in Procs : q # p => (stack'[q] # <<>> => InCall(q)') /\ (stack'[q] = <<>> => AtRest(q)')
  BY <1>3, <1>5, SameAnswered DEF Alone
<1>7. CASE Goes(p)
  <2>1. Following(p, stack'[p], heap', structs'[p], request'[p])
    BY <1>3, <1>7 DEF Goes, Continues, Alone
  <2>2. InCall(p)' /\ stack'[p] # <<>>
    <3>1. stack'[p] # <<>>
      BY <2>1 DEF Following, Follows
    <3> QED
      BY <1>1, <1>3, <1>7, <2>1, <3>1 DEF InCall, Goes, Alone
  <2> QED
    BY <1>3, <1>4, <1>6, <1>7, <2>2 DEF Answered, Goes, Alone
<1>8. CASE Ends(p)
  <2>1. reply'[p] # {}
    BY <1>1, <1>8 DEF Ends, OfProcs
  <2>2. AtRest(p)' /\ stack'[p] = <<>>
    BY <1>1, <1>3, <1>8, <2>1 DEF AtRest, InCall, Ends, Alone
  <2>3. Promise!Return(p)
    BY <1>1, <1>3, <1>8 DEF Promise!Return, InCall, Ends, Alone
  <2> QED
    BY <1>4, <1>6, <2>2, <2>3 DEF Answered
<1> QED
  BY <1>3, <1>7, <1>8

LEMMA IsIdle == ASSUME Answered, NEW p \in Procs, request[p] = NoRequest PROVE stack[p] = <<>> /\ Idle(p)
<1>1. request[p].op = "none"
  BY DEF NoRequest
<1> QED
  BY <1>1 DEF Answered, InCall, AtRest

\* A client's call takes a Buffer, and makes the first call of its goroutine.
LEMMA CallStarts ==
  ASSUME IInv, Answered, NEW p \in Procs, NEW op \in {"Marshal", "Unmarshal"}, NEW of, NEW e, NEW todo, Call(p, op, of, e, todo)
  PROVE  /\ Idle(p) /\ OfProcs' /\ MaxRecursionDepth' = MaxRecursionDepth /\ (\A q \in Procs : q # p => Same(q))
         /\ \E b \in Buffers : Gets(b, e, heap) /\ stack'[p] = <<Frame(op, b, todo, <<>>)>>
         /\ request'[p].op = op /\ request'[p].of = of /\ request'[p].max = MaxRecursionDepth
         /\ request'[p].into = structs'[p] /\ structs'[p] = NoRequest.into /\ reply'[p] = {}
         /\ Promise!Call(p)
<1> DEFINE r == [op |-> op, of |-> of, max |-> MaxRecursionDepth, into |-> structs[p]]
<1>1. PICK b \in Buffers : Gets(b, e, heap) /\ stack' = [stack EXCEPT ![p] = <<Frame(op, b, todo, <<>>)>>]
  BY DEF Call
<1>2. request' = [request EXCEPT ![p] = r] /\ structs' = structs /\ reply' = reply /\ MaxRecursionDepth' = MaxRecursionDepth
  BY DEF Call
<1>3. stack[p] = <<>> /\ Idle(p) /\ OfProcs
  BY IsIdle DEF Call, Answered
<1>4. r.op = op /\ r.of = of /\ r.max = MaxRecursionDepth /\ r.into = structs[p]
  OBVIOUS
<1> HIDE DEF r
<1>5. request'[p] = r /\ \A q \in Procs : q # p => request'[q] = request[q]
  BY <1>2, <1>3 DEF OfProcs
<1>6. OfProcs'
  BY <1>2, <1>3 DEF OfProcs
<1>7. stack'[p] = <<Frame(op, b, todo, <<>>)>> /\ \A q \in Procs : q # p => stack'[q] = stack[q]
  BY <1>1 DEF IInv, StackOK
<1>8. Off(p)
  BY <1>1, ClientGets
<1>9. \A q \in Procs : q # p => Same(q)
  BY <1>2, <1>5, <1>7, <1>8 DEF Same, Off
<1>10. Promise!Call(p)
  <2>1. request[p].op = "none"
    BY <1>3 DEF Idle, NoRequest
  <2> QED
    BY <1>2, <1>4, <1>5, <2>1 DEF Promise!Call
<1> QED
  BY <1>1, <1>2, <1>3, <1>4, <1>5, <1>6, <1>7, <1>9, <1>10 DEF Idle

LEMMA ZeroStruct == NoRequest.into \in Promise!Arrays
BY DEF NoRequest, Promise!Arrays

LEMMA CallKeepsAnswered ==
  ASSUME IInv, Answered, NEW p \in Procs, Marshal(p) \/ Unmarshal(p)
  PROVE  Answered' /\ Promise!Call(p)
<1>1. MaxRecursionDepth \in MaxDepths /\ MaxRecursionDepth \in Nat
  BY BufferPoolAssumption DEF Answered
<1>2. ASSUME NEW op \in {"Marshal", "Unmarshal"}, NEW of, NEW e, NEW todo, Call(p, op, of, e, todo),
             Following(p, stack'[p], heap', structs'[p], request'[p])
      PROVE  Answered' /\ Promise!Call(p)
  <2>1. /\ OfProcs' /\ MaxRecursionDepth' = MaxRecursionDepth /\ (\A q \in Procs : q # p => Same(q))
        /\ request'[p].op = op /\ request'[p].max = MaxRecursionDepth /\ reply'[p] = {} /\ Promise!Call(p)
    BY <1>2, CallStarts
  <2>2. InCall(p)' /\ stack'[p] # <<>>
    <3>1. stack'[p] # <<>>
      BY <1>2 DEF Following, Follows
    <3> QED
      BY <1>2, <2>1, <3>1 DEF InCall
  <2>3. \A q \in Procs : q # p => (stack'[q] # <<>> => InCall(q)') /\ (stack'[q] = <<>> => AtRest(q)')
    BY <2>1, SameAnswered
  <2> QED
    BY <1>1, <2>1, <2>2, <2>3 DEF Answered
<1>3. CASE Marshal(p)
  <2>1. PICK v \in Values : Call(p, "Marshal", v, <<>>, v)
    BY <1>3 DEF Marshal
  <2>2. v \in Lists
    BY ListsAssumption
  <2>3. /\ request'[p].op = "Marshal" /\ request'[p].of = v /\ request'[p].max = MaxRecursionDepth
        /\ request'[p].into = structs'[p]
    BY <2>1, CallStarts
  <2>4. PICK b \in Buffers : Gets(b, <<>>, heap) /\ stack'[p] = <<Frame("Marshal", b, v, <<>>)>>
    <3>1. \E b \in Buffers : Gets(b, <<>>, heap) /\ stack'[p] = <<Frame("Marshal", b, v, <<>>)>>
      BY <2>1, CallStarts
    <3> QED
      BY <3>1
  <2>5. Following(p, stack'[p], heap', structs'[p], request'[p])
    BY <1>1, <2>2, <2>3, <2>4, MarshalStarts
  <2> QED
    BY <1>2, <2>1, <2>5
<1>4. CASE Unmarshal(p)
  <2>1. PICK m \in Messages : Call(p, "Unmarshal", m, m, <<>>)
    BY <1>4 DEF Unmarshal
  <2>2. m \in Lists
    BY ListsAssumption
  <2>3. /\ request'[p].op = "Unmarshal" /\ request'[p].of = m /\ request'[p].max = MaxRecursionDepth
        /\ request'[p].into = structs'[p] /\ structs'[p] \in Promise!Arrays
    BY <2>1, CallStarts, ZeroStruct
  <2>4. PICK b \in Buffers : Gets(b, m, heap) /\ stack'[p] = <<Frame("Unmarshal", b, <<>>, <<>>)>>
    <3>1. \E b \in Buffers : Gets(b, m, heap) /\ stack'[p] = <<Frame("Unmarshal", b, <<>>, <<>>)>>
      BY <2>1, CallStarts
    <3> QED
      BY <3>1
  <2>5. Following(p, stack'[p], heap', structs'[p], request'[p])
    BY <1>1, <2>2, <2>3, <2>4, UnmarshalStarts
  <2> QED
    BY <1>2, <2>1, <2>5
<1> QED
  BY <1>3, <1>4

LEMMA TakeKeepsAnswered == ASSUME IInv, Answered, NEW p \in Procs, Take(p) PROVE Answered' /\ Promise!Take(p)
<1>1. stack[p] = <<>> /\ stack' = stack /\ heap' = heap /\ MaxRecursionDepth' = MaxRecursionDepth /\ OfProcs
  BY DEF Take, Answered, InCall
<1>2. request' = [request EXCEPT ![p] = NoRequest] /\ reply' = [reply EXCEPT ![p] = {}] /\ structs' = [structs EXCEPT ![p] = NoRequest.into]
  BY DEF Take
<1>3. request'[p] = NoRequest /\ reply'[p] = {} /\ structs'[p] = NoRequest.into /\ OfProcs'
  BY <1>1, <1>2 DEF OfProcs
<1>4. \A q \in Procs : q # p => Same(q)
  BY <1>1, <1>2 DEF Same, OfProcs
<1>5. \A q \in Procs : q # p => (stack'[q] # <<>> => InCall(q)') /\ (stack'[q] = <<>> => AtRest(q)')
  BY <1>1, <1>4, SameAnswered
<1>6. stack'[p] = <<>> /\ AtRest(p)'
  BY <1>1, <1>3 DEF AtRest, Idle
<1>7. Promise!Take(p)
  <2>1. request'[p].op = "none"
    BY <1>3 DEF NoRequest
  <2> QED
    BY <1>2, <1>3, <2>1 DEF Promise!Take, Take
<1> QED
  BY <1>1, <1>3, <1>5, <1>6, <1>7 DEF Answered

LEMMA OtherKeepsAnswered ==
  ASSUME IInv, Answered, Collect \/ SetMaxRecursionDepth \/ UNCHANGED vars
  PROVE  Answered' /\ UNCHANGED <<request, reply>>
<1>1. UNCHANGED <<stack, structs, request, reply>>
  BY DEF Collect, SetMaxRecursionDepth, vars
<1>2. \A q \in Procs : \A b \in InUse(q) : heap'[b] = heap[b]
  <2>1. CASE Collect
    <3>1. PICK b \in buffer_pool : heap' = Freed(b)
      BY <2>1 DEF Collect
    <3> DEFINE n == NewBuffer(0)
    <3>2. heap' = [heap EXCEPT ![b] = n]
      BY <3>1 DEF Freed
    <3> HIDE DEF n
    <3> QED
      BY <3>2 DEF IInv, HeapOK, IsHeap, Disjoint, StackOK
  <2>2. CASE SetMaxRecursionDepth \/ UNCHANGED vars
    BY <2>2 DEF SetMaxRecursionDepth, vars
  <2> QED
    BY <2>1, <2>2
<1>3. \A q \in Procs : Same(q)
  BY <1>1, <1>2 DEF Same
<1>4. MaxRecursionDepth' \in MaxDepths /\ \A q \in Procs : stack[q] # <<>> => MaxRecursionDepth' = MaxRecursionDepth
  BY DEF Collect, SetMaxRecursionDepth, vars, Answered
<1>5. \A q \in Procs : (stack'[q] # <<>> => InCall(q)') /\ (stack'[q] = <<>> => AtRest(q)')
  BY <1>3, <1>4, SameAnswered
<1>6. OfProcs'
  BY <1>1 DEF Answered, OfProcs
<1> QED
  BY <1>1, <1>4, <1>5, <1>6 DEF Answered

LEMMA NextAnswered ==
  ASSUME IInv, Answered, [Next]_vars
  PROVE  Answered' /\ [Promise!Next]_<<request, reply>>
<1>1. ASSUME NEW p \in Procs, Marshal(p) \/ Unmarshal(p) PROVE Answered' /\ Promise!Next
  BY <1>1, CallKeepsAnswered DEF Promise!Next
<1>2. ASSUME NEW p \in Procs, Take(p) PROVE Answered' /\ Promise!Next
  BY <1>2, TakeKeepsAnswered DEF Promise!Next
<1>3. ASSUME NEW p \in Procs, Step(p) PROVE Answered' /\ [Promise!Next]_<<request, reply>>
  <2>1. stack[p] # <<>>
    BY <1>3 DEF Step, EncodeNumber, EncodeMarshaler, EncodeFailing, EndMarshal, StartPacked, PackNumber, AppendPacked, Enter,
                Leave, DecodeNumber, DecodeBad, DecodeMessage, DecodeUnmarshaler, StartDuration, DecodeDuration, Clear, PutBack,
                Encoding, Packs, Runs, Decoding, InStruct
  <2>2. Answered' /\ (UNCHANGED <<request, reply>> \/ Promise!Return(p))
    BY <1>3, <2>1, StepKeepsAnswered
  <2> QED
    BY <2>2 DEF Promise!Next
<1>4. CASE Collect \/ SetMaxRecursionDepth \/ UNCHANGED vars
  BY <1>4, OtherKeepsAnswered
<1> QED
  BY <1>1, <1>2, <1>3, <1>4 DEF Next
-----------------------------------------------------------------------------

\* What the calls of every goroutine come to is, all the time, what was promised: the inductive
\* invariant of the refinement.
THEOREM SpecAnswered == Spec => []Answered
<1>1. Init => Answered
  BY InitAnswered
<1>2. IInv /\ Answered /\ [Next]_vars => Answered'
  BY NextAnswered
<1> QED
  BY <1>1, <1>2, Invariant, PTL DEF Spec

\* Whatever the other calls do, and whatever the Buffers have been used for, Marshal and Unmarshal
\* answer each call as they would with a new Buffer (newBuffer and release, lib.go; Marshal,
\* encode.go; Unmarshal, decode.go).
THEOREM Refinement == Spec => Implements
<1>1. Init => Promise!Init
  BY DEF Init, Promise!Init, NoRequest
<1>2. IInv /\ Answered /\ [Next]_vars => [Promise!Next]_<<request, reply>>
  BY NextAnswered
<1> QED
  BY <1>1, <1>2, Invariant, SpecAnswered, PTL DEF Spec, Implements, Promise!Spec
-----------------------------------------------------------------------------
(* the types of the fields of Buffers *)

IsTyped(h) == IsSeq(h.buf) /\ h.index \in 0..Len(h.buf) /\ h.depth \in Nat /\ h.max \in MaxDepths \cup {0}

HeapTyped(H) == \A b \in Buffers : IsTyped(H[b])

LEMMA OneTyped ==
  ASSUME NEW H, IsHeap(H), HeapTyped(H), NEW b, NEW x, IsTyped(x)
  PROVE  HeapTyped([H EXCEPT ![b] = x])
<1> SUFFICES ASSUME NEW c \in Buffers PROVE IsTyped([H EXCEPT ![b] = x][c])
  BY DEF HeapTyped
<1>1. [H EXCEPT ![b] = x][c] = x \/ [H EXCEPT ![b] = x][c] = H[c]
  BY DEF IsHeap
<1> QED
  BY <1>1 DEF HeapTyped

\* None of the fields has changed but buf, which is longer.
Longer(x, h) == IsSeq(x.buf) /\ Len(x.buf) >= Len(h.buf) /\ x.index = h.index /\ x.depth = h.depth /\ x.max = h.max

LEMMA LongerTyped == ASSUME NEW h, IsTyped(h), NEW x, Longer(x, h) PROVE IsTyped(x)
<1>1. Len(x.buf) \in Nat /\ Len(h.buf) \in Nat
  BY StackLen DEF IsTyped, Longer
<1> QED
  BY <1>1 DEF IsTyped, Longer

LEMMA SeqLonger == ASSUME NEW s, IsSeq(s), NEW t, IsSeq(t) PROVE Len(s \o t) >= Len(s) /\ IsSeq(s \o t)
<1> DEFINE S == All(s, t)
<1>1. s \in Seq(S) /\ t \in Seq(S)
  BY InAll
<1> HIDE DEF S
<1>2. Len(s \o t) = Len(s) + Len(t) /\ Len(s) \in Nat /\ Len(t) \in Nat
  BY <1>1
<1> QED
  BY <1>2, SeqJoined

LEMMA TypedChanges ==
  ASSUME NEW h, IsBuffer(h), IsTyped(h)
  PROVE  /\ \A s : IsSeq(s) => IsTyped(Put(h, s))
         /\ \A e : IsTyped(noteError(h, e))
         /\ IsTyped(Cleared(h))
         /\ \A r : IsTyped(Given(h, r))
<1>1. ASSUME NEW s, IsSeq(s) PROVE IsTyped(Put(h, s))
  <2> DEFINE y == h.buf \o s
             x == Put(h, s)
  <2>1. x = [h EXCEPT !.buf = y]
    BY DEF Put
  <2>2. x.buf = y /\ x.index = h.index /\ x.depth = h.depth /\ x.max = h.max
    BY <2>1 DEF IsBuffer
  <2>3. Len(y) >= Len(h.buf) /\ IsSeq(y)
    BY <1>1, SeqLonger DEF IsTyped
  <2> HIDE DEF x, y
  <2>4. Longer(x, h)
    BY <2>2, <2>3 DEF Longer
  <2> QED
    BY <2>4, LongerTyped DEF x
<1>2. ASSUME NEW e PROVE IsTyped(noteError(h, e))
  <2> DEFINE x == noteError(h, e)
  <2>1. x.buf = h.buf /\ x.index = h.index /\ x.depth = h.depth /\ x.max = h.max
    BY DEF noteError, IsBuffer
  <2> HIDE DEF x
  <2>2. Len(h.buf) \in Nat
    BY StackLen DEF IsTyped
  <2> QED
    BY <2>1, <2>2 DEF IsTyped, x
<1>3. IsTyped(Cleared(h))
  <2> DEFINE x == Cleared(h)
  <2>1. x.buf = <<>> /\ x.index = 0 /\ x.depth = 0 /\ x.max = h.max
    BY DEF Cleared, IsBuffer
  <2>2. IsSeq(<<>>) /\ Len(<<>>) = 0
    BY SeqOne
  <2> HIDE DEF x
  <2> QED
    BY <2>1, <2>2 DEF IsTyped, x
<1>4. ASSUME NEW r PROVE IsTyped(Given(h, r))
  <2> DEFINE s == <<Custom(r.bytes)>>
  <2>1. IsSeq(s)
    BY SeqOne
  <2>2. Given(h, r) \in {noteError(h, r.err), h, Put(h, s)}
    BY DEF Given
  <2> HIDE DEF s
  <2> QED
    BY <1>1, <1>2, <2>1, <2>2
<1> QED
  BY <1>1, <1>2, <1>3, <1>4

LEMMA NewTyped ==
  ASSUME NEW x, IsSeq(x.buf), x.index = 0, x.depth = 0, x.max \in MaxDepths \cup {0}
  PROVE  IsTyped(x)
<1>1. Len(x.buf) \in Nat
  BY StackLen
<1> QED
  BY <1>1 DEF IsTyped

LEMMA NewBufferTyped == IsTyped(NewBuffer(0))
<1> DEFINE x == NewBuffer(0)
<1>1. x.buf = <<>> /\ x.index = 0 /\ x.depth = 0 /\ x.max = 0
  BY DEF NewBuffer
<1> HIDE DEF x
<1>2. IsTyped(x)
  BY <1>1, SeqOne, NewTyped
<1> QED
  BY <1>2 DEF x

LEMMA FreedTyped == ASSUME IInv, HeapTyped(heap), NEW b PROVE HeapTyped(Freed(b)) /\ (b \in Buffers => IsHeap(Freed(b)))
<1> DEFINE n == NewBuffer(0)
<1>1. Freed(b) = [heap EXCEPT ![b] = n] /\ IsTyped(n) /\ IsBuffer(n) /\ IsHeap(heap)
  BY NewBufferTyped, NewBufferIsNew DEF Freed, IInv, HeapOK
<1> HIDE DEF n
<1> QED
  BY <1>1, OneTyped DEF IsHeap

LEMMA GetsTyped ==
  ASSUME IInv, NEW b \in Buffers, NEW e, IsSeq(e), NEW hs, IsHeap(hs), HeapTyped(hs), hs[b] = heap[b] \/ b \notin buffer_pool,
         Gets(b, e, hs), MaxRecursionDepth \in MaxDepths
  PROVE  HeapTyped(heap')
<1> DEFINE h == IF b \in buffer_pool THEN hs[b] ELSE NewBuffer(MaxRecursionDepth)
           x == newBuffer(h, e)
<1>1. IsNew(h)
  <2>1. b \in buffer_pool => IsNew(hs[b])
    BY DEF IInv, ClearedFirst
  <2> QED
    BY <2>1, NewBufferIsNew
<1>2. heap' = [hs EXCEPT ![b] = x]
  BY DEF Gets
<1> HIDE DEF h
<1>3. x = [h EXCEPT !.buf = e, !.max = MaxRecursionDepth]
  BY DEF newBuffer
<1>4. x.buf = e /\ x.index = 0 /\ x.depth = 0 /\ x.max = MaxRecursionDepth
  BY <1>1, <1>3 DEF IsNew, IsBuffer
<1> HIDE DEF x
<1>5. IsTyped(x)
  BY <1>4, NewTyped
<1> QED
  BY <1>2, <1>5, OneTyped

LEMMA DeliverTyped ==
  ASSUME IInv, NEW p \in Procs, stack[p] # <<>>, NEW g, Here(p, g), NEW f, NEW hs, IsHeap(hs), HeapTyped(hs), Deliver(p, f, hs)
  PROVE  HeapTyped(heap')
<1>1. CASE Below(p) = <<>>
  BY <1>1 DEF Deliver
<1>2. CASE Below(p) # <<>>
  <2> DEFINE n == Len(stack[p]) - 1
             c == stack[p][n].b
             x == Given(hs[c], f.result)
  <2>1. n \in Nat \ {0} /\ Len(stack[p]) = n + 1
    BY <1>2, StackIsLong
  <2> HIDE DEF n
  <2>2. c \in Buffers
    BY <2>1, BelowIs
  <2>3. /\ stack[p][n].op # "Marshal" => heap' = hs
        /\ stack[p][n].op = "Marshal" => heap'[c] = x /\ \A d \in Buffers : d # c => heap'[d] = hs[d]
    BY <2>1, <2>2, DeliverIs
  <2>4. IsTyped(x)
    <3>1. IsBuffer(hs[c]) /\ IsTyped(hs[c])
      BY <2>2 DEF IsHeap, HeapTyped
    <3> QED
      BY <3>1, TypedChanges
  <2> HIDE DEF x
  <2> QED
    BY <2>3, <2>4 DEF HeapTyped
<1> QED
  BY <1>1, <1>2
\* one Buffer of the call on top is changed
LEMMA ChangeTyped ==
  ASSUME IInv, HeapTyped(heap), NEW b, NEW x, IsTyped(x), heap' = [heap EXCEPT ![b] = x]
  PROVE  HeapTyped(heap')
<1>1. IsHeap(heap)
  BY DEF IInv, HeapOK
<1> QED
  BY <1>1, OneTyped

LEMMA TopTyped ==
  ASSUME IInv, HeapTyped(heap), NEW p \in Procs, stack[p] # <<>>
  PROVE  /\ IsBuffer(heap[Top(p).b]) /\ IsTyped(heap[Top(p).b]) /\ Top(p).b \in Buffers
         /\ IsBuffer(heap[Releasing(Top(p))]) /\ IsTyped(heap[Releasing(Top(p))])
BY TopFacts, HeapBuffers DEF HeapTyped

LEMMA DepthTyped ==
  ASSUME NEW h, IsBuffer(h), IsTyped(h), NEW d \in Nat
  PROVE  IsTyped([h EXCEPT !.depth = d]) /\ IsBuffer([h EXCEPT !.depth = d])
<1> DEFINE x == [h EXCEPT !.depth = d]
<1>1. Deeper(x, h, d)
  BY DeeperIs
<1> HIDE DEF x
<1> QED
  BY <1>1 DEF Deeper, IsTyped, x

LEMMA NarrowTyped ==
  ASSUME NEW h, IsBuffer(h), IsTyped(h), NEW s, IsSeq(s), NEW i \in 0..Len(s)
  PROVE  IsTyped([h EXCEPT !.buf = s, !.index = i]) /\ IsBuffer([h EXCEPT !.buf = s, !.index = i])
<1> DEFINE x == [h EXCEPT !.buf = s, !.index = i]
<1>1. Narrowed(x, h, s, i)
  BY NarrowedIs
<1> HIDE DEF x
<1> QED
  BY <1>1 DEF Narrowed, IsTyped, x

LEMMA EndStructTyped ==
  ASSUME IInv, HeapTyped(heap), NEW p \in Procs, stack[p] # <<>>, NEW g, Here(p, g), Top(p).op \in {"Unmarshal", "message"},
         NEW h, IsBuffer(h), IsTyped(h), NEW err, EndStruct(p, h, err)
  PROVE  HeapTyped(heap')
<1> DEFINE t == Top(p)
           f == [t EXCEPT !.result.err = err]
           b == t.b
<1>1. IsFrame(t) /\ IsHeap(heap) /\ b \in Buffers
  BY TopFacts DEF IInv, HeapOK
<1>2. f.op = t.op /\ f.b = b /\ f.saved = t.saved
  <2> HIDE DEF t
  <2> QED
    BY <1>1 DEF IsFrame, b
<1>3. CASE t.op = "Unmarshal"
  <2>1. heap' = [heap EXCEPT ![b] = h]
    BY <1>2, <1>3 DEF EndStruct
  <2> QED
    BY <2>1, ChangeTyped
<1>4. CASE t.op = "message"
  <2> DEFINE x == [h EXCEPT !.buf = t.saved.buf, !.index = t.saved.index]
             hs == [heap EXCEPT ![b] = x]
  <2>1. Deliver(p, f, hs)
    BY <1>2, <1>4 DEF EndStruct
  <2>2. Reads(t.saved)
    <3>1. PICK n \in Nat \ {0} : Len(stack[p]) = n + 1
      BY <1>4, NotAlone
    <3>2. Linked(p, request[p], heap[stack[p][n].b], stack[p][n], t, g[n], Ghost(p, g))
      BY <3>1, BelowIs
    <3>3. request[p].op # "Marshal"
      BY <1>4, UnmarshalTop
    <3> QED
      BY <1>4, <3>2, <3>3 DEF Linked
  <2>3. IsTyped(x) /\ IsBuffer(x)
    <3> HIDE DEF t
    <3> QED
      BY <2>2, NarrowTyped DEF Reads
  <2> HIDE DEF x, f, b
  <2>4. HeapTyped(hs) /\ IsHeap(hs)
    <3>1. IsHeap([heap EXCEPT ![b] = x])
      BY <1>1, <2>3 DEF IsHeap
    <3> QED
      BY <1>1, <2>3, <3>1, OneTyped
  <2> HIDE DEF hs
  <2> QED
    BY <2>1, <2>4, DeliverTyped
<1> QED
  BY <1>3, <1>4

LEMMA MarshalTyped ==
  ASSUME IInv, HeapTyped(heap), NEW p \in Procs, MaxRecursionDepth \in MaxDepths,
         EncodeNumber(p) \/ EncodeMarshaler(p) \/ EncodeFailing(p) \/ EndMarshal(p) \/ StartPacked(p) \/ PackNumber(p)
           \/ AppendPacked(p) \/ Clear(p)
  PROVE  HeapTyped(heap')
<1> DEFINE t == Top(p)
           h == heap[t.b]
           hs == heap[Releasing(t)]
<1>1. stack[p] # <<>>
  BY DEF EncodeNumber, EncodeMarshaler, EncodeFailing, EndMarshal, StartPacked, PackNumber, AppendPacked, Clear, Encoding,
         Packs, Runs
<1>2. IsBuffer(h) /\ IsTyped(h) /\ IsBuffer(hs) /\ IsTyped(hs)
  BY <1>1, TopTyped
<1>3. \A s : IsSeq(<<s>>)
  BY SeqOne
<1>4. IsHeap(heap) /\ IsSeq(<<>>)
  BY SeqOne DEF IInv, HeapOK
<1>5. CASE EncodeNumber(p) \/ AppendPacked(p)
  <2>1. \E s : heap' = [heap EXCEPT ![t.b] = Put(h, <<s>>)]
    BY <1>5 DEF EncodeNumber, AppendPacked
  <2> HIDE DEF h, t
  <2> QED
    BY <1>2, <1>3, <2>1, TypedChanges, ChangeTyped
<1>6. CASE PackNumber(p)
  <2>1. \E s : heap' = [heap EXCEPT ![Releasing(t)] = Put(hs, <<s>>)]
    BY <1>6 DEF PackNumber
  <2> HIDE DEF hs, t
  <2> QED
    BY <1>2, <1>3, <2>1, TypedChanges, ChangeTyped
<1>7. CASE EncodeFailing(p)
  <2>1. heap' = [heap EXCEPT ![t.b] = noteError(h, "failed")]
    BY <1>7 DEF EncodeFailing
  <2> HIDE DEF h, t
  <2> QED
    BY <1>2, <2>1, TypedChanges, ChangeTyped
<1>8. CASE Clear(p)
  <2>1. heap' = [heap EXCEPT ![Releasing(t)] = Cleared(hs)]
    BY <1>8 DEF Clear
  <2> HIDE DEF hs, t
  <2> QED
    BY <1>2, <2>1, TypedChanges, ChangeTyped
<1>9. CASE EndMarshal(p)
  BY <1>9 DEF EndMarshal
<1>10. CASE EncodeMarshaler(p) \/ StartPacked(p)
  <2>1. heap' = heap \/ \E b \in Buffers : Gets(b, <<>>, heap)
    BY <1>10 DEF EncodeMarshaler, StartPacked
  <2> QED
    BY <1>4, <2>1, GetsTyped
<1> QED
  BY <1>5, <1>6, <1>7, <1>8, <1>9, <1>10

LEMMA PutBackTyped ==
  ASSUME IInv, HeapTyped(heap), NEW p \in Procs, NEW g, Here(p, g), PutBack(p)
  PROVE  HeapTyped(heap')
<1>1. stack[p] # <<>> /\ (heap' = heap \/ Deliver(p, Top(p), heap)) /\ IsHeap(heap)
  BY DEF PutBack, IInv, HeapOK
<1> QED
  BY <1>1, DeliverTyped

LEMMA EnterTyped ==
  ASSUME IInv, HeapTyped(heap), NEW p \in Procs, NEW g, Here(p, g), Enter(p) \/ Leave(p)
  PROVE  HeapTyped(heap')
<1> DEFINE t == Top(p)
           h == heap[t.b]
<1>1. stack[p] # <<>>
  BY DEF Enter, Leave, InStruct, Runs
<1>2. t.op # "Marshal"
  <2>1. CASE Enter(p)
    BY <1>1, <2>1, TopIs DEF Enter, Shape
  <2>2. CASE Leave(p)
    BY <2>2 DEF Leave, InStruct, Runs
  <2> QED
    BY <2>1, <2>2
<1>3. /\ request[p].op # "Marshal" /\ Shape(request[p], t, Ghost(p, g))
      /\ DecodingTop(p, request[p].max, h, structs[p], t, Ghost(p, g)) /\ IsBuffer(h) /\ IsTyped(h)
  BY <1>1, <1>2, UnmarshalTop, TopTyped
<1>4. CASE Enter(p)
  <2> DEFINE d == h.depth + 1
             x == [h EXCEPT !.depth = d]
  <2>1. EndStruct(p, x, "too deep") \/ heap' = [heap EXCEPT ![t.b] = x]
    BY <1>4 DEF Enter
  <2>2. d \in Nat
    BY <1>3 DEF IsTyped
  <2> HIDE DEF d
  <2>3. IsTyped(x) /\ IsBuffer(x)
    <3> HIDE DEF h
    <3> QED
      BY <1>3, <2>2, DepthTyped
  <2>4. t.op \in {"Unmarshal", "message"}
    BY <1>3, <1>4 DEF Enter, Shape
  <2> HIDE DEF x
  <2> QED
    BY <1>1, <2>1, <2>3, <2>4, EndStructTyped, ChangeTyped
<1>5. CASE Leave(p)
  <2> DEFINE d == h.depth - 1
             x == [h EXCEPT !.depth = d]
  <2>1. EndStruct(p, x, t.result.err) /\ t.op \in {"Unmarshal", "message"} /\ t.pc = "run"
    BY <1>5 DEF Leave, InStruct, Runs
  <2>2. d \in Nat
    <3>1. Ghost(p, g).depth \in Nat \ {0}
      BY <1>3 DEF Shape
    <3>2. h.depth >= Ghost(p, g).depth /\ h.depth \in Nat
      <4> HIDE DEF h, t
      <4> QED
        BY <1>3, <2>1 DEF DecodingTop, IsTyped
    <3> QED
      BY <3>1, <3>2
  <2> HIDE DEF d
  <2>3. IsTyped(x) /\ IsBuffer(x)
    <3> HIDE DEF h
    <3> QED
      BY <1>3, <2>2, DepthTyped
  <2> HIDE DEF x
  <2> QED
    BY <1>1, <2>1, <2>3, EndStructTyped
<1> QED
  BY <1>4, <1>5

LEMMA AdvancedTyped ==
  ASSUME IInv, HeapTyped(heap), NEW p \in Procs, stack[p] # <<>>, Reads(heap[Top(p).b]), Indexes(heap[Top(p).b]),
         heap[Top(p).b].index # Len(heap[Top(p).b].buf)
  PROVE  IsHeap(Advanced(p)) /\ HeapTyped(Advanced(p)) /\ IsTyped(Next2(p))
<1>1. /\ Advanced(p) = [heap EXCEPT ![Top(p).b] = Next2(p)] /\ IsHeap(Advanced(p)) /\ Reads(Next2(p))
      /\ Next2(p).depth = heap[Top(p).b].depth /\ Next2(p).max = heap[Top(p).b].max
  BY AdvancedIs
<1>2. IsTyped(Next2(p))
  BY <1>1, TopTyped DEF IsTyped, Reads
<1>3. IsHeap(heap)
  BY DEF IInv, HeapOK
<1> DEFINE x == Next2(p)
           b == Top(p).b
           H == Advanced(p)
<1>4. H = [heap EXCEPT ![b] = x] /\ IsTyped(x)
  BY <1>1, <1>2
<1> HIDE DEF x, b, H
<1>5. HeapTyped(H)
  BY <1>3, <1>4, OneTyped
<1> QED
  BY <1>1, <1>2, <1>5 DEF H

LEMMA DecodeTyped ==
  ASSUME IInv, HeapTyped(heap), NEW p \in Procs, NEW g, Here(p, g), MaxRecursionDepth \in MaxDepths,
         DecodeBad(p) \/ DecodeMessage(p) \/ DecodeUnmarshaler(p) \/ StartDuration(p)
  PROVE  HeapTyped(heap')
<1> DEFINE t == Top(p)
           h == heap[t.b]
           w == Current(p).of
<1>1. PICK kind : Decoding(p, kind)
  BY DEF DecodeBad, DecodeMessage, DecodeUnmarshaler, StartDuration
<1>2. stack[p] # <<>> /\ Reads(h) /\ Indexes(h) /\ h.index # Len(h.buf) /\ w \in Lists
  BY <1>1, DecodingIs
<1>3. IsHeap(Advanced(p)) /\ HeapTyped(Advanced(p))
  BY <1>2, AdvancedTyped
<1>4. IsBuffer(h) /\ IsTyped(h) /\ t.b \in Buffers /\ IsHeap(heap)
  BY <1>2, TopTyped DEF IInv, HeapOK
<1>5. IsSeq(w)
  BY <1>2, ListsAreSeqs
<1>6. CASE DecodeBad(p)
  BY <1>3, <1>6 DEF DecodeBad
<1>7. CASE DecodeMessage(p)
  <2> DEFINE x == [h EXCEPT !.buf = w, !.index = 0]
             b == t.b
  <2>1. heap' = [heap EXCEPT ![b] = x]
    <3>1. heap' = [heap EXCEPT ![b].buf = w, ![b].index = 0]
      BY <1>7 DEF DecodeMessage
    <3> HIDE DEF b, w
    <3> QED
      BY <1>4, <3>1 DEF IsHeap, b
  <2>2. 0 \in 0..Len(w)
    BY <1>5, StackLen
  <2>3. IsTyped(x)
    <3> HIDE DEF h, w
    <3> QED
      BY <1>4, <1>5, <2>2, NarrowTyped
  <2> HIDE DEF x, b
  <2> QED
    BY <2>1, <2>3, ChangeTyped
<1>8. CASE DecodeUnmarshaler(p) \/ StartDuration(p)
  <2>1. PICK b \in Buffers : Gets(b, w, Advanced(p))
    BY <1>8 DEF DecodeUnmarshaler, StartDuration
  <2>2. Advanced(p)[b] = heap[b] \/ b \notin buffer_pool
    <3>1. t.b \in InUse(p)
      BY <1>2, TopFacts
    <3>2. b \in buffer_pool => b # t.b
      BY <3>1 DEF IInv, Disjoint
    <3>3. \A c \in Buffers : c # t.b => Advanced(p)[c] = heap[c]
      BY <1>2, AdvancedIs
    <3> QED
      BY <3>2, <3>3
  <2> HIDE DEF w
  <2> QED
    BY <1>3, <1>5, <2>1, <2>2, GetsTyped
<1> QED
  BY <1>6, <1>7, <1>8

LEMMA DecodeNumberTyped ==
  ASSUME IInv, HeapTyped(heap), NEW p \in Procs, NEW g, Here(p, g), DecodeNumber(p)
  PROVE  HeapTyped(heap')
<1> DEFINE t == Top(p)
           h == heap[t.b]
           b == t.b
           x == Next2(p)
           i == h.array_indexes[<<p, t.at>>]
           j == i + 1
           y == [x EXCEPT !.array_indexes[<<p, t.at>>] = j]
<1>1. Decoding(p, "number")
  BY DEF DecodeNumber
<1>2. stack[p] # <<>> /\ Reads(h) /\ Indexes(h) /\ h.index # Len(h.buf)
  BY <1>1, DecodingIs
<1>3. IsHeap(Advanced(p)) /\ HeapTyped(Advanced(p)) /\ IsTyped(x)
  BY <1>2, AdvancedTyped
<1>4. /\ Advanced(p)[b] = x /\ IsBuffer(x) /\ Indexes(x) /\ b \in Buffers
  BY <1>2, AdvancedIs, TopTyped
<1>5. heap' = Advanced(p) \/ (t.at \in Paths /\ heap' = [Advanced(p) EXCEPT ![b].array_indexes[<<p, t.at>>] = j])
  BY DEF DecodeNumber
<1>6. CASE heap' = Advanced(p)
  BY <1>3, <1>6
<1>7. CASE t.at \in Paths /\ heap' = [Advanced(p) EXCEPT ![b].array_indexes[<<p, t.at>>] = j]
  <2> DEFINE aa == <<p, t.at>>
             H == Advanced(p)
             at == t.at
  <2>1. heap' = [H EXCEPT ![b] = y]
    <3> HIDE DEF aa, j, x, b, H
    <3> QED
      BY <1>3, <1>4, <1>7 DEF IsHeap, aa, H
  <2>2. Indexed(y, p, x, at, j)
    <3> HIDE DEF x, j, at
    <3> QED
      BY <1>4, <1>7, IndexChanges DEF at
  <2> HIDE DEF y, x, H, b, j, at
  <2>3. IsTyped(y)
    BY <1>3, <2>2 DEF IsTyped, Indexed
  <2> QED
    BY <1>3, <2>1, <2>3, OneTyped DEF H
<1> QED
  BY <1>5, <1>6, <1>7

LEMMA DecodeDurationTyped ==
  ASSUME IInv, HeapTyped(heap), NEW p \in Procs, NEW g, Here(p, g), DecodeDuration(p)
  PROVE  HeapTyped(heap')
<1> DEFINE t == Top(p)
           h == heap[t.b]
<1>1. stack[p] # <<>> /\ t.op = "duration" /\ t.pc = "run"
  BY DEF DecodeDuration, Runs
<1>2. DecodingTop(p, request[p].max, h, structs[p], t, Ghost(p, g)) /\ t.b \in Buffers
  BY <1>1, UnmarshalTop
<1>3. Reads(h) /\ Indexes(h)
  <2> HIDE DEF t, h
  <2> QED
    BY <1>1, <1>2 DEF DecodingTop
<1>4. CASE AtEnd(p)
  BY <1>4 DEF DecodeDuration
<1>5. CASE ~AtEnd(p)
  <2>1. h.index # Len(h.buf)
    BY <1>5 DEF AtEnd, Bytes
  <2>2. HeapTyped(Advanced(p))
    BY <1>1, <1>3, <2>1, AdvancedTyped
  <2>3. heap' = Advanced(p) \/ \E f : Deliver(p, f, Freed(t.b))
    BY <1>5 DEF DecodeDuration
  <2>4. IsHeap(Freed(t.b)) /\ HeapTyped(Freed(t.b))
    BY <1>2, FreedTyped
  <2> QED
    BY <1>1, <2>2, <2>3, <2>4, DeliverTyped
<1> QED
  BY <1>4, <1>5

LEMMA StepTyped ==
  ASSUME IInv, HeapTyped(heap), NEW p \in Procs, NEW g, Here(p, g), MaxRecursionDepth \in MaxDepths, Step(p)
  PROVE  HeapTyped(heap')
BY MarshalTyped, PutBackTyped, EnterTyped, DecodeTyped, DecodeNumberTyped, DecodeDurationTyped DEF Step

\* All Buffers have fields of their types, an answer is one, and structs have arrays of their length.
Replied(p) == reply[p] = {} \/ \E x : reply[p] = {x}
Typed == HeapTyped(heap) /\ \A p \in Procs : Replied(p) /\ structs[p] \in Promise!Arrays

LEMMA InitTyped == ASSUME Init PROVE Typed
<1>1. HeapTyped(heap)
  <2> DEFINE n == NewBuffer(0)
  <2>1. heap = [b \in Buffers |-> n] /\ IsTyped(n)
    BY NewBufferTyped DEF Init
  <2> HIDE DEF n
  <2> QED
    BY <2>1 DEF HeapTyped
<1>2. \A p \in Procs : Replied(p) /\ structs[p] = NoRequest.into
  BY DEF Init, Replied
<1> QED
  BY <1>1, <1>2, ZeroStruct DEF Typed

\* A number is stored where the array has a place for it.
LEMMA StructTyped ==
  ASSUME IInv, Answered, NEW p \in Procs, NEW g, Here(p, g), DecodeNumber(p)
  PROVE  structs'[p] \in Promise!Arrays
<1> DEFINE t == Top(p)
<1>1. Decoding(p, "number") /\ stack' = stack
  BY DEF DecodeNumber
<1>2. t.op \in {"Unmarshal", "message"} /\ t.pc = "run" /\ stack[p] # <<>>
  BY <1>1, DecodingIs
<1>3. request[p].op # "Marshal"
  BY <1>2, UnmarshalTop
<1>4. structs = [q \in Procs |-> structs[q]]
  BY DEF Answered, OfProcs
<1>5. Continues(p)
  BY <1>4, DecodeNumberFollows
<1>6. PICK e : Follows(p, stack[p], heap', structs'[p], request[p], e)
  BY <1>1, <1>5 DEF Continues, Following
<1> DEFINE s == stack[p]
           h == heap'[t.b]
           a == e[Len(s)]
           st == structs'[p]
           max == request[p].max
<1>7. DecodingTop(p, max, h, st, t, a)
  BY <1>3, <1>6 DEF Follows, AtTop, Top
<1> HIDE DEF t, h, a, st, max
<1>8. ComesTo(t, max, Left(h), a.depth, st, FilledIn(p, h), t.result.err, a.outcome)
  BY <1>2, <1>7 DEF DecodingTop
<1>9. st \in Promise!Arrays
  BY <1>8, DecoderIs DEF ComesTo
<1> QED
  BY <1>9 DEF st

LEMMA StepKeepsTyped == ASSUME IInv, Answered, Typed, NEW p \in Procs, Step(p) PROVE Typed'
<1>1. stack[p] # <<>>
  BY DEF Step, EncodeNumber, EncodeMarshaler, EncodeFailing, EndMarshal, StartPacked, PackNumber, AppendPacked, Enter,
         Leave, DecodeNumber, DecodeBad, DecodeMessage, DecodeUnmarshaler, StartDuration, DecodeDuration, Clear, PutBack,
         Encoding, Packs, Runs, Decoding, InStruct
<1>2. InCall(p) /\ OfProcs /\ MaxRecursionDepth \in MaxDepths
  BY <1>1 DEF Answered
<1>3. PICK g : Here(p, g)
  BY <1>2 DEF InCall, Following, Here
<1>4. (Goes(p) \/ Ends(p)) /\ Alone(p)
  BY <1>2, <1>3, StepAnswers, StepAlone DEF InCall, OfProcs
<1>5. HeapTyped(heap')
  BY <1>2, <1>3, StepTyped DEF Typed
<1>6. \A q \in Procs : Replied(q)'
  BY <1>2, <1>4 DEF Goes, Ends, Replied, Typed, OfProcs
<1>7. structs' = structs \/ DecodeNumber(p)
  BY DEF Step, EncodeNumber, EncodeMarshaler, EncodeFailing, EndMarshal, StartPacked, PackNumber, AppendPacked, Enter, Leave,
         DecodeBad, DecodeMessage, DecodeUnmarshaler, StartDuration, DecodeDuration, Clear, PutBack
<1>8. \A q \in Procs : structs'[q] \in Promise!Arrays
  <2>1. structs'[p] \in Promise!Arrays
    BY <1>3, <1>7, StructTyped DEF Typed
  <2> QED
    BY <1>4, <2>1 DEF Alone, Typed
<1> QED
  BY <1>5, <1>6, <1>8 DEF Typed, HeapTyped

LEMMA CallKeepsTyped ==
  ASSUME IInv, Answered, Typed, NEW p \in Procs, Marshal(p) \/ Unmarshal(p)
  PROVE  Typed'
<1>1. ASSUME NEW op, NEW of, NEW e, IsSeq(e), NEW todo, Call(p, op, of, e, todo) PROVE Typed'
  <2>1. PICK b \in Buffers : Gets(b, e, heap)
    BY <1>1 DEF Call
  <2>2. IsHeap(heap) /\ HeapTyped(heap) /\ MaxRecursionDepth \in MaxDepths
    BY DEF IInv, HeapOK, Typed, Answered
  <2>3. HeapTyped(heap')
    BY <1>1, <2>1, <2>2, GetsTyped
  <2>4. UNCHANGED <<structs, reply>>
    BY <1>1 DEF Call
  <2> QED
    BY <2>3, <2>4 DEF Typed, HeapTyped, Replied
<1>2. IsSeq(<<>>) /\ \A m \in Messages : IsSeq(m)
  BY SeqOne, ListsAssumption, ListsAreSeqs
<1> QED
  BY <1>1, <1>2 DEF Marshal, Unmarshal

LEMMA NextTyped == ASSUME IInv, Answered, Typed, [Next]_vars PROVE Typed'
<1>1. ASSUME NEW p \in Procs, Marshal(p) \/ Unmarshal(p) PROVE Typed'
  BY <1>1, CallKeepsTyped
<1>2. ASSUME NEW p \in Procs, Take(p) PROVE Typed'
  BY <1>2, ZeroStruct DEF Take, Typed, HeapTyped, Replied, Answered, OfProcs
<1>3. ASSUME NEW p \in Procs, Step(p) PROVE Typed'
  BY <1>3, StepKeepsTyped
<1>4. CASE Collect
  <2>1. PICK b : heap' = Freed(b)
    BY <1>4 DEF Collect
  <2>2. HeapTyped(heap') /\ UNCHANGED <<structs, reply>>
    BY <1>4, <2>1, FreedTyped DEF Typed, Collect
  <2> QED
    BY <2>2 DEF Typed, HeapTyped, Replied
<1>5. CASE SetMaxRecursionDepth \/ UNCHANGED vars
  BY <1>5 DEF SetMaxRecursionDepth, vars, Typed, HeapTyped, Replied
<1> QED
  BY <1>1, <1>2, <1>3, <1>4, <1>5 DEF Next

LEMMA ArrayLength == ASSUME NEW f \in [1..ArrayLen -> Int] PROVE Len(f) = ArrayLen
BY BufferPoolAssumption

LEMMA TypesOK == ASSUME IInv, Answered, Typed PROVE TypeOK
<1>1. MaxRecursionDepth \in MaxDepths /\ buffer_pool \subseteq Buffers
  BY DEF Answered, IInv, Disjoint
<1>2. \A b \in Buffers : heap[b].index \in 0..Len(heap[b].buf) /\ heap[b].depth \in Nat /\ heap[b].max \in MaxDepths \cup {0}
  BY DEF Typed, HeapTyped, IsTyped
<1>3. ASSUME NEW p \in Procs PROVE InUse(p) \subseteq Buffers /\ Cardinality(reply[p]) <= 1
  <2>1. InUse(p) \subseteq Buffers
    BY DEF IInv, StackOK
  <2>2. CASE reply[p] = {}
    BY <2>1, <2>2, FS_EmptySet
  <2>3. ASSUME NEW x, reply[p] = {x} PROVE Cardinality(reply[p]) <= 1
    <3>1. Cardinality({x}) = 1
      BY FS_Singleton
    <3> QED
      BY <2>3, <3>1
  <2> QED
    BY <2>1, <2>2, <2>3 DEF Typed, Replied
<1>4. ASSUME NEW p \in Procs, NEW at \in Paths PROVE Len(structs[p][at]) = ArrayLen
  <2>1. structs[p][at] \in [1..ArrayLen -> Int]
    BY DEF Typed, Promise!Arrays
  <2> QED
    BY <2>1, ArrayLength
<1> QED
  BY <1>1, <1>2, <1>3, <1>4 DEF TypeOK

\* Positions stay within the bytes of their Buffers, depths never become negative, and structs keep
\* the lengths of their arrays (Buffer.index, recursion_depth, lib.go; array_indexes, decode.go).
THEOREM TypeCorrect == Spec => []TypeOK
<1>1. Init => Typed
  BY InitTyped
<1>2. IInv /\ Answered /\ Typed /\ [Next]_vars => Typed'
  BY NextTyped
<1>3. IInv /\ Answered /\ Typed => TypeOK
  BY TypesOK
<1> QED
  BY <1>1, <1>2, <1>3, Invariant, SpecAnswered, PTL DEF Spec
======================================================================================
