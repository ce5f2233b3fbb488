---------------------------- MODULE ProtoFiles_proofs ----------------------------
(***************************************************************************)
(* ProtoFiles implements ProtoFile, whatever the structs of the program,   *)
(* the arguments and the order in which a map gives the types: the search  *)
(* ends with the least set that has the arguments and what they lead to,   *)
(* and the file has each type of it that has a name once, in order.        *)
(*                                                                         *)
(* The code tells the types that need no look at their fields by what      *)
(* setEncAndDec has left in the Properties, and Dependencies by the types; *)
(* that both agree is proved from the choice of the codec of a field.      *)
(***************************************************************************)
EXTENDS ProtoFilesRuns, Wire_proofs, FiniteSetTheorems

-----------------------------------------------------------------------------
(* closures: a step F from sets to sets, as a function *)

\* what is added round by round
Rounds(F, R) == R = [n \in Nat |-> IF n = 0 THEN {} ELSE F[R[n - 1]]]

\* the rounds up to n
RoundsUpTo(F, n, R) == R[0] = {} /\ \A k \in 0..(n - 1) : R[k + 1] = F[R[k]]

LEMMA RoundsAgree ==
  ASSUME NEW F, NEW m \in Nat, NEW n \in Nat, m <= n, NEW A, NEW B, RoundsUpTo(F, m, A), RoundsUpTo(F, n, B)
  PROVE  A[m] = B[m]
<1> DEFINE S == {k \in Nat : k <= m => A[k] = B[k]}
<1>1. 0 \in S
  BY DEF RoundsUpTo
<1>2. ASSUME NEW k \in Nat, k \in S PROVE k + 1 \in S
  <2> SUFFICES ASSUME k + 1 <= m PROVE A[k + 1] = B[k + 1]
    OBVIOUS
  <2>1. k \in 0..(m - 1) /\ k \in 0..(n - 1) /\ A[k] = B[k]
    BY <1>2
  <2> QED
    BY <2>1 DEF RoundsUpTo
<1> HIDE DEF S
<1>3. Nat \subseteq S
  BY <1>1, <1>2, SetInduction
<1> QED
  BY <1>3 DEF S

\* there are rounds: a function that is defined by recursion exists
LEMMA RoundsExist ==
  ASSUME NEW F
  PROVE  \E R : Rounds(F, R)
<1> DEFINE S == {n \in Nat : \E R : RoundsUpTo(F, n, R)}
<1>1. 0 \in S
  <2>1. RoundsUpTo(F, 0, [k \in 0..0 |-> {}])
    BY DEF RoundsUpTo
  <2> QED
    BY <2>1
<1>2. ASSUME NEW n \in Nat, n \in S PROVE n + 1 \in S
  <2>1. PICK R : RoundsUpTo(F, n, R)
    BY <1>2
  <2> DEFINE Q == [k \in 0..(n + 1) |-> IF k = n + 1 THEN F[R[n]] ELSE R[k]]
  <2>2. Q[0] = {}
    BY <2>1 DEF RoundsUpTo
  <2>3. ASSUME NEW k \in 0..((n + 1) - 1) PROVE Q[k + 1] = F[Q[k]]
    <3>1. CASE k = n
      BY <3>1
    <3>2. CASE k # n
      <4>1. k \in 0..(n - 1) /\ k + 1 \in 0..(n + 1) /\ k + 1 # n + 1 /\ k \in 0..(n + 1) /\ k # n + 1
        BY <3>2
      <4> QED
        BY <2>1, <4>1 DEF RoundsUpTo
    <3> QED
      BY <3>1, <3>2
  <2> HIDE DEF Q
  <2>4. RoundsUpTo(F, n + 1, Q)
    BY <2>2, <2>3 DEF RoundsUpTo
  <2> QED
    BY <2>4
<1> HIDE DEF S
<1>3. Nat \subseteq S
  BY <1>1, <1>2, SetInduction
<1> USE DEF S
<1> DEFINE Upto(n) == CHOOSE R : RoundsUpTo(F, n, R)
           G == [n \in Nat |-> Upto(n)[n]]
<1>4. ASSUME NEW n \in Nat PROVE RoundsUpTo(F, n, Upto(n))
  BY <1>3
<1> HIDE DEF Upto
<1>5. G[0] = {}
  BY <1>4 DEF RoundsUpTo
<1>6. ASSUME NEW n \in Nat, n # 0 PROVE G[n] = F[G[n - 1]]
  <2>1. n - 1 \in Nat /\ n - 1 <= n /\ n - 1 \in 0..(n - 1) /\ (n - 1) + 1 = n
    BY <1>6
  <2>2. RoundsUpTo(F, n - 1, Upto(n - 1)) /\ RoundsUpTo(F, n, Upto(n))
    BY <1>4, <2>1
  <2>3. Upto(n - 1)[n - 1] = Upto(n)[n - 1]
    BY <2>1, <2>2, RoundsAgree
  <2>4. Upto(n)[n] = F[Upto(n)[n - 1]]
    BY <2>1, <2>2 DEF RoundsUpTo
  <2> QED
    BY <2>1, <2>3, <2>4
<1>7. G = [n \in Nat |-> IF n = 0 THEN {} ELSE F[G[n - 1]]]
  <2>1. \A n \in Nat : G[n] = IF n = 0 THEN {} ELSE F[G[n - 1]]
    BY <1>5, <1>6
  <2>2. G = [n \in Nat |-> G[n]]
    OBVIOUS
  <2> HIDE DEF G
  <2> QED
    BY <2>1, <2>2
<1> HIDE DEF G
<1> QED
  BY <1>7 DEF Rounds

\* F works on subsets of T and is monotonic
Grows(F, T) ==
  /\ F \in [SUBSET T -> SUBSET T]
  /\ \A A, B \in SUBSET T : A \subseteq B => F[A] \subseteq F[B]

LEMMA RoundsInside ==
  ASSUME NEW T, NEW F, Grows(F, T), NEW R, Rounds(F, R)
  PROVE  \A n \in Nat : R[n] \in SUBSET T
<1> DEFINE S == {n \in Nat : R[n] \in SUBSET T}
<1>1. 0 \in S
  BY DEF Rounds
<1>2. ASSUME NEW k \in Nat, k \in S PROVE k + 1 \in S
  <2>1. k + 1 \in Nat /\ k + 1 # 0 /\ (k + 1) - 1 = k
    OBVIOUS
  <2>2. R[k + 1] = F[R[k]]
    BY <2>1 DEF Rounds
  <2> QED
    BY <1>2, <2>2 DEF Grows
<1> HIDE DEF S
<1>3. Nat \subseteq S
  BY <1>1, <1>2, SetInduction
<1> QED
  BY <1>3 DEF S

\* After as many rounds as T has elements nothing is added.
LEMMA LeastFixpoint ==
  ASSUME NEW T, IsFiniteSet(T), NEW F, Grows(F, T), NEW R, Rounds(F, R),
         NEW L, L = R[Cardinality(T) + 1]
  PROVE  /\ L \in SUBSET T
         /\ F[L] = L
         /\ \A A \in SUBSET T : F[A] \subseteq A => L \subseteq A
<1> DEFINE N == Cardinality(T)
<1>1. N \in Nat
  BY FS_CardinalityType
<1> HIDE DEF N
<1>2. R[0] = {}
  BY DEF Rounds
<1>3. ASSUME NEW n \in Nat PROVE R[n + 1] = F[R[n]]
  <2>1. n + 1 \in Nat /\ n + 1 # 0 /\ (n + 1) - 1 = n
    OBVIOUS
  <2> QED
    BY <2>1 DEF Rounds
<1>4. \A n \in Nat : R[n] \in SUBSET T
  BY RoundsInside
<1>5. \A n \in Nat : R[n] \subseteq R[n + 1]
  <2> DEFINE S == {n \in Nat : R[n] \subseteq R[n + 1]}
  <2>1. 0 \in S
    BY <1>2
  <2>2. ASSUME NEW k \in Nat, k \in S PROVE k + 1 \in S
    <3>1. R[k] \subseteq R[k + 1] /\ R[k] \in SUBSET T /\ R[k + 1] \in SUBSET T
      BY <2>2, <1>4
    <3>2. R[k + 1] = F[R[k]] /\ R[(k + 1) + 1] = F[R[k + 1]]
      BY <1>3
    <3>3. R[k + 1] \subseteq R[(k + 1) + 1]
      BY <3>1, <3>2 DEF Grows
    <3> QED
      BY <3>3
  <2> HIDE DEF S
  <2>3. Nat \subseteq S
    BY <2>1, <2>2, SetInduction
  <2> QED
    BY <2>3 DEF S
<1>6. \E k \in 0..N : R[k] = R[k + 1]
  <2> SUFFICES ASSUME \A k \in 0..N : R[k] # R[k + 1] PROVE FALSE
    OBVIOUS
  <2> DEFINE S == {n \in Nat : n <= N + 1 => Cardinality(R[n]) >= n}
  <2>1. 0 \in S
    BY <1>2, FS_EmptySet
  <2>2. ASSUME NEW k \in Nat, k \in S PROVE k + 1 \in S
    <3> SUFFICES ASSUME k + 1 <= N + 1 PROVE Cardinality(R[k + 1]) >= k + 1
      OBVIOUS
    <3>1. k \in 0..N /\ k <= N + 1
      BY <1>1
    <3>2. R[k] \subseteq R[k + 1] /\ R[k] # R[k + 1]
      BY <1>5, <3>1
    <3>3. IsFiniteSet(R[k + 1]) /\ IsFiniteSet(R[k])
      BY <1>4, FS_Subset
    <3>4. Cardinality(R[k]) \in Nat /\ Cardinality(R[k + 1]) \in Nat
      BY <3>3, FS_CardinalityType
    <3>5. Cardinality(R[k]) <= Cardinality(R[k + 1]) /\ Cardinality(R[k + 1]) # Cardinality(R[k])
      BY <3>2, <3>3, FS_Subset
    <3>6. Cardinality(R[k]) >= k
      BY <2>2, <3>1
    <3> QED
      BY <3>4, <3>5, <3>6
  <2> HIDE DEF S
  <2>3. Nat \subseteq S
    BY <2>1, <2>2, SetInduction
  <2>4. Cardinality(R[N + 1]) >= N + 1
    BY <1>1, <2>3 DEF S
  <2>5. R[N + 1] \in SUBSET T
    BY <1>1, <1>4
  <2>6. IsFiniteSet(R[N + 1]) /\ Cardinality(R[N + 1]) <= Cardinality(T)
    BY <2>5, FS_Subset
  <2>7. Cardinality(R[N + 1]) \in Nat
    BY <2>6, FS_CardinalityType
  <2> QED
    BY <1>1, <2>4, <2>6, <2>7 DEF N
<1>7. PICK k \in 0..N : R[k] = R[k + 1]
  BY <1>6
<1>8. \A n \in Nat : R[k + n] = R[k]
  <2> DEFINE S == {n \in Nat : R[k + n] = R[k]}
  <2>0. k \in Nat
    BY <1>1
  <2>1. 0 \in S
    BY <2>0
  <2>2. ASSUME NEW n \in Nat, n \in S PROVE n + 1 \in S
    <3>1. k + n \in Nat /\ k + (n + 1) = (k + n) + 1
      BY <2>0
    <3>2. R[k + (n + 1)] = F[R[k + n]] /\ R[k + 1] = F[R[k]]
      BY <1>3, <2>0, <3>1
    <3> QED
      BY <2>2, <3>2, <1>7
  <2> HIDE DEF S
  <2>3. Nat \subseteq S
    BY <2>1, <2>2, SetInduction
  <2> QED
    BY <2>3 DEF S
<1>9. R[N + 1] = R[k] /\ R[(N + 1) + 1] = R[k]
  <2>1. (N + 1) - k \in Nat /\ k + ((N + 1) - k) = N + 1
    BY <1>1
  <2>2. (N + 2) - k \in Nat /\ k + ((N + 2) - k) = (N + 1) + 1
    BY <1>1
  <2> QED
    BY <1>8, <2>1, <2>2
<1>10. L = R[N + 1]
  BY DEF N
<1>11. F[L] = L
  BY <1>1, <1>3, <1>9, <1>10
<1>12. ASSUME NEW A \in SUBSET T, F[A] \subseteq A PROVE L \subseteq A
  <2> DEFINE S == {n \in Nat : R[n] \subseteq A}
  <2>1. 0 \in S
    BY <1>2
  <2>2. ASSUME NEW n \in Nat, n \in S PROVE n + 1 \in S
    <3>1. R[n] \in SUBSET T /\ R[n] \subseteq A
      BY <1>4, <2>2
    <3>2. F[R[n]] \subseteq F[A]
      BY <3>1 DEF Grows
    <3> QED
      BY <1>3, <1>12, <3>2
  <2> HIDE DEF S
  <2>3. Nat \subseteq S
    BY <2>1, <2>2, SetInduction
  <2> QED
    BY <1>1, <1>10, <2>3 DEF S
<1> QED
  BY <1>1, <1>4, <1>10, <1>11, <1>12

-----------------------------------------------------------------------------
(* the Properties of a field: with more structs in error, more fields are *)

IsProps(p) ==
  p = [x \in {"err", "skip", "wire", "valEnc", "tag", "isOptional", "enc", "dec", "asProtobuf", "stype", "custom",
               "length", "tagcode"} |-> p[x]]

\* q has an error if p has, and otherwise the same key
Alike(p, q) == IsProps(p) /\ IsProps(q) /\ p.skip = q.skip /\ p.tag = q.tag /\ (p.err # None => q.err # None)

USE DEF None, NoTag, BadTag, NoEncoder, NotThisWire, BadStruct, BadMap, Panics

\* What Refuse and the changes of single fields leave alone.
LEMMA RefuseFacts ==
  ASSUME NEW p, IsProps(p), NEW e
  PROVE  IsProps(Refuse(p, e)) /\ Refuse(p, e).stype = p.stype /\ Refuse(p, e).custom = p.custom
         /\ Refuse(p, e).tag = p.tag /\ Refuse(p, e).skip = p.skip /\ Refuse(p, e).err = e
BY DEF IsProps, Refuse

LEMMA SubtypeFacts ==
  ASSUME NEW p, IsProps(p), NEW S
  PROVE  IsProps([p EXCEPT !.stype = S]) /\ [p EXCEPT !.stype = S].stype = S /\ [p EXCEPT !.stype = S].custom = p.custom
         /\ [p EXCEPT !.stype = S].tag = p.tag /\ [p EXCEPT !.stype = S].skip = p.skip /\ [p EXCEPT !.stype = S].err = p.err
BY DEF IsProps

LEMMA CheckedFacts ==
  ASSUME NEW p, IsProps(p), NEW ok
  PROVE  IsProps(Checked(ok, p)) /\ Checked(ok, p).stype = p.stype /\ Checked(ok, p).custom = p.custom
         /\ Checked(ok, p).tag = p.tag /\ Checked(ok, p).skip = p.skip /\ (Checked(ok, p).err = None => p.err = None)
<1>1. CASE ok
  BY <1>1 DEF Checked
<1>2. CASE ~ok
  <2>1. Checked(ok, p) = Refuse(p, NotThisWire)
    BY <1>2 DEF Checked
  <2>2. NotThisWire # None
    OBVIOUS
  <2> HIDE DEF NotThisWire
  <2> QED
    BY <2>1, <2>2, RefuseFacts
<1> QED
  BY <1>1, <1>2

LEMMA UseFacts ==
  ASSUME NEW p, IsProps(p), NEW shape, NEW enc, NEW dec, NEW label, NEW text, NEW u, u = Use(p, shape, enc, dec, label, text)
  PROVE  IsProps(u) /\ u.stype = p.stype /\ u.custom = p.custom /\ u.tag = p.tag /\ u.skip = p.skip /\ u.err = p.err
BY DEF IsProps, Use

LEMMA MessageFacts ==
  ASSUME NEW p, IsProps(p), NEW shape, NEW dec, NEW t, NEW label, NEW bad, NEW m, m = Message(p, shape, dec, t, label, bad)
  PROVE  IsProps(m) /\ m.stype = {t} /\ m.custom = p.custom /\ m.tag = p.tag /\ m.skip = p.skip /\ (t \in bad => m.err # None)
<1>1. CASE t \in bad
  <2> DEFINE v == [p EXCEPT !.stype = {t}]
  <2>1. IsProps(v) /\ v.stype = {t} /\ v.custom = p.custom /\ v.tag = p.tag /\ v.skip = p.skip
    BY SubtypeFacts
  <2>2. m = Refuse(v, BadStruct)
    BY <1>1 DEF Message
  <2>3. BadStruct # None
    OBVIOUS
  <2> HIDE DEF v, BadStruct
  <2> QED
    BY <2>1, <2>2, <2>3, RefuseFacts
<1>2. CASE t \notin bad
  <2> DEFINE u == Use(p, shape, "struct_message", dec, label, stypeAsProtobuf(t))
             v == [u EXCEPT !.stype = {t}]
  <2>1. IsProps(u) /\ u.custom = p.custom /\ u.tag = p.tag /\ u.skip = p.skip
    BY UseFacts
  <2>2. m = Checked(v.wire = WireBytes, v)
    BY <1>2 DEF Message, OnlyBytes
  <2> HIDE DEF u
  <2>3. IsProps(v) /\ v.stype = {t} /\ v.custom = p.custom /\ v.tag = p.tag /\ v.skip = p.skip
    BY <2>1, SubtypeFacts
  <2> HIDE DEF v
  <2> QED
    BY <1>2, <2>2, <2>3, CheckedFacts
<1> QED
  BY <1>1, <1>2

LEMMA Parsed ==
  ASSUME NEW tag
  PROVE  IsProps(Parse(tag)) /\ Parse(tag).custom = "no" /\ Parse(tag).stype = {}
<1>1. IsProps(NoProperties) /\ NoProperties.custom = "no" /\ NoProperties.stype = {}
  BY DEF NoProperties, IsProps
<1>0. IsProps(Refuse(NoProperties, BadTag)) /\ Refuse(NoProperties, BadTag).custom = "no" /\ Refuse(NoProperties, BadTag).stype = {}
  BY <1>1, RefuseFacts
<1>2. CASE tag.form = "-"
  <2>1. Parse(tag) = [NoProperties EXCEPT !.skip = TRUE]
    BY <1>2 DEF Parse
  <2> QED
    BY <1>1, <2>1 DEF IsProps
<1>3. CASE tag.form = "short"
  <2>1. Parse(tag) = [NoProperties EXCEPT !.skip = TRUE, !.err = BadTag]
    BY <1>3 DEF Parse
  <2> QED
    BY <1>1, <2>1 DEF IsProps
<1>4. CASE tag.form \notin {"-", "short"} /\ (tag.wire \notin WireNames \/ tag.id <= 0)
  <2>1. Parse(tag) = Refuse(NoProperties, BadTag)
    BY <1>4 DEF Parse
  <2> QED
    BY <1>0, <2>1
<1>5. CASE tag.form \notin {"-", "short"} /\ ~(tag.wire \notin WireNames \/ tag.id <= 0)
  <2> DEFINE w == WireOf(tag.wire)
             v == IF tag.wire = "bytes" THEN "nil" ELSE tag.wire
             n == tag.id % Word32
             o == tag.optional
  <2>1. Parse(tag) = [NoProperties EXCEPT !.wire = w, !.valEnc = v, !.tag = n, !.isOptional = o]
    BY <1>5 DEF Parse
  <2> HIDE DEF w, v, n, o
  <2> QED
    BY <1>1, <2>1 DEF IsProps
<1> QED
  BY <1>2, <1>3, <1>4, <1>5

\* The types that a field leads to: structs, and types that the generator does not look into.  Those in
\* error are not among them if the field is all right, but for types that need no fields.
Leads(p, bad) ==
  \A s \in p.stype :
    /\ s.kind = "struct" \/ p.custom # "no" \/ isAsProtobuf3er(s) \/ s = Duration
    /\ p.custom # "no" =>
         MarshalsItself(s) \/ isAsProtobuf3er(s) \/ s.kind # "struct" \/ s.marshals \notin {"no", "Appender", "Marshaler"}
    /\ MarshalsItself(s) => p.custom # "no" \/ isAsProtobuf3er(s)
    /\ p.err = None =>
         s \notin bad \/ MarshalsItself(s) \/ s.kind # "struct" \/ (isAsProtobuf3er(s) /\ AsProtobuf3(s).definition)

\* p and q are the Properties of a field when the structs in bad and when more are in error
Described(p, q, bad) == Alike(p, q) /\ Leads(p, bad)

LEMMA SameDescribed ==
  ASSUME NEW p, IsProps(p), NEW bad, Leads(p, bad)
  PROVE  Described(p, p, bad)
BY DEF Described, Alike

\* r is p with a codec
Keeps(p, r) == IsProps(r) /\ r.stype = p.stype /\ r.custom = p.custom

LEMMA CheckedKeeps ==
  ASSUME NEW p, NEW r, Keeps(p, r), NEW ok
  PROVE  Keeps(p, Checked(ok, r))
<1> DEFINE c == Checked(ok, r)
<1>1. IsProps(c) /\ c.stype = r.stype /\ c.custom = r.custom
  BY CheckedFacts DEF Keeps
<1> HIDE DEF c
<1>2. Keeps(p, c)
  BY <1>1 DEF Keeps
<1> QED
  BY <1>2 DEF c

LEMMA UseKeeps ==
  ASSUME NEW p, IsProps(p), NEW shape, NEW enc, NEW dec, NEW label, NEW text
  PROVE  Keeps(p, Use(p, shape, enc, dec, label, text))
BY UseFacts DEF Keeps

LEMMA NumberKeeps ==
  ASSUME NEW p, IsProps(p), NEW shape, NEW k, NEW label, NEW text
  PROVE  Keeps(p, Number(p, shape, k, label, text))
BY UseKeeps, CheckedKeeps DEF Number

LEMMA WireKeeps ==
  ASSUME NEW p, NEW r, Keeps(p, r)
  PROVE  Keeps(p, [r EXCEPT !.wire = WireBytes])
BY DEF Keeps, IsProps

LEMMA PackedKeeps ==
  ASSUME NEW p, IsProps(p), NEW shape, NEW k, NEW text
  PROVE  Keeps(p, Packed(p, shape, k, text))
BY NumberKeeps, WireKeeps DEF Packed

LEMMA BytesKeep ==
  ASSUME NEW p, IsProps(p), NEW shape, NEW enc, NEW dec, NEW label, NEW text
  PROVE  Keeps(p, OnlyBytes(Use(p, shape, enc, dec, label, text)))
BY UseKeeps, CheckedKeeps DEF OnlyBytes

\* what is not of structs leads nowhere, unless it has a name of its own
LEMMA NumberDescribed ==
  ASSUME NEW p, p.custom = "no", NEW t, ~MarshalsItself(t), t.kind # "struct",
         p.stype = {} \/ (p.stype = {t} /\ isAsProtobuf3er(t)), NEW r, Keeps(p, r), NEW bad
  PROVE  Described(r, r, bad)
BY SameDescribed DEF Leads, Keeps

LEMMA MessageDescribed ==
  ASSUME NEW p, IsProps(p), p.custom = "no", NEW shape, NEW dec, NEW t, ~MarshalsItself(t), t.kind = "struct", NEW label,
         NEW bad, NEW worse, bad \subseteq worse
  PROVE  Described(Message(p, shape, dec, t, label, bad), Message(p, shape, dec, t, label, worse), bad)
<1> DEFINE m == Message(p, shape, dec, t, label, bad)
           w == Message(p, shape, dec, t, label, worse)
<1>1. IsProps(m) /\ m.stype = {t} /\ m.custom = "no" /\ m.tag = p.tag /\ m.skip = p.skip /\ (t \in bad => m.err # None)
  BY MessageFacts
<1>2. IsProps(w) /\ w.tag = p.tag /\ w.skip = p.skip /\ (t \in worse => w.err # None)
  BY MessageFacts
<1>3. t \notin worse => m = w
  BY DEF Message
<1> HIDE DEF m, w
<1>4. m.err # None => w.err # None
  BY <1>2, <1>3
<1>5. Leads(m, bad)
  BY <1>1 DEF Leads
<1>6. Described(m, w, bad)
  BY <1>1, <1>2, <1>4, <1>5 DEF Described, Alike
<1> QED
  BY <1>6 DEF m, w

LEMMA PtrElementsDescribed ==
  ASSUME NEW p, IsProps(p), p.custom = "no", p.stype = {}, NEW shape, NEW t, NEW bad, NEW worse, bad \subseteq worse
  PROVE  Described(PtrElements(p, shape, t, bad), PtrElements(p, shape, t, worse), bad)
<1>1. CASE t.kind = "struct"
  <2> DEFINE m == Message(p, shape, "struct_message", t, "repeated", bad)
             w == Message(p, shape, "struct_message", t, "repeated", worse)
             mc == [m EXCEPT !.custom = t.marshals]
             wc == [w EXCEPT !.custom = t.marshals]
  <2>1. IsProps(m) /\ m.stype = {t} /\ m.tag = p.tag /\ m.skip = p.skip /\ (t \in bad => m.err # None)
    BY MessageFacts
  <2>2. IsProps(w) /\ w.tag = p.tag /\ w.skip = p.skip /\ (t \in worse => w.err # None)
    BY MessageFacts
  <2>3. t \notin worse => m = w
    BY DEF Message
  <2>4. PtrElements(p, shape, t, bad) = mc /\ PtrElements(p, shape, t, worse) = wc
    BY <1>1 DEF PtrElements
  <2> HIDE DEF m, w
  <2>5. IsProps(mc) /\ mc.stype = {t} /\ mc.tag = p.tag /\ mc.skip = p.skip /\ mc.err = m.err /\ mc.custom = t.marshals
    BY <2>1 DEF IsProps
  <2>6. IsProps(wc) /\ wc.tag = p.tag /\ wc.skip = p.skip /\ wc.err = w.err
    BY <2>2 DEF IsProps
  <2> HIDE DEF mc, wc
  <2>7. Leads(mc, bad)
    BY <1>1, <2>1, <2>5 DEF Leads, MarshalsItself, isAppender, isMarshaler
  <2>8. Alike(mc, wc)
    BY <2>1, <2>2, <2>3, <2>5, <2>6 DEF Alike
  <2> QED
    BY <2>4, <2>7, <2>8 DEF Described
<1>2. CASE t.kind # "struct"
  <2>1. PtrElements(p, shape, t, bad) = Refuse(p, NoEncoder) /\ PtrElements(p, shape, t, worse) = Refuse(p, NoEncoder)
    BY <1>2 DEF PtrElements
  <2>2. IsProps(Refuse(p, NoEncoder)) /\ Refuse(p, NoEncoder).stype = {}
    BY RefuseFacts
  <2>3. Leads(Refuse(p, NoEncoder), bad)
    BY <2>2 DEF Leads
  <2> QED
    BY <2>1, <2>2, <2>3, SameDescribed
<1> QED
  BY <1>1, <1>2

LEMMA RefusedDescribed ==
  ASSUME NEW p, IsProps(p), p.stype = {}, NEW e, NEW bad
  PROVE  Described(Refuse(p, e), Refuse(p, e), bad)
<1>1. IsProps(Refuse(p, e)) /\ Refuse(p, e).stype = {}
  BY RefuseFacts
<1>2. Leads(Refuse(p, e), bad)
  BY <1>1 DEF Leads
<1> QED
  BY <1>1, <1>2, SameDescribed

LEMMA CustomDescribed ==
  ASSUME NEW p, IsProps(p), p.stype = {}, NEW shape, NEW t, MarshalsItself(t), NEW label, NEW bad
  PROVE  Described(Custom(p, shape, t, label), Custom(p, shape, t, label), bad)
<1>1. CASE t.name = ""
  <2>1. Custom(p, shape, t, label) = Refuse(p, Panics)
    BY <1>1 DEF Custom
  <2> HIDE DEF Panics
  <2> QED
    BY <2>1, RefusedDescribed
<1>2. CASE t.name # ""
  <2> DEFINE u == Use(p, shape, IF isAppender(t) THEN "appender" ELSE "marshaler", "unmarshaler", label, stypeAsProtobuf(t))
             c == [u EXCEPT !.stype = {t}, !.custom = t.marshals]
  <2>1. Custom(p, shape, t, label) = c
    BY <1>2 DEF Custom
  <2>2. IsProps(u)
    BY UseFacts
  <2> HIDE DEF u
  <2>3. IsProps(c) /\ c.stype = {t} /\ c.custom = t.marshals
    BY <2>2 DEF IsProps
  <2>4. t.marshals # "no"
    BY DEF MarshalsItself, isAppender, isMarshaler
  <2> HIDE DEF c
  <2>5. Leads(c, bad)
    BY <2>3, <2>4 DEF Leads
  <2> QED
    BY <2>1, <2>3, <2>5, SameDescribed
<1> QED
  BY <1>1, <1>2

LEMMA DurationDescribed ==
  ASSUME NEW p, IsProps(p), p.custom = "no", NEW shape, NEW label, NEW bad
  PROVE  Described(ADuration(p, shape, label), ADuration(p, shape, label), bad)
<1> DEFINE u == Use(p, shape, "time_Duration", "time_Duration", label, Text("google.protobuf.Duration"))
           d == [u EXCEPT !.stype = {Duration}]
<1>1. ADuration(p, shape, label) = d
  BY DEF ADuration
<1>2. IsProps(u) /\ u.custom = "no"
  BY UseFacts
<1> HIDE DEF u
<1>3. IsProps(d) /\ d.stype = {Duration} /\ d.custom = "no"
  BY <1>2, SubtypeFacts
<1> HIDE DEF d
<1>4. Duration.kind = "int64" /\ Duration.marshals = "no"
  BY DEF Duration, In, Type
<1>5. Leads(d, bad)
  BY <1>3, <1>4 DEF Leads, MarshalsItself, isAppender, isMarshaler
<1> QED
  BY <1>1, <1>3, <1>5, SameDescribed

\* a field with fresh Properties
Fresh(p) == IsProps(p) /\ p.custom = "no" /\ p.stype = {}

NumbersOnly == "struct" \notin NumberKinds /\ "string" \notin NumberKinds /\ "ptr" \notin NumberKinds /\ "slice" \notin NumberKinds

LEMMA NumberKindsOnly == NumbersOnly
BY DEF NumbersOnly, NumberKinds, Signed32, Unsigned32

\* a codec without structs
LEMMA PlainDescribed ==
  ASSUME NEW p, Fresh(p), NEW r, Keeps(p, r), NEW bad
  PROVE  Described(r, r, bad)
BY SameDescribed DEF Leads, Keeps, Fresh

LEMMA ScalarDescribed ==
  ASSUME NEW p, Fresh(p), NEW t, ~MarshalsItself(t), NEW bad, NEW worse, bad \subseteq worse
  PROVE  Described(scalarCodec(p, t, bad), scalarCodec(p, t, worse), bad)
<1>1. CASE IsDuration(p, t)
  <2>1. t.kind = "int64"
    BY <1>1 DEF IsDuration, Duration, In, Type
  <2>2. scalarCodec(p, t, bad) = ADuration(p, "", "") /\ scalarCodec(p, t, worse) = ADuration(p, "", "")
    BY <1>1, <2>1 DEF scalarCodec
  <2> QED
    BY <2>2, DurationDescribed DEF Fresh
<1>2. CASE ~IsDuration(p, t) /\ t.kind \in NumberKinds
  <2> DEFINE n == Number(p, "", t.kind, "", NumberText(t.kind, p.valEnc))
  <2>1. t.kind # "struct" /\ t.kind # "string"
    BY <1>2, NumberKindsOnly DEF NumbersOnly
  <2>2. scalarCodec(p, t, bad) = n /\ scalarCodec(p, t, worse) = n
    BY <1>2, <2>1 DEF scalarCodec
  <2>3. Keeps(p, n)
    BY NumberKeeps DEF Fresh
  <2> HIDE DEF n
  <2> QED
    BY <2>2, <2>3, PlainDescribed
<1>3. CASE t.kind = "string"
  <2> DEFINE n == OnlyBytes(Use(p, "", "string", "string", "", Text("string")))
  <2>1. t.kind \notin NumberKinds /\ ~IsDuration(p, t)
    BY <1>3, NumberKindsOnly DEF NumbersOnly, IsDuration, Duration, In, Type
  <2>2. scalarCodec(p, t, bad) = n /\ scalarCodec(p, t, worse) = n
    BY <1>3, <2>1 DEF scalarCodec
  <2>3. Keeps(p, n)
    BY BytesKeep DEF Fresh
  <2> HIDE DEF n
  <2> QED
    BY <2>2, <2>3, PlainDescribed
<1>4. CASE t.kind = "struct"
  <2> DEFINE dec == IF t = Time THEN "time_Time" ELSE "struct_message"
  <2>1. t.kind \notin NumberKinds /\ ~IsDuration(p, t)
    BY <1>4, NumberKindsOnly DEF NumbersOnly, IsDuration, Duration, In, Type
  <2>2. scalarCodec(p, t, bad) = Message(p, "", dec, t, "", bad) /\ scalarCodec(p, t, worse) = Message(p, "", dec, t, "", worse)
    BY <1>4, <2>1 DEF scalarCodec
  <2> HIDE DEF dec
  <2> QED
    BY <1>4, <2>2, MessageDescribed DEF Fresh
<1>5. CASE t.kind \notin NumberKinds \cup {"string", "struct"} /\ ~IsDuration(p, t)
  <2>1. scalarCodec(p, t, bad) = Refuse(p, NoEncoder) /\ scalarCodec(p, t, worse) = Refuse(p, NoEncoder)
    BY <1>5 DEF scalarCodec
  <2> HIDE DEF NoEncoder
  <2> QED
    BY <2>1, RefusedDescribed DEF Fresh
<1> QED
  BY <1>1, <1>2, <1>3, <1>4, <1>5

LEMMA PtrDescribed ==
  ASSUME NEW p, Fresh(p), NEW t, NEW bad, NEW worse, bad \subseteq worse
  PROVE  Described(ptrCodec(p, t, bad), ptrCodec(p, t, worse), bad)
<1> DEFINE q == IF isAsProtobuf3er(t) THEN [p EXCEPT !.stype = {t}] ELSE p
<1>1. CASE MarshalsItself(t)
  <2>1. ptrCodec(p, t, bad) = Custom(p, "ptr", t, "") /\ ptrCodec(p, t, worse) = Custom(p, "ptr", t, "")
    BY <1>1 DEF ptrCodec
  <2> QED
    BY <1>1, <2>1, CustomDescribed DEF Fresh
<1>2. IsProps(q) /\ q.custom = "no" /\ (q.stype = {} \/ (q.stype = {t} /\ isAsProtobuf3er(t)))
  BY SubtypeFacts DEF Fresh
<1>3. CASE ~MarshalsItself(t) /\ IsDuration(p, t)
  <2>1. t.kind = "int64"
    BY <1>3 DEF IsDuration, Duration, In, Type
  <2>2. ptrCodec(p, t, bad) = ADuration(p, "ptr", "") /\ ptrCodec(p, t, worse) = ADuration(p, "ptr", "")
    BY <1>3, <2>1 DEF ptrCodec
  <2> QED
    BY <2>2, DurationDescribed DEF Fresh
<1>4. CASE ~MarshalsItself(t) /\ ~IsDuration(p, t) /\ t.kind \in NumberKinds
  <2> DEFINE n == Number(q, "ptr", t.kind, "", NumberText(t.kind, p.valEnc))
  <2>1. t.kind # "struct" /\ t.kind # "string"
    BY <1>4, NumberKindsOnly DEF NumbersOnly
  <2>2. ptrCodec(p, t, bad) = n /\ ptrCodec(p, t, worse) = n
    BY <1>4, <2>1 DEF ptrCodec
  <2> HIDE DEF q
  <2>3. Keeps(q, n)
    BY <1>2, NumberKeeps
  <2> HIDE DEF n
  <2>4. Described(n, n, bad)
    BY <1>2, <1>4, <2>1, <2>3, NumberDescribed
  <2> QED
    BY <2>2, <2>4
<1>5. CASE ~MarshalsItself(t) /\ t.kind = "string"
  <2> DEFINE n == OnlyBytes(Use(q, "ptr", "string", "string", "", Text("string")))
  <2>1. t.kind \notin NumberKinds /\ ~IsDuration(p, t) /\ t.kind # "struct"
    BY <1>5, NumberKindsOnly DEF NumbersOnly, IsDuration, Duration, In, Type
  <2>2. ptrCodec(p, t, bad) = n /\ ptrCodec(p, t, worse) = n
    BY <1>5, <2>1 DEF ptrCodec
  <2> HIDE DEF q
  <2>3. Keeps(q, n)
    BY <1>2, BytesKeep
  <2> HIDE DEF n
  <2>4. Described(n, n, bad)
    BY <1>2, <1>5, <2>1, <2>3, NumberDescribed
  <2> QED
    BY <2>2, <2>4
<1>6. CASE ~MarshalsItself(t) /\ t.kind = "struct"
  <2> DEFINE dec == IF t = Time THEN "time_Time" ELSE "struct_message"
  <2>1. t.kind \notin NumberKinds /\ ~IsDuration(p, t)
    BY <1>6, NumberKindsOnly DEF NumbersOnly, IsDuration, Duration, In, Type
  <2>2. ptrCodec(p, t, bad) = Message(q, "ptr", dec, t, "", bad) /\ ptrCodec(p, t, worse) = Message(q, "ptr", dec, t, "", worse)
    BY <1>6, <2>1 DEF ptrCodec
  <2> HIDE DEF dec, q
  <2> QED
    BY <1>2, <1>6, <2>2, MessageDescribed
<1>7. CASE ~MarshalsItself(t) /\ t.kind \notin NumberKinds \cup {"string", "struct"} /\ ~IsDuration(p, t)
  <2>1. ptrCodec(p, t, bad) = Refuse(p, NoEncoder) /\ ptrCodec(p, t, worse) = Refuse(p, NoEncoder)
    BY <1>7 DEF ptrCodec
  <2> HIDE DEF NoEncoder
  <2> QED
    BY <2>1, RefusedDescribed DEF Fresh
<1> QED
  BY <1>1, <1>3, <1>4, <1>5, <1>6, <1>7

LEMMA SliceDescribed ==
  ASSUME NEW p, Fresh(p), NEW t, NEW bad, NEW worse, bad \subseteq worse
  PROVE  Described(sliceCodec(p, t, bad), sliceCodec(p, t, worse), bad)
<1>1. CASE MarshalsItself(t)
  <2>1. sliceCodec(p, t, bad) = Custom(p, "slice", t, "repeated") /\ sliceCodec(p, t, worse) = Custom(p, "slice", t, "repeated")
    BY <1>1 DEF sliceCodec
  <2> QED
    BY <1>1, <2>1, CustomDescribed DEF Fresh
<1>2. CASE ~MarshalsItself(t) /\ IsDuration(p, t)
  <2>1. t.kind = "int64"
    BY <1>2 DEF IsDuration, Duration, In, Type
  <2>2. sliceCodec(p, t, bad) = ADuration(p, "slice", "repeated") /\ sliceCodec(p, t, worse) = ADuration(p, "slice", "repeated")
    BY <1>2, <2>1 DEF sliceCodec
  <2> QED
    BY <2>2, DurationDescribed DEF Fresh
<1>3. CASE ~MarshalsItself(t) /\ ~IsDuration(p, t) /\ t.kind = "uint8"
  <2> DEFINE n == [Use(p, "slice", "byte", "byte", "", Text("bytes")) EXCEPT !.wire = WireBytes]
  <2>1. sliceCodec(p, t, bad) = n /\ sliceCodec(p, t, worse) = n
    BY <1>3 DEF sliceCodec
  <2>2. Keeps(p, n)
    BY UseKeeps, WireKeeps DEF Fresh
  <2> HIDE DEF n
  <2> QED
    BY <2>1, <2>2, PlainDescribed
<1>4. CASE ~MarshalsItself(t) /\ ~IsDuration(p, t) /\ t.kind \in NumberKinds \ {"uint8"}
  <2> DEFINE n == Packed(p, "slice_packed", t.kind,
                         IF t.kind = "uint64" THEN int64_encoder_txt(p.valEnc) ELSE NumberText(t.kind, p.valEnc))
  <2>1. t.kind \notin {"struct", "string", "ptr", "slice"}
    BY <1>4, NumberKindsOnly DEF NumbersOnly
  <2>2. sliceCodec(p, t, bad) = n /\ sliceCodec(p, t, worse) = n
    <3>1. CASE t.kind = "uint64"
      BY <1>4, <2>1, <3>1 DEF sliceCodec
    <3>2. CASE t.kind # "uint64"
      BY <1>4, <2>1, <3>2 DEF sliceCodec
    <3> QED
      BY <3>1, <3>2
  <2>3. Keeps(p, n)
    BY PackedKeeps DEF Fresh
  <2> HIDE DEF n
  <2> QED
    BY <2>2, <2>3, PlainDescribed
<1>5. CASE ~MarshalsItself(t) /\ t.kind = "string"
  <2> DEFINE n == OnlyBytes(Use(p, "slice", "string", "string", "repeated", Text("string")))
  <2>1. t.kind \notin NumberKinds /\ ~IsDuration(p, t)
    BY <1>5, NumberKindsOnly DEF NumbersOnly, IsDuration, Duration, In, Type
  <2>2. sliceCodec(p, t, bad) = n /\ sliceCodec(p, t, worse) = n
    BY <1>5, <2>1 DEF sliceCodec
  <2>3. Keeps(p, n)
    BY BytesKeep DEF Fresh
  <2> HIDE DEF n
  <2> QED
    BY <2>2, <2>3, PlainDescribed
<1>6. CASE ~MarshalsItself(t) /\ t.kind = "struct"
  <2>1. t.kind \notin NumberKinds /\ ~IsDuration(p, t)
    BY <1>6, NumberKindsOnly DEF NumbersOnly, IsDuration, Duration, In, Type
  <2>2. /\ sliceCodec(p, t, bad) = Message(p, "slice", "struct_message", t, "repeated", bad)
        /\ sliceCodec(p, t, worse) = Message(p, "slice", "struct_message", t, "repeated", worse)
    BY <1>6, <2>1 DEF sliceCodec
  <2> QED
    BY <1>6, <2>2, MessageDescribed DEF Fresh
<1>7. CASE ~MarshalsItself(t) /\ t.kind = "ptr"
  <2>1. t.kind \notin NumberKinds /\ ~IsDuration(p, t)
    BY <1>7, NumberKindsOnly DEF NumbersOnly, IsDuration, Duration, In, Type
  <2>2. /\ sliceCodec(p, t, bad) = PtrElements(p, "slice_ptr", Elem(t), bad)
        /\ sliceCodec(p, t, worse) = PtrElements(p, "slice_ptr", Elem(t), worse)
    BY <1>7, <2>1 DEF sliceCodec
  <2> QED
    BY <2>2, PtrElementsDescribed DEF Fresh
<1>8. CASE ~MarshalsItself(t) /\ t.kind = "slice"
  <2> DEFINE n == Use(p, "slice", "slice_byte", "slice_byte", "repeated", Text("bytes"))
  <2>1. t.kind \notin NumberKinds /\ ~IsDuration(p, t)
    BY <1>8, NumberKindsOnly DEF NumbersOnly, IsDuration, Duration, In, Type
  <2>2. CASE Elem(t).kind = "uint8"
    <3>1. sliceCodec(p, t, bad) = n /\ sliceCodec(p, t, worse) = n
      BY <1>8, <2>1, <2>2 DEF sliceCodec
    <3>2. Keeps(p, n)
      BY UseKeeps DEF Fresh
    <3> HIDE DEF n
    <3> QED
      BY <3>1, <3>2, PlainDescribed
  <2>3. CASE Elem(t).kind # "uint8"
    <3>1. sliceCodec(p, t, bad) = Refuse(p, NoEncoder) /\ sliceCodec(p, t, worse) = Refuse(p, NoEncoder)
      BY <1>8, <2>1, <2>3 DEF sliceCodec
    <3> HIDE DEF NoEncoder
    <3> QED
      BY <3>1, RefusedDescribed DEF Fresh
  <2> QED
    BY <2>2, <2>3
<1>9. CASE ~MarshalsItself(t) /\ t.kind \notin NumberKinds \cup {"string", "struct", "ptr", "slice"} /\ ~IsDuration(p, t)
  <2>1. t.kind # "uint8" /\ t.kind # "uint64"
    BY <1>9 DEF NumberKinds, Unsigned32
  <2>2. sliceCodec(p, t, bad) = Refuse(p, NoEncoder) /\ sliceCodec(p, t, worse) = Refuse(p, NoEncoder)
    BY <1>9, <2>1 DEF sliceCodec
  <2> HIDE DEF NoEncoder
  <2> QED
    BY <2>2, RefusedDescribed DEF Fresh
<1> QED
  BY <1>1, <1>2, <1>3, <1>4, <1>5, <1>6, <1>7, <1>8, <1>9

LEMMA ArrayDescribed ==
  ASSUME NEW q, Fresh(q), NEW n, NEW t, NEW bad, NEW worse, bad \subseteq worse
  PROVE  Described(arrayCodec(q, n, t, bad), arrayCodec(q, n, t, worse), bad)
<1> DEFINE p == [q EXCEPT !.length = n]
<1>0. Fresh(p)
  BY DEF Fresh, IsProps
<1>1. CASE n = 0
  <2> DEFINE a == [p EXCEPT !.enc = <<"", "nothing">>, !.dec = <<"", "nothing">>]
  <2>1. arrayCodec(q, n, t, bad) = a /\ arrayCodec(q, n, t, worse) = a
    BY <1>1 DEF arrayCodec
  <2> HIDE DEF p
  <2>2. Keeps(p, a)
    BY <1>0 DEF Fresh, Keeps, IsProps
  <2> HIDE DEF a
  <2> QED
    BY <1>0, <2>1, <2>2, PlainDescribed
<1>2. CASE n # 0 /\ MarshalsItself(t)
  <2>1. arrayCodec(q, n, t, bad) = Custom(p, "array", t, "repeated") /\ arrayCodec(q, n, t, worse) = Custom(p, "array", t, "repeated")
    BY <1>2 DEF arrayCodec
  <2> HIDE DEF p
  <2> QED
    BY <1>0, <1>2, <2>1, CustomDescribed DEF Fresh
<1>3. CASE n # 0 /\ ~MarshalsItself(t) /\ IsDuration(p, t)
  <2>1. t.kind = "int64"
    BY <1>3 DEF IsDuration, Duration, In, Type
  <2>2. arrayCodec(q, n, t, bad) = ADuration(p, "array", "repeated") /\ arrayCodec(q, n, t, worse) = ADuration(p, "array", "repeated")
    BY <1>3, <2>1 DEF arrayCodec
  <2> HIDE DEF p
  <2> QED
    BY <1>0, <2>2, DurationDescribed DEF Fresh
<1>4. CASE n # 0 /\ ~MarshalsItself(t) /\ ~IsDuration(p, t) /\ t.kind = "uint8"
  <2> DEFINE a == Use(p, "array", "byte", "byte", "", Text("bytes"))
  <2>0. ~IsDuration(p, t) /\ n # 0
    BY <1>4
  <2>1. arrayCodec(q, n, t, bad) = a /\ arrayCodec(q, n, t, worse) = a
    BY <1>4, <2>0 DEF arrayCodec
  <2> HIDE DEF p
  <2>2. Keeps(p, a)
    BY <1>0, UseKeeps DEF Fresh
  <2> HIDE DEF a
  <2> QED
    BY <1>0, <2>1, <2>2, PlainDescribed
<1>5. CASE n # 0 /\ ~MarshalsItself(t) /\ ~IsDuration(p, t) /\ t.kind \in NumberKinds \ {"uint8"}
  <2> DEFINE a == Packed(p, "array_packed", t.kind, NumberText(t.kind, p.valEnc))
  <2>1. t.kind \notin {"struct", "string", "ptr", "slice"}
    BY <1>5, NumberKindsOnly DEF NumbersOnly
  <2>0. ~IsDuration(p, t) /\ n # 0
    BY <1>5
  <2>2. arrayCodec(q, n, t, bad) = a /\ arrayCodec(q, n, t, worse) = a
    BY <1>5, <2>0, <2>1 DEF arrayCodec
  <2> HIDE DEF p
  <2>3. Keeps(p, a)
    BY <1>0, PackedKeeps DEF Fresh
  <2> HIDE DEF a
  <2> QED
    BY <1>0, <2>2, <2>3, PlainDescribed
<1>6. CASE n # 0 /\ ~MarshalsItself(t) /\ t.kind = "string"
  <2> DEFINE a == OnlyBytes(Use(p, "array", "string", "string", "repeated", Text("string")))
  <2>1. t.kind \notin NumberKinds /\ ~IsDuration(p, t)
    BY <1>6, NumberKindsOnly DEF NumbersOnly, IsDuration, Duration, In, Type
  <2>2. arrayCodec(q, n, t, bad) = a /\ arrayCodec(q, n, t, worse) = a
    BY <1>6, <2>1 DEF arrayCodec
  <2> HIDE DEF p
  <2>3. Keeps(p, a)
    BY <1>0, BytesKeep DEF Fresh
  <2> HIDE DEF a
  <2> QED
    BY <1>0, <2>2, <2>3, PlainDescribed
<1>7. CASE n # 0 /\ ~MarshalsItself(t) /\ t.kind = "struct"
  <2>1. t.kind \notin NumberKinds /\ ~IsDuration(p, t)
    BY <1>7, NumberKindsOnly DEF NumbersOnly, IsDuration, Duration, In, Type
  <2>2. /\ arrayCodec(q, n, t, bad) = Message(p, "array", "struct_message", t, "repeated", bad)
        /\ arrayCodec(q, n, t, worse) = Message(p, "array", "struct_message", t, "repeated", worse)
    BY <1>7, <2>1 DEF arrayCodec
  <2> HIDE DEF p
  <2> QED
    BY <1>0, <1>7, <2>2, MessageDescribed DEF Fresh
<1>8. CASE n # 0 /\ ~MarshalsItself(t) /\ t.kind = "ptr"
  <2>1. t.kind \notin NumberKinds /\ ~IsDuration(p, t)
    BY <1>8, NumberKindsOnly DEF NumbersOnly, IsDuration, Duration, In, Type
  <2>2. /\ arrayCodec(q, n, t, bad) = PtrElements(p, "array_ptr", Elem(t), bad)
        /\ arrayCodec(q, n, t, worse) = PtrElements(p, "array_ptr", Elem(t), worse)
    BY <1>8, <2>1 DEF arrayCodec
  <2> HIDE DEF p
  <2> QED
    BY <1>0, <2>2, PtrElementsDescribed DEF Fresh
<1>9. CASE n # 0 /\ ~MarshalsItself(t) /\ t.kind \notin NumberKinds \cup {"string", "struct", "ptr"} /\ ~IsDuration(p, t)
  <2>1. t.kind # "uint8"
    BY <1>9 DEF NumberKinds, Unsigned32
  <2>0. ~IsDuration(p, t) /\ n # 0
    BY <1>9
  <2>2. arrayCodec(q, n, t, bad) = Refuse(p, NoEncoder) /\ arrayCodec(q, n, t, worse) = Refuse(p, NoEncoder)
    BY <1>9, <2>0, <2>1 DEF arrayCodec
  <2> HIDE DEF NoEncoder, p
  <2> QED
    BY <1>0, <2>2, RefusedDescribed DEF Fresh
<1> HIDE DEF p
<1> QED
  BY <1>1, <1>2, <1>3, <1>4, <1>5, <1>6, <1>7, <1>8, <1>9

LEMMA OverriddenDescribed ==
  ASSUME NEW p, NEW q, NEW bad, Described(p, q, bad), NEW t, ~MarshalsItself(t)
  PROVE  Described(Overridden(p, t), Overridden(q, t), bad)
<1> DEFINE o(x) == [x EXCEPT !.asProtobuf = IF AsProtobuf3(t).name # "" THEN [label |-> "", of |-> <<Text(AsProtobuf3(t).name)>>] ELSE @,
                             !.stype = IF AsProtobuf3(t).definition THEN {t} ELSE @]
           kept(x) == x.err # None \/ ~isAsProtobuf3er(t)
<1>1. \A x : kept(x) => Overridden(x, t) = x
  BY DEF Overridden
<1>2. \A x : ~kept(x) => Overridden(x, t) = o(x)
  BY DEF Overridden
<1>3. ASSUME NEW x, IsProps(x)
      PROVE  /\ IsProps(o(x)) /\ o(x).skip = x.skip /\ o(x).tag = x.tag /\ o(x).err = x.err /\ o(x).custom = x.custom
             /\ o(x).stype = IF AsProtobuf3(t).definition THEN {t} ELSE x.stype
  BY <1>3 DEF IsProps
<1> HIDE DEF o
<1>4. IsProps(p) /\ IsProps(q) /\ p.skip = q.skip /\ p.tag = q.tag /\ (p.err # None => q.err # None) /\ Leads(p, bad)
  BY DEF Described, Alike
<1>5. Alike(Overridden(p, t), Overridden(q, t))
  BY <1>1, <1>2, <1>3, <1>4 DEF Alike
<1>6. Leads(Overridden(p, t), bad)
  <2>1. CASE kept(p)
    BY <1>1, <1>4, <2>1
  <2>2. CASE ~kept(p)
    <3>1. Overridden(p, t) = o(p) /\ isAsProtobuf3er(t)
      BY <1>2, <2>2
    <3> SUFFICES Leads(o(p), bad)
      BY <3>1
    <3>2. CASE AsProtobuf3(t).definition
      BY <1>3, <1>4, <3>1, <3>2 DEF Leads
    <3>3. CASE ~AsProtobuf3(t).definition
      BY <1>3, <1>4, <3>1, <3>3 DEF Leads
    <3> QED
      BY <3>2, <3>3
  <2> QED
    BY <2>1, <2>2
<1> QED
  BY <1>5, <1>6 DEF Described

LEMMA TagCodeDescribed ==
  ASSUME NEW p, NEW q, NEW bad, Described(p, q, bad)
  PROVE  Described(TagCode(p), TagCode(q), bad)
<1> DEFINE c(x) == EncodeVarint((8 * x.tag + x.wire) % Word32)
<1>1. ASSUME NEW x, IsProps(x)
      PROVE  /\ IsProps(TagCode(x)) /\ TagCode(x).skip = x.skip /\ TagCode(x).tag = x.tag /\ TagCode(x).err = x.err
             /\ TagCode(x).custom = x.custom /\ TagCode(x).stype = x.stype
  <2>1. TagCode(x) = IF x.err # None THEN x ELSE [x EXCEPT !.tagcode = c(x)]
    BY DEF TagCode
  <2> HIDE DEF c
  <2> QED
    BY <1>1, <2>1 DEF IsProps
<1>2. IsProps(p) /\ IsProps(q) /\ p.skip = q.skip /\ p.tag = q.tag /\ (p.err # None => q.err # None) /\ Leads(p, bad)
  BY DEF Described, Alike
<1>3. Alike(TagCode(p), TagCode(q))
  BY <1>1, <1>2 DEF Alike
<1>4. Leads(TagCode(p), bad)
  BY <1>1, <1>2 DEF Leads
<1> QED
  BY <1>3, <1>4 DEF Described

\* m and w: what becomes of p when t is a map
LEMMA CodecDescribed ==
  ASSUME NEW p, Fresh(p), NEW t, NEW bad, NEW worse, bad \subseteq worse, NEW m, NEW w, Described(m, w, bad)
  PROVE  Described(setEncAndDec(p, t, bad, m), setEncAndDec(p, t, worse, w), bad)
<1> DEFINE c(b, x) == CASE t.kind = "ptr"   -> ptrCodec(p, Elem(t), b)
                        [] t.kind = "slice" -> sliceCodec(p, Elem(t), b)
                        [] t.kind = "array" -> arrayCodec(p, t.len, Elem(t), b)
                        [] t.kind = "map"   -> x
                        [] OTHER            -> scalarCodec(p, t, b)
<1>1. CASE MarshalsItself(t)
  <2>1. /\ setEncAndDec(p, t, bad, m) = TagCode(Custom(p, "", t, ""))
        /\ setEncAndDec(p, t, worse, w) = TagCode(Custom(p, "", t, ""))
    BY <1>1 DEF setEncAndDec
  <2>2. Described(Custom(p, "", t, ""), Custom(p, "", t, ""), bad)
    BY <1>1, CustomDescribed DEF Fresh
  <2> QED
    BY <2>1, <2>2, TagCodeDescribed
<1>2. CASE ~MarshalsItself(t)
  <2>1. /\ setEncAndDec(p, t, bad, m) = TagCode(Overridden(c(bad, m), t))
        /\ setEncAndDec(p, t, worse, w) = TagCode(Overridden(c(worse, w), t))
    BY <1>2 DEF setEncAndDec
  <2>2. Described(c(bad, m), c(worse, w), bad)
    <3>1. CASE t.kind = "ptr"
      BY <3>1, PtrDescribed
    <3>2. CASE t.kind = "slice"
      BY <3>2, SliceDescribed
    <3>3. CASE t.kind = "array"
      BY <3>3, ArrayDescribed
    <3>4. CASE t.kind = "map"
      BY <3>4
    <3>5. CASE t.kind \notin {"ptr", "slice", "array", "map"}
      BY <1>2, <3>5, ScalarDescribed
    <3> QED
      BY <3>1, <3>2, <3>3, <3>4, <3>5
  <2> HIDE DEF c
  <2>3. Described(Overridden(c(bad, m), t), Overridden(c(worse, w), t), bad)
    BY <1>2, <2>2, OverriddenDescribed
  <2> QED
    BY <2>1, <2>3, TagCodeDescribed
<1> QED
  BY <1>1, <1>2

LEMMA ParsedFresh ==
  ASSUME NEW tag
  PROVE  Fresh(Parse(tag))
BY Parsed DEF Fresh

LEMMA EntryAlike ==
  ASSUME NEW t, NEW tag, NEW bad, NEW worse, bad \subseteq worse
  PROVE  Alike(EntryField(t, tag, bad), EntryField(t, tag, worse))
<1> DEFINE p == Parse(tag)
           r == Refuse(p, IF p.wire = WireBytes THEN Panics ELSE BadMap)
<1>1. Fresh(p)
  BY ParsedFresh
<1>2. CASE Settled(p)
  <2>1. EntryField(t, tag, bad) = p /\ EntryField(t, tag, worse) = p
    BY <1>2 DEF EntryField
  <2> HIDE DEF p
  <2> QED
    BY <1>1, <2>1 DEF Fresh, Alike
<1>3. CASE ~Settled(p)
  <2>1. EntryField(t, tag, bad) = setEncAndDec(p, t, bad, r) /\ EntryField(t, tag, worse) = setEncAndDec(p, t, worse, r)
    BY <1>3 DEF EntryField
  <2> HIDE DEF p
  <2>2. Described(r, r, bad)
    BY <1>1, RefusedDescribed DEF Fresh
  <2> HIDE DEF r
  <2>3. Described(setEncAndDec(p, t, bad, r), setEncAndDec(p, t, worse, r), bad)
    BY <1>1, <2>2, CodecDescribed
  <2> QED
    BY <2>1, <2>3 DEF Described
<1> QED
  BY <1>2, <1>3

LEMMA MapDescribed ==
  ASSUME NEW p, Fresh(p), NEW t, NEW f, NEW bad, NEW worse, bad \subseteq worse
  PROVE  Described(mapCodec(p, t, f, bad), mapCodec(p, t, f, worse), bad)
<1> DEFINE k(b) == EntryField(Key(t), f.key, b)
           v(b) == EntryField(Elem(t), f.val, b)
           m(b) == [p EXCEPT !.enc = <<"", "new_map">>, !.dec = <<"", "new_map">>,
                             !.asProtobuf = [label |-> "map", of |-> <<k(b).asProtobuf, v(b).asProtobuf>>]]
           ok(b) == /\ p.wire = WireBytes /\ f.key.form # "missing" /\ f.val.form # "missing"
                    /\ Usable(k(b), 1) /\ Usable(v(b), 2)
<1>1. Alike(k(bad), k(worse)) /\ Alike(v(bad), v(worse))
  BY EntryAlike
<1>2. \A b : ok(b) => mapCodec(p, t, f, b) = m(b)
  BY DEF mapCodec
<1>3. \A b : ~ok(b) => mapCodec(p, t, f, b) = Refuse(p, BadMap) \/ mapCodec(p, t, f, b) = Refuse(p, Panics)
  BY DEF mapCodec
<1> HIDE DEF k, v
<1>4. ok(worse) => ok(bad)
  BY <1>1 DEF Usable, Alike
<1> HIDE DEF ok
<1>5. ASSUME NEW b PROVE IsProps(m(b)) /\ m(b).stype = {} /\ m(b).tag = p.tag /\ m(b).skip = p.skip /\ m(b).err = p.err
  <2> DEFINE text == [label |-> "map", of |-> <<k(b).asProtobuf, v(b).asProtobuf>>]
  <2> HIDE DEF text
  <2>1. m(b) = [p EXCEPT !.enc = <<"", "new_map">>, !.dec = <<"", "new_map">>, !.asProtobuf = text]
    BY DEF text
  <2> QED
    BY <2>1 DEF Fresh, IsProps
<1> HIDE DEF m
<1>6. ASSUME NEW e PROVE IsProps(Refuse(p, e)) /\ Refuse(p, e).stype = {} /\ Refuse(p, e).tag = p.tag /\ Refuse(p, e).skip = p.skip /\ Refuse(p, e).err = e
  BY RefuseFacts DEF Fresh
<1>7. ASSUME NEW b
      PROVE  LET r == mapCodec(p, t, f, b)
             IN  IsProps(r) /\ r.stype = {} /\ r.tag = p.tag /\ r.skip = p.skip /\ (~ok(b) => r.err # None) /\ (ok(b) => r.err = p.err)
  <2>1. BadMap # None /\ Panics # None
    OBVIOUS
  <2> HIDE DEF BadMap, Panics, None
  <2>2. CASE ok(b)
    BY <1>2, <1>5, <2>2
  <2>3. CASE ~ok(b) /\ mapCodec(p, t, f, b) = Refuse(p, BadMap)
    BY <1>6, <2>1, <2>3
  <2>4. CASE ~ok(b) /\ mapCodec(p, t, f, b) = Refuse(p, Panics)
    BY <1>6, <2>1, <2>4
  <2> QED
    BY <1>3, <2>2, <2>3, <2>4
<1>8. Leads(mapCodec(p, t, f, bad), bad)
  BY <1>7 DEF Leads
<1>9. Alike(mapCodec(p, t, f, bad), mapCodec(p, t, f, worse))
  BY <1>4, <1>7 DEF Alike
<1> QED
  BY <1>8, <1>9 DEF Described

\* With more structs in error a field has an error if it had one, and the same key.
LEMMA FieldDescribed ==
  ASSUME NEW f, NEW bad, NEW worse, bad \subseteq worse
  PROVE  Described(init(f, bad), init(f, worse), bad)
<1> DEFINE p == Parse(f.tag)
           n == [NoProperties EXCEPT !.skip = TRUE, !.err = IF XXXHack /\ f.xxx THEN None ELSE NoTag]
<1>1. CASE f.tag.form = "missing"
  <2>1. init(f, bad) = n /\ init(f, worse) = n
    BY <1>1 DEF init
  <2> DEFINE e == IF XXXHack /\ f.xxx THEN None ELSE NoTag
  <2> HIDE DEF e
  <2>2. n = [NoProperties EXCEPT !.skip = TRUE, !.err = e]
    BY DEF e
  <2>3. IsProps(n) /\ n.stype = {}
    BY <2>2 DEF IsProps, NoProperties
  <2> HIDE DEF n
  <2>4. Described(n, n, bad)
    BY <2>3, SameDescribed DEF Leads
  <2> QED
    BY <2>1, <2>4
<1>2. Fresh(p)
  BY ParsedFresh
<1>3. CASE f.tag.form # "missing" /\ Settled(p)
  <2>1. init(f, bad) = p /\ init(f, worse) = p
    BY <1>3 DEF init
  <2> HIDE DEF p
  <2>2. Described(p, p, bad)
    BY <1>2, SameDescribed DEF Fresh, Leads
  <2> QED
    BY <2>1, <2>2
<1>4. CASE f.tag.form # "missing" /\ ~Settled(p)
  <2>1. /\ init(f, bad) = setEncAndDec(p, f.type, bad, mapCodec(p, f.type, f, bad))
        /\ init(f, worse) = setEncAndDec(p, f.type, worse, mapCodec(p, f.type, f, worse))
    BY <1>4 DEF init
  <2> HIDE DEF p
  <2> QED
    BY <1>2, <2>1, MapDescribed, CodecDescribed
<1> QED
  BY <1>1, <1>3, <1>4

-----------------------------------------------------------------------------
(* the structs in error, and the types that a call reaches *)

LEMMA RefusedMore ==
  ASSUME NEW t, NEW bad, NEW worse, bad \subseteq worse, RefusedWhen(bad, t)
  PROVE  RefusedWhen(worse, t)
<1> DEFINE B(k) == init(StructFields[t][k], bad)
           W(k) == init(StructFields[t][k], worse)
           D == DOMAIN StructFields[t]
<1>1. \A k : B(k).skip = W(k).skip /\ B(k).tag = W(k).tag /\ (B(k).err # None => W(k).err # None)
  BY FieldDescribed DEF Described, Alike
<1>2. \A k \in D : FieldsOf(t, bad)[k] = B(k) /\ FieldsOf(t, worse)[k] = W(k)
  BY DEF FieldsOf
<1>3. DOMAIN FieldsOf(t, bad) = D /\ DOMAIN FieldsOf(t, worse) = D
  BY DEF FieldsOf
<1> HIDE DEF B, W, D
<1> QED
  BY <1>1, <1>2, <1>3 DEF RefusedWhen

\* The structs in error are those that are refused with them.
LEMMA BrokenFixed ==
  Broken \subseteq Structs /\ \A t \in Structs : RefusedWhen(Broken, t) => t \in Broken
<1> DEFINE F == [bad \in SUBSET Structs |-> {t \in Structs : RefusedWhen(bad, t)}]
           Def(g) == g = [n \in Nat |-> IF n = 0 THEN {} ELSE {t \in Structs : RefusedWhen(g[n - 1], t)}]
           G == CHOOSE g : Def(g)
<1>1. Broken = G[Cardinality(Structs) + 1]
  BY DEF Broken, Closure
<1>2. Grows(F, Structs)
  <2>1. \A A, B \in SUBSET Structs : A \subseteq B => F[A] \subseteq F[B]
    BY RefusedMore
  <2> QED
    BY <2>1 DEF Grows
<1>3. \A g : (\A n \in Nat : g[n] \in SUBSET Structs) => (Def(g) <=> Rounds(F, g))
  <2> SUFFICES ASSUME NEW g, \A n \in Nat : g[n] \in SUBSET Structs PROVE Def(g) <=> Rounds(F, g)
    OBVIOUS
  <2> DEFINE a(n) == IF n = 0 THEN {} ELSE {t \in Structs : RefusedWhen(g[n - 1], t)}
             b(n) == IF n = 0 THEN {} ELSE F[g[n - 1]]
  <2>1. \A n \in Nat : a(n) = b(n)
    OBVIOUS
  <2> HIDE DEF a, b
  <2>2. [n \in Nat |-> a(n)] = [n \in Nat |-> b(n)]
    BY <2>1
  <2> QED
    BY <2>2 DEF Rounds, a, b
<1>4. ASSUME NEW g, Def(g) PROVE \A n \in Nat : g[n] \in SUBSET Structs
  <2>1. \A n \in Nat : g[n] = IF n = 0 THEN {} ELSE {t \in Structs : RefusedWhen(g[n - 1], t)}
    BY <1>4
  <2> QED
    BY <2>1
<1>5. ASSUME NEW g, Rounds(F, g) PROVE \A n \in Nat : g[n] \in SUBSET Structs
  BY <1>2, <1>5, RoundsInside
<1> HIDE DEF F
<1>6. Def(G)
  <2>1. PICK g : Rounds(F, g)
    BY RoundsExist
  <2>2. Def(g)
    BY <1>3, <1>5, <2>1
  <2> QED
    BY <2>2
<1> HIDE DEF G
<1>7. Rounds(F, G)
  BY <1>3, <1>4, <1>6
<1>8. Broken \in SUBSET Structs /\ F[Broken] = Broken
  BY <1>1, <1>2, <1>7, LeastFixpoint, StructsAssumption
<1> QED
  BY <1>8 DEF F

\* The types that the fields of a struct lead to: some need no look at their fields, as both the code
\* and Dependencies have it, and others are structs that are not in error.
LEMMA FieldTypes ==
  ASSUME NEW t \in Structs, t \notin Broken, NEW p \in Props[t], NEW s \in p.stype
  PROVE  /\ ~IsEndpoint(p, s) => s.kind = "struct" /\ s \in Structs /\ ~SpeaksForItself(s) /\ s \notin Broken
         /\ IsEndpoint(p, s) => SpeaksForItself(s)
         /\ s \in Broken => MarshalsItself(s) \/ (isAsProtobuf3er(s) /\ AsProtobuf3(s).definition)
<1>1. PICK k \in DOMAIN StructFields[t] : p = init(StructFields[t][k], Broken)
  BY DEF Props, FieldsOf
<1>2. FieldsOf(t, Broken)[k] = p /\ k \in DOMAIN FieldsOf(t, Broken)
  BY <1>1 DEF FieldsOf
<1>3. p.err = None
  BY <1>2, BrokenFixed DEF RefusedWhen
<1>4. Leads(p, Broken)
  BY <1>1, FieldDescribed DEF Described
<1>5. s.kind = "struct" => s \in Structs
  BY StructsAssumption
<1>6. s \in Structs => s.kind = "struct" /\ s.marshals \in {"no", "Appender", "Marshaler"}
  BY StructsAssumption
<1>7. Duration.kind = "int64"
  BY DEF Duration, In, Type
<1>8. s \in Broken => s \in Structs
  BY BrokenFixed
<1>9. /\ s.kind = "struct" \/ p.custom # "no" \/ isAsProtobuf3er(s) \/ s = Duration
      /\ p.custom # "no" =>
           MarshalsItself(s) \/ isAsProtobuf3er(s) \/ s.kind # "struct" \/ s.marshals \notin {"no", "Appender", "Marshaler"}
      /\ MarshalsItself(s) => p.custom # "no" \/ isAsProtobuf3er(s)
      /\ s \notin Broken \/ MarshalsItself(s) \/ s.kind # "struct" \/ (isAsProtobuf3er(s) /\ AsProtobuf3(s).definition)
  BY <1>3, <1>4 DEF Leads
<1>10. ASSUME ~IsEndpoint(p, s) PROVE s.kind = "struct" /\ s \in Structs /\ ~SpeaksForItself(s) /\ s \notin Broken
  BY <1>5, <1>9, <1>10 DEF IsEndpoint, SpeaksForItself
<1>11. ASSUME IsEndpoint(p, s) PROVE SpeaksForItself(s)
  BY <1>5, <1>6, <1>7, <1>9, <1>11 DEF IsEndpoint, SpeaksForItself
<1>12. ASSUME s \in Broken PROVE MarshalsItself(s) \/ (isAsProtobuf3er(s) /\ AsProtobuf3(s).definition)
  BY <1>6, <1>8, <1>9, <1>12
<1> QED
  BY <1>10, <1>11, <1>12

\* A struct in error that is reached from others has a declaration that does not show it.
LEMMA HiddenErrors ==
  ASSUME NEW t, MarshalsItself(t) \/ (isAsProtobuf3er(t) /\ AsProtobuf3(t).definition)
  PROVE  Declaration(t).line # "error"
<1>1. ~MarshalsItself(Time) /\ ~isAsProtobuf3er(Time) /\ ~MarshalsItself(Duration) /\ ~isAsProtobuf3er(Duration)
  BY DEF MarshalsItself, isAppender, isMarshaler, isAsProtobuf3er, Time, Duration, In, Type
<1>2. t # Time /\ t # Duration
  BY <1>1
<1>3. CASE MarshalsItself(t) /\ ~isAsProtobuf3er(t)
  BY <1>2, <1>3 DEF Declaration, Nothing
<1>4. CASE MarshalsItself(t) /\ isAsProtobuf3er(t)
  BY <1>2, <1>4 DEF Declaration, Nothing
<1>5. CASE ~MarshalsItself(t) /\ isAsProtobuf3er(t) /\ AsProtobuf3(t).definition
  BY <1>2, <1>5 DEF Declaration, Nothing
<1> QED
  BY <1>3, <1>4, <1>5

\* only a struct in error is declared as an error
LEMMA ErrorsBroken ==
  ASSUME NEW t, Declaration(t).line = "error"
  PROVE  t \in Broken
<1>1. AsProtobuf(t) = "error" => t \in Broken
  BY DEF AsProtobuf
<1>2. ~MarshalsItself(Time) /\ ~isAsProtobuf3er(Time) /\ ~MarshalsItself(Duration) /\ ~isAsProtobuf3er(Duration) /\ Time # Duration
  BY DEF MarshalsItself, isAppender, isMarshaler, isAsProtobuf3er, Time, Duration, In, Type
<1>3. CASE t = Time
  BY <1>2, <1>3 DEF Declaration, Nothing
<1>4. CASE t = Duration
  BY <1>2, <1>4 DEF Declaration, Nothing
<1>5. CASE t # Time /\ t # Duration /\ MarshalsItself(t)
  BY <1>5, HiddenErrors
<1>6. CASE t # Time /\ t # Duration /\ ~MarshalsItself(t) /\ isAsProtobuf3er(t)
  BY <1>1, <1>6 DEF Declaration, Nothing
<1>7. CASE t # Time /\ t # Duration /\ ~MarshalsItself(t) /\ ~isAsProtobuf3er(t)
  BY <1>1, <1>7 DEF Declaration, Nothing
<1> QED
  BY <1>3, <1>4, <1>5, <1>6, <1>7

\* The types whose fields are looked at are the least set with the arguments and what they lead to.
WalkedIs(c, W) ==
  /\ W \subseteq Structs
  /\ Arguments(c) \subseteq W
  /\ \A t \in W : \A s \in Dependents(t) : ~SpeaksForItself(s) => s \in W
  /\ \A s \in W : s \in Arguments(c) \/ (~SpeaksForItself(s) /\ s \notin Broken)
  /\ \A A \in SUBSET Structs :
       Arguments(c) \subseteq A /\ (\A t \in A : \A s \in Dependents(t) : ~SpeaksForItself(s) => s \in A) => W \subseteq A

LEMMA DependentsFacts ==
  ASSUME NEW t \in Structs, NEW s \in Dependents(t)
  PROVE  t \notin Broken /\ \E p \in Props[t] : s \in p.stype
BY DEF Dependents

LEMMA WalkedFacts ==
  ASSUME NEW c, Arguments(c) \subseteq Structs
  PROVE  WalkedIs(c, Walked(c))
<1> DEFINE Step(S) == Arguments(c) \cup {t \in UNION {Dependents(s) : s \in S} : ~SpeaksForItself(t)}
           F == [S \in SUBSET Structs |-> Step(S)]
           Def(g) == g = [n \in Nat |-> IF n = 0 THEN {} ELSE Step(g[n - 1])]
           G == CHOOSE g : Def(g)
<1>1. Walked(c) = G[Cardinality(Structs) + 1]
  BY DEF Walked, Closure
<1>2. ASSUME NEW S \in SUBSET Structs, NEW s \in S, NEW t \in Dependents(s), ~SpeaksForItself(t)
      PROVE  t \in Structs /\ t \notin Broken
  <2>1. s \in Structs
    OBVIOUS
  <2>2. s \notin Broken /\ \E p \in Props[s] : t \in p.stype
    BY <2>1, DependentsFacts
  <2> QED
    BY <1>2, <2>1, <2>2, FieldTypes
<1>3. \A S \in SUBSET Structs : Step(S) \in SUBSET Structs
  BY <1>2
<1>4. Grows(F, Structs)
  <2>1. \A A, B \in SUBSET Structs : A \subseteq B => F[A] \subseteq F[B]
    OBVIOUS
  <2>2. F \in [SUBSET Structs -> SUBSET Structs]
    BY <1>3
  <2> HIDE DEF F
  <2> QED
    BY <2>1, <2>2 DEF Grows
<1>5. \A g : (\A n \in Nat : g[n] \in SUBSET Structs) => (Def(g) <=> Rounds(F, g))
  <2> SUFFICES ASSUME NEW g, \A n \in Nat : g[n] \in SUBSET Structs PROVE Def(g) <=> Rounds(F, g)
    OBVIOUS
  <2> DEFINE a(n) == IF n = 0 THEN {} ELSE Step(g[n - 1])
             b(n) == IF n = 0 THEN {} ELSE F[g[n - 1]]
  <2> HIDE DEF Step
  <2>1. \A n \in Nat : a(n) = b(n)
    OBVIOUS
  <2> HIDE DEF a, b
  <2>2. [n \in Nat |-> a(n)] = [n \in Nat |-> b(n)]
    BY <2>1
  <2> QED
    BY <2>2 DEF Rounds, a, b
<1>6. ASSUME NEW g, Def(g) PROVE \A n \in Nat : g[n] \in SUBSET Structs
  <2> DEFINE S == {n \in Nat : g[n] \in SUBSET Structs}
  <2> HIDE DEF Step
  <2>1. \A n \in Nat : g[n] = IF n = 0 THEN {} ELSE Step(g[n - 1])
    BY <1>6
  <2>2. 0 \in S
    BY <2>1
  <2>3. ASSUME NEW n \in Nat, n \in S PROVE n + 1 \in S
    <3>1. n + 1 \in Nat /\ n + 1 # 0 /\ (n + 1) - 1 = n
      OBVIOUS
    <3>2. g[n + 1] = Step(g[n])
      BY <2>1, <3>1
    <3> QED
      BY <1>3, <2>3, <3>2
  <2> HIDE DEF S
  <2>4. Nat \subseteq S
    BY <2>2, <2>3, SetInduction
  <2> QED
    BY <2>4 DEF S
<1>7. ASSUME NEW g, Rounds(F, g) PROVE \A n \in Nat : g[n] \in SUBSET Structs
  BY <1>4, <1>7, RoundsInside
<1> HIDE DEF F
<1>8. Def(G)
  <2>1. PICK g : Rounds(F, g)
    BY RoundsExist
  <2>2. Def(g)
    BY <1>5, <1>7, <2>1
  <2> QED
    BY <2>2
<1> HIDE DEF G
<1>9. Rounds(F, G)
  BY <1>5, <1>6, <1>8
<1> DEFINE W == Walked(c)
<1>10. W \in SUBSET Structs /\ F[W] = W /\ \A A \in SUBSET Structs : F[A] \subseteq A => W \subseteq A
  BY <1>1, <1>4, <1>9, LeastFixpoint, StructsAssumption
<1> HIDE DEF W
<1>11. W = Step(W)
  BY <1>10 DEF F
<1>12. \A A \in SUBSET Structs : Step(A) \subseteq A => W \subseteq A
  BY <1>10 DEF F
<1>13. WalkedIs(c, W)
  <2>1. W \subseteq Structs /\ Arguments(c) \subseteq W
    BY <1>10, <1>11
  <2>2. \A t \in W : \A s \in Dependents(t) : ~SpeaksForItself(s) => s \in W
    BY <1>11
  <2>3. \A s \in W : s \in Arguments(c) \/ (~SpeaksForItself(s) /\ s \notin Broken)
    BY <1>2, <1>10, <1>11
  <2>4. ASSUME NEW A \in SUBSET Structs, Arguments(c) \subseteq A,
               \A t \in A : \A s \in Dependents(t) : ~SpeaksForItself(s) => s \in A
        PROVE  W \subseteq A
    BY <1>12, <2>4
  <2> QED
    BY <2>1, <2>2, <2>3, <2>4 DEF WalkedIs
<1> QED
  BY <1>13 DEF W

-----------------------------------------------------------------------------
(* lists of types and of what a file says of them *)

\* s has each of S once
Once(s, S) ==
  /\ s \in Seq(TypesSeen)
  /\ {s[k] : k \in DOMAIN s} = S
  /\ \A j, k \in DOMAIN s : s[j] = s[k] => j = k

Entries == [line : {"message", "definition", "error"}, type : TypesSeen]

LEMMA SameCardinality ==
  ASSUME NEW S
  PROVE  File!Cardinality(S) = Cardinality(S)
BY DEF File!Cardinality, Cardinality

LEMMA OnceLists ==
  ASSUME NEW s, NEW S, Once(s, S)
  PROVE  File!Lists(s, S)
<1>1. Len(s) \in Nat /\ DOMAIN s = 1..Len(s)
  BY DEF Once
<1> DEFINE f == [k \in 1..Len(s) |-> s[k]]
<1>2. f \in Bijection(1..Len(s), S)
  <2>1. f \in [1..Len(s) -> S] /\ \A x \in S : \E k \in 1..Len(s) : f[k] = x
    BY <1>1 DEF Once
  <2>2. \A j, k \in 1..Len(s) : f[j] = f[k] => j = k
    BY <1>1 DEF Once
  <2> HIDE DEF f
  <2>3. f \in Surjection(1..Len(s), S)
    BY <2>1 DEF Surjection
  <2>4. f \in Injection(1..Len(s), S)
    BY <2>1, <2>2 DEF Injection, IsInjective
  <2> QED
    BY <2>3, <2>4 DEF Bijection
<1> HIDE DEF f
<1>3. IsFiniteSet(1..Len(s)) /\ Cardinality(1..Len(s)) = Len(s)
  <2>1. 1 \in Int /\ Len(s) \in Int
    BY <1>1
  <2>2. Cardinality(1..Len(s)) = IF 1 > Len(s) THEN 0 ELSE Len(s) - 1 + 1
    BY <2>1, FS_Interval
  <2>3. Cardinality(1..Len(s)) = Len(s)
    BY <1>1, <2>2
  <2> QED
    BY <2>1, <2>3, FS_Interval
<1>4. ExistsBijection(1..Len(s), S)
  BY <1>2 DEF ExistsBijection
<1>5. Cardinality(S) = Len(s)
  BY <1>3, <1>4, FS_Bijection
<1>6. {s[k] : k \in DOMAIN s} = S
  BY DEF Once
<1> QED
  BY <1>5, <1>6, SameCardinality DEF File!Lists

LEMMA OnceAppend ==
  ASSUME NEW s, NEW S, Once(s, S), NEW x \in TypesSeen, x \notin S
  PROVE  Once(Append(s, x), S \cup {x})
<1> DEFINE a == Append(s, x)
<1>1. s \in Seq(TypesSeen) /\ Len(s) \in Nat /\ DOMAIN s = 1..Len(s)
  BY DEF Once
<1>2. /\ a \in Seq(TypesSeen) /\ DOMAIN a = 1..(Len(s) + 1) /\ a[Len(s) + 1] = x
      /\ \A k \in 1..Len(s) : a[k] = s[k]
  BY <1>1
<1> HIDE DEF a
<1>3. {a[k] : k \in DOMAIN a} = S \cup {x}
  <2>1. \A k \in DOMAIN a : a[k] \in S \cup {x}
    <3> SUFFICES ASSUME NEW k \in DOMAIN a PROVE a[k] \in S \cup {x}
      OBVIOUS
    <3>1. k \in 1..Len(s) \/ k = Len(s) + 1
      BY <1>1, <1>2
    <3> QED
      BY <1>1, <1>2, <3>1 DEF Once
  <2>2. \A y \in S : \E k \in DOMAIN a : a[k] = y
    <3> SUFFICES ASSUME NEW y \in S PROVE \E k \in DOMAIN a : a[k] = y
      OBVIOUS
    <3>1. PICK k \in DOMAIN s : s[k] = y
      BY DEF Once
    <3>2. k \in 1..Len(s) /\ k \in DOMAIN a
      BY <1>1, <1>2
    <3> QED
      BY <1>2, <3>1, <3>2
  <2>3. Len(s) + 1 \in DOMAIN a
    BY <1>1, <1>2
  <2> QED
    BY <1>2, <2>1, <2>2, <2>3
<1>4. ASSUME NEW j \in DOMAIN a, NEW k \in DOMAIN a, a[j] = a[k] PROVE j = k
  <2>1. (j \in 1..Len(s) \/ j = Len(s) + 1) /\ (k \in 1..Len(s) \/ k = Len(s) + 1)
    BY <1>1, <1>2
  <2>2. \A m \in 1..Len(s) : a[m] = s[m] /\ s[m] \in S
    BY <1>1, <1>2 DEF Once
  <2>3. \A m \in 1..Len(s) : a[m] # x
    BY <2>2
  <2> QED
    BY <1>1, <1>2, <1>4, <2>1, <2>2, <2>3 DEF Once
<1>5. Once(a, S \cup {x})
  BY <1>2, <1>3, <1>4 DEF Once
<1> QED
  BY <1>5 DEF a

LEMMA OrderAppend ==
  ASSUME NEW s, NEW S, Once(s, S), File!InOrder(s), NEW x, \A t \in S : Rank(t.name) <= Rank(x.name)
  PROVE  File!InOrder(Append(s, x))
<1> DEFINE a == Append(s, x)
<1>1. s \in Seq(TypesSeen) /\ Len(s) \in Nat /\ DOMAIN s = 1..Len(s)
  BY DEF Once
<1>2. DOMAIN a = 1..(Len(s) + 1) /\ a[Len(s) + 1] = x /\ \A k \in 1..Len(s) : a[k] = s[k]
  BY <1>1
<1> HIDE DEF a
<1>3. ASSUME NEW j \in DOMAIN a, NEW k \in DOMAIN a, j < k PROVE Rank(a[j].name) <= Rank(a[k].name)
  <2>1. j \in 1..Len(s) /\ (k \in 1..Len(s) \/ k = Len(s) + 1)
    BY <1>1, <1>2, <1>3
  <2>2. s[j] \in S
    BY <1>1, <2>1 DEF Once
  <2> QED
    BY <1>1, <1>2, <1>3, <2>1, <2>2 DEF File!InOrder
<1>4. File!InOrder(a)
  BY <1>3 DEF File!InOrder
<1> QED
  BY <1>4 DEF a

LEMMA TypesAppend ==
  ASSUME NEW b \in Seq(Entries), NEW e \in Entries
  PROVE  File!TypesOf(Append(b, e)) = Append(File!TypesOf(b), e.type)
<1> DEFINE a == Append(b, e)
           s == File!TypesOf(b)
           f == File!TypesOf(a)
           g == Append(s, e.type)
<1>1. DOMAIN b = 1..Len(b) /\ Len(b) \in Nat
  OBVIOUS
<1>2. DOMAIN a = 1..(Len(b) + 1) /\ a[Len(b) + 1] = e /\ \A k \in 1..Len(b) : a[k] = b[k]
  BY <1>1
<1>3. s = [k \in 1..Len(b) |-> b[k].type]
  BY <1>1 DEF File!TypesOf
<1>4. s \in Seq(TypesSeen) /\ Len(s) = Len(b)
  <2>0. \A k \in 1..Len(b) : b[k] \in Entries
    OBVIOUS
  <2>1. \A k \in 1..Len(b) : b[k].type \in TypesSeen
    BY <2>0 DEF Entries
  <2> QED
    BY <1>1, <1>3, <2>1
<1>5. e.type \in TypesSeen
  BY DEF Entries
<1>6. g \in Seq(TypesSeen) /\ Len(g) = Len(b) + 1 /\ g[Len(b) + 1] = e.type /\ \A k \in 1..Len(b) : g[k] = s[k]
  BY <1>1, <1>4, <1>5
<1>7. f = [k \in 1..(Len(b) + 1) |-> a[k].type]
  BY <1>2 DEF File!TypesOf
<1>8. \A k \in 1..Len(b) : s[k] = b[k].type
  BY <1>3
<1> HIDE DEF a, s, f, g
<1>9. ASSUME NEW k \in 1..(Len(b) + 1) PROVE f[k] = g[k]
  <2>1. k \in 1..Len(b) \/ k = Len(b) + 1
    BY <1>1
  <2> QED
    BY <1>2, <1>6, <1>7, <1>8, <2>1
<1>10. DOMAIN g = 1..(Len(b) + 1)
  BY <1>6
<1>11. g = [k \in 1..(Len(b) + 1) |-> g[k]]
  BY <1>6, <1>10
<1>12. f = g
  BY <1>7, <1>9, <1>11
<1> QED
  BY <1>12 DEF f, g, a, s

\* what is appended comes after the first n
LEMMA PartsAppend ==
  ASSUME NEW b \in Seq(Entries), NEW e \in Entries, NEW n \in Nat, n <= Len(b)
  PROVE  /\ SubSeq(b, 1, n) \in Seq(Entries) /\ SubSeq(b, n + 1, Len(b)) \in Seq(Entries)
         /\ SubSeq(Append(b, e), 1, n) = SubSeq(b, 1, n)
         /\ SubSeq(Append(b, e), n + 1, Len(Append(b, e))) = Append(SubSeq(b, n + 1, Len(b)), e)
<1>1. Len(b) \in Nat /\ \A k \in 1..Len(b) : b[k] \in Entries
  OBVIOUS
<1> DEFINE a == Append(b, e)
           l == SubSeq(b, n + 1, Len(b))
           m == SubSeq(a, n + 1, Len(b) + 1)
           g == Append(l, e)
<1>2. a \in Seq(Entries) /\ Len(a) = Len(b) + 1 /\ a[Len(b) + 1] = e /\ \A k \in 1..Len(b) : a[k] = b[k]
  BY <1>1
<1>3. SubSeq(b, 1, n) = [k \in 1..n |-> b[k]] /\ SubSeq(b, 1, n) \in Seq(Entries)
  <2>1. SubSeq(b, 1, n) = [k \in 1..((1 + n) - 1) |-> b[(k + 1) - 1]]
    OBVIOUS
  <2>2. (1 + n) - 1 = n /\ \A k \in 1..n : (k + 1) - 1 = k /\ b[k] \in Entries
    BY <1>1
  <2> QED
    BY <2>1, <2>2
<1>4. SubSeq(a, 1, n) = [k \in 1..n |-> b[k]]
  <2>1. SubSeq(a, 1, n) = [k \in 1..((1 + n) - 1) |-> a[(k + 1) - 1]]
    OBVIOUS
  <2>2. (1 + n) - 1 = n /\ \A k \in 1..n : (k + 1) - 1 = k /\ a[k] = b[k]
    BY <1>1, <1>2
  <2> HIDE DEF a
  <2> QED
    BY <2>1, <2>2
<1>5. /\ l \in Seq(Entries) /\ Len(l) = Len(b) - n
      /\ \A k \in 1..(Len(b) - n) : l[k] = b[k + n]
  <2>1. l = [k \in 1..(Len(b) - n) |-> b[k + n]]
    <3>1. l = [k \in 1..((1 + Len(b)) - (n + 1)) |-> b[(k + (n + 1)) - 1]]
      OBVIOUS
    <3>2. (1 + Len(b)) - (n + 1) = Len(b) - n /\ \A k \in 1..(Len(b) - n) : (k + (n + 1)) - 1 = k + n
      BY <1>1
    <3> QED
      BY <3>1, <3>2
  <2>2. \A k \in 1..(Len(b) - n) : b[k + n] \in Entries
    BY <1>1
  <2>3. Len(b) - n \in Nat
    BY <1>1
  <2> HIDE DEF l
  <2> QED
    BY <2>1, <2>2, <2>3
<1>6. m = [k \in 1..(Len(b) + 1 - n) |-> a[k + n]]
  <2>1. m = [k \in 1..((1 + (Len(b) + 1)) - (n + 1)) |-> a[(k + (n + 1)) - 1]]
    <3> HIDE DEF a
    <3>1. n + 1 \in Int /\ Len(b) + 1 \in Int /\ a \in Seq(Entries)
      BY <1>1, <1>2
    <3> QED
      BY <3>1
  <2>2. (1 + (Len(b) + 1)) - (n + 1) = Len(b) + 1 - n /\ \A k \in 1..(Len(b) + 1 - n) : (k + (n + 1)) - 1 = k + n
    BY <1>1
  <2> HIDE DEF a
  <2> QED
    BY <2>1, <2>2
<1> HIDE DEF a, l, m
<1>7. /\ g \in Seq(Entries) /\ Len(g) = Len(b) - n + 1 /\ g[Len(b) - n + 1] = e
      /\ \A k \in 1..(Len(b) - n) : g[k] = l[k]
  BY <1>1, <1>5
<1> HIDE DEF g
<1>8. ASSUME NEW k \in 1..(Len(b) + 1 - n) PROVE a[k + n] = g[k]
  <2>1. CASE k \in 1..(Len(b) - n)
    <3>1. k + n \in 1..Len(b)
      BY <1>1, <2>1
    <3> QED
      BY <1>2, <1>5, <1>7, <2>1, <3>1
  <2>2. CASE k = Len(b) - n + 1
    <3>1. k + n = Len(b) + 1
      BY <1>1, <2>2
    <3> QED
      BY <1>2, <1>7, <2>2, <3>1
  <2> QED
    BY <1>1, <2>1, <2>2
<1>9. Len(b) + 1 - n = Len(b) - n + 1
  BY <1>1
<1>10. g = [k \in 1..(Len(b) + 1 - n) |-> g[k]]
  BY <1>7, <1>9
<1>11. m = g
  BY <1>6, <1>8, <1>10
<1>12. Len(a) = Len(b) + 1
  BY <1>2
<1> QED
  BY <1>3, <1>4, <1>5, <1>11, <1>12 DEF a, l, m, g

-----------------------------------------------------------------------------
(* the inductive invariant *)

\* the arguments in error
Faulty(c) == Arguments(c) \cap Broken

\* The search has looked at the fields of what is discovered and no longer to do.
Search(c) ==
  /\ todo \subseteq Walked(c)
  /\ discovered \subseteq Reached(c)
  /\ Arguments(c) \subseteq todo \cup discovered
  /\ \A t \in (discovered \cap Walked(c)) \ todo : Dependents(t) \subseteq discovered \cup todo

\* It writes the errors of the arguments that it has looked at, in any order, and nothing else.
Found(c) ==
  /\ Once(File!TypesOf(body), Faulty(c) \ todo)
  /\ \A k \in DOMAIN body : body[k].line = "error"
  /\ first_err = IF body = <<>> THEN {} ELSE {body[1].type}
  /\ ordered = {} /\ headers = <<>> /\ imported = {}

Done(c)  == Named(c) \ ordered
Shown(c) == {t \in Done(c) : Declaration(t).line # "none"}
ToDo(c)  == {t \in Done(c) : Declaration(t).todo}

\* What is left to declare does not come before what has been declared.
Declaring(c) ==
  /\ discovered = Reached(c) /\ todo = {} /\ ordered \subseteq Named(c)
  /\ \A t \in Done(c) : Declaration(t).line # "panic"
  /\ \A t \in Done(c), s \in ordered : Rank(t.name) <= Rank(s.name)

ErrorsOf(b, c) == SubSeq(b, 1, Cardinality(Faulty(c)))
LinesOf(b, c)  == SubSeq(b, Cardinality(Faulty(c)) + 1, Len(b))

ErrorsFirst(c) ==
  /\ Len(body) >= Cardinality(Faulty(c))
  /\ Once(File!TypesOf(ErrorsOf(body, c)), Faulty(c))
  /\ \A k \in DOMAIN ErrorsOf(body, c) : ErrorsOf(body, c)[k].line = "error"
  /\ first_err = IF Faulty(c) = {} THEN {} ELSE {body[1].type}

IsDeclared(e) == e.line = Declaration(e.type).line

LinesNext(c) ==
  /\ Once(File!TypesOf(LinesOf(body, c)), Shown(c))
  /\ File!InOrder(File!TypesOf(LinesOf(body, c)))
  /\ \A k \in DOMAIN LinesOf(body, c) : IsDeclared(LinesOf(body, c)[k])

Header(c) ==
  /\ Once(headers, ToDo(c)) /\ File!InOrder(headers)
  /\ imported = UNION {Declaration(t).imports : t \in Done(c)}

\* The file has what has been declared.
Written(c) == ErrorsFirst(c) /\ LinesNext(c) /\ Header(c)

Idle ==
  /\ call = NoCall /\ todo = {} /\ discovered = {} /\ ordered = {}
  /\ headers = <<>> /\ imported = {} /\ body = <<>> /\ first_err = {}

AfterSearch == {"declare", "returned", "panicked"}

IInv ==
  /\ phase \in {"idle", "discover"} \cup AfterSearch
  /\ body \in Seq(Entries)
  /\ phase = "idle" => Idle
  /\ phase # "idle" => call \in Calls
  /\ phase = "discover" => Search(call) /\ Found(call)
  /\ phase \in AfterSearch => Declaring(call) /\ Written(call)

-----------------------------------------------------------------------------
(* what the steps do, and that they keep the invariant *)

LEMMA Declarations ==
  ASSUME NEW t
  PROVE  /\ Declaration(t).line \in {"none", "error", "panic", "message", "definition"}
         /\ Declaration(t).todo => MarshalsItself(t)
<1>1. AsProtobuf(t) \in {"error", "panic", "message"}
  BY DEF AsProtobuf
<1>0. ~MarshalsItself(Time) /\ ~isAsProtobuf3er(Time) /\ ~MarshalsItself(Duration) /\ ~isAsProtobuf3er(Duration) /\ Time # Duration
  BY DEF MarshalsItself, isAppender, isMarshaler, isAsProtobuf3er, Time, Duration, In, Type
<1>2. CASE t = Time
  BY <1>0, <1>2 DEF Declaration, Nothing
<1>3. CASE t = Duration
  BY <1>0, <1>3 DEF Declaration, Nothing
<1>4. CASE t # Time /\ t # Duration /\ MarshalsItself(t) /\ ~isAsProtobuf3er(t)
  BY <1>4 DEF Declaration, Nothing
<1>5. CASE t # Time /\ t # Duration /\ MarshalsItself(t) /\ isAsProtobuf3er(t)
  BY <1>5 DEF Declaration, Nothing
<1>6. CASE t # Time /\ t # Duration /\ ~MarshalsItself(t) /\ isAsProtobuf3er(t)
  BY <1>1, <1>6 DEF Declaration, Nothing
<1>7. CASE t # Time /\ t # Duration /\ ~MarshalsItself(t) /\ ~isAsProtobuf3er(t)
  BY <1>1, <1>7 DEF Declaration, Nothing
<1> QED
  BY <1>2, <1>3, <1>4, <1>5, <1>6, <1>7

LEMMA PointerFacts ==
  ASSUME NEW t
  PROVE  Pointer(t).kind = "ptr" /\ Elem(Pointer(t)) = t
<1>1. Pointer(t).elem = <<t>> /\ Pointer(t).kind = "ptr"
  BY DEF Pointer, Type
<1>2. Len(<<t>>) = 1 /\ <<t>>[1] = t
  OBVIOUS
<1> QED
  BY <1>1, <1>2 DEF Elem

LEMMA CallFacts ==
  ASSUME NEW c \in Calls
  PROVE  /\ Arguments(c) = {Dug(Dug(Dug(c.first)))} \cup {Dug(t) : t \in c.more}
         /\ Arguments(c) \subseteq Structs /\ c # NoCall
         /\ IsFiniteSet(Faulty(c)) /\ Cardinality(Faulty(c)) \in Nat
<1>1. \A t : Dug(t) = Dereferenced(t)
  BY DEF Dug, Dereferenced
<1>2. Arguments(c) = {Dug(Dug(Dug(c.first)))} \cup {Dug(t) : t \in c.more}
  BY <1>1 DEF Arguments
<1>3. \A t \in Structs : Dug(t) = t
  BY StructsAssumption DEF Dug
<1>4. \A t : Dug(Pointer(t)) = t /\ Pointer(t).kind = "ptr"
  BY PointerFacts DEF Dug
<1>7. \A t \in OrPointers(Structs) : Dug(t) \in Structs
  BY <1>3, <1>4 DEF OrPointers
<1>8. \A t \in OrPointers(OrPointers(Structs)) : Dug(t) \in OrPointers(Structs)
  BY <1>4, <1>7 DEF OrPointers
<1>9. \A t \in OrPointers(OrPointers(OrPointers(Structs))) : Dug(t) \in OrPointers(OrPointers(Structs))
  BY <1>4, <1>8 DEF OrPointers
<1>10. Arguments(c) \subseteq Structs
  BY <1>2, <1>7, <1>8, <1>9, CallsAssumption
<1>11. c # NoCall
  <2>1. \A t \in OrPointers(OrPointers(OrPointers(Structs))) : t.kind \in {"struct", "ptr"}
    BY <1>4, StructsAssumption DEF OrPointers
  <2>2. NoCall.first.kind = "none"
    BY DEF NoCall, Basic, Type
  <2> QED
    BY <2>1, <2>2, CallsAssumption
<1>5. IsFiniteSet(Faulty(c))
  <2>1. Faulty(c) \subseteq Structs
    BY <1>10 DEF Faulty
  <2> QED
    BY <2>1, StructsAssumption, FS_Subset
<1>6. Cardinality(Faulty(c)) \in Nat
  BY <1>5, FS_CardinalityType
<1> QED
  BY <1>2, <1>5, <1>6, <1>10, <1>11

\* the types that are reached from a struct whose fields are looked at
LEMMA ReachedFacts ==
  ASSUME NEW c \in Calls
  PROVE  /\ WalkedIs(c, Walked(c)) /\ Walked(c) \subseteq Reached(c) /\ Reached(c) \subseteq TypesSeen
         /\ \A t \in Walked(c) : Dependents(t) \subseteq Reached(c)
         /\ \A t \in Walked(c) \cap Broken : t \in Faulty(c)
<1>1. WalkedIs(c, Walked(c))
  BY CallFacts, WalkedFacts
<1>2. Walked(c) \subseteq Structs
  BY <1>1 DEF WalkedIs
<1>3. \A t \in Structs : Dependents(t) \subseteq TypesSeen
  BY DEF Dependents, TypesSeen
<1>4. Structs \subseteq TypesSeen
  BY DEF TypesSeen
<1>5. \A t \in Walked(c) \cap Broken : t \in Faulty(c)
  BY <1>1 DEF WalkedIs, Faulty
<1> DEFINE W == Walked(c)
<1>6. Reached(c) = W \cup UNION {Dependents(t) : t \in W}
  BY DEF Reached
<1> HIDE DEF W
<1>7. W \subseteq Reached(c) /\ \A t \in W : Dependents(t) \subseteq Reached(c)
  BY <1>6
<1>8. Reached(c) \subseteq TypesSeen
  <2>1. W \subseteq Structs
    BY <1>2 DEF W
  <2> QED
    BY <1>3, <1>4, <1>6, <2>1
<1> QED
  BY <1>1, <1>5, <1>7, <1>8 DEF W

\* A type in error that has a line is an argument: no other shows its error.
LEMMA ErrorsFaulty ==
  ASSUME NEW c \in Calls, NEW t \in Reached(c), Declaration(t).line = "error"
  PROVE  t \in Faulty(c)
<1>1. t \in Broken
  BY ErrorsBroken
<1>2. ~(MarshalsItself(t) \/ (isAsProtobuf3er(t) /\ AsProtobuf3(t).definition))
  BY HiddenErrors
<1>3. CASE t \in Walked(c)
  BY <1>1, <1>3, ReachedFacts
<1>4. CASE t \notin Walked(c)
  <2>1. PICK s \in Walked(c) : t \in Dependents(s)
    BY <1>4 DEF Reached
  <2>2. s \in Structs
    BY ReachedFacts DEF WalkedIs
  <2>3. s \notin Broken /\ \E p \in Props[s] : t \in p.stype
    BY <2>1, <2>2, DependentsFacts
  <2> QED
    BY <1>1, <1>2, <2>2, <2>3, FieldTypes
<1> QED
  BY <1>3, <1>4

LEMMA StartsWith == Init => IInv
BY DEF Init, IInv, Idle, AfterSearch

LEMMA CallKeeps == IInv /\ Call => IInv'
<1> SUFFICES ASSUME IInv, Call PROVE IInv'
  OBVIOUS
<1>1. PICK c \in Calls : call' = c /\ todo' = {Dug(Dug(Dug(c.first)))} \cup {Dug(t) : t \in c.more}
  BY DEF Call
<1>2. todo' = Arguments(c) /\ Arguments(c) \subseteq Walked(c)
  BY <1>1, CallFacts, ReachedFacts DEF WalkedIs
<1>3. /\ phase' = "discover" /\ body' = <<>> /\ first_err' = {} /\ discovered' = {} /\ ordered' = {}
      /\ headers' = <<>> /\ imported' = {}
  BY DEF Call, IInv, Idle
<1>4. Search(call)'
  BY <1>1, <1>2, <1>3 DEF Search
<1>5. Found(call)'
  <2>1. Faulty(c) \ Arguments(c) = {}
    BY DEF Faulty
  <2>2. File!TypesOf(<<>>) = <<>>
    BY DEF File!TypesOf
  <2>3. Once(<<>>, {})
    BY DEF Once
  <2>4. Once(File!TypesOf(body'), Faulty(call') \ todo')
    BY <1>1, <1>2, <1>3, <2>1, <2>2, <2>3
  <2> QED
    BY <1>3, <2>4 DEF Found
<1> QED
  BY <1>1, <1>3, <1>4, <1>5 DEF IInv, AfterSearch

\* A type in error moves from todo to discovered and has a line.
LEMMA NotesKeep ==
  ASSUME IInv, phase = "discover", NEW t \in todo, t \in Broken, NoteError(t),
         todo' = todo \ {t}, discovered' = discovered \cup {t}, UNCHANGED <<call, ordered, headers, imported>>
  PROVE  body' \in Seq(Entries) /\ Search(call)' /\ Found(call)'
<1> DEFINE c == call
           e == [line |-> "error", type |-> t]
<1>1. c \in Calls /\ Search(c) /\ Found(c) /\ body \in Seq(Entries)
  BY DEF IInv
<1>2. c' = c
  OBVIOUS
<1> HIDE DEF c
<1>3. todo \subseteq Walked(c)
  BY <1>1 DEF Search
<1>4. t \in Faulty(c)
  BY <1>1, <1>3, ReachedFacts
<1>5. e \in Entries /\ t \in TypesSeen /\ e.type = t
  <2>1. t \in TypesSeen
    BY <1>1, <1>3, ReachedFacts
  <2> QED
    BY <2>1 DEF Entries
<1>6. body' = Append(body, e)
  BY DEF NoteError
<1>7. Search(c)'
  <2>1. Dependents(t) = {}
    BY DEF Dependents
  <2>2. t \in Reached(c)
    BY <1>1, <1>3, ReachedFacts
  <2>3. todo' \subseteq Walked(c) /\ discovered' \subseteq Reached(c) /\ Arguments(c) \subseteq todo' \cup discovered'
    BY <1>1, <2>2 DEF Search
  <2>4. ASSUME NEW s \in (discovered' \cap Walked(c)) \ todo' PROVE Dependents(s) \subseteq discovered' \cup todo'
    <3>1. CASE s = t
      BY <2>1, <3>1
    <3>2. CASE s # t
      <4>1. s \in (discovered \cap Walked(c)) \ todo
        BY <2>4, <3>2
      <4>2. Dependents(s) \subseteq discovered \cup todo
        BY <1>1, <4>1 DEF Search
      <4> QED
        BY <4>2
    <3> QED
      BY <3>1, <3>2
  <2> QED
    BY <1>2, <2>3, <2>4 DEF Search
<1>8. Found(c)'
  <2>1. File!TypesOf(body') = Append(File!TypesOf(body), t)
    BY <1>1, <1>5, <1>6, TypesAppend
  <2>2. Faulty(c) \ todo' = (Faulty(c) \ todo) \cup {t}
    BY <1>4
  <2>3. Once(Append(File!TypesOf(body), t), (Faulty(c) \ todo) \cup {t})
    <3>1. Once(File!TypesOf(body), Faulty(c) \ todo) /\ t \notin Faulty(c) \ todo
      BY <1>1 DEF Found
    <3> QED
      BY <1>5, <3>1, OnceAppend
  <2>4. Once(File!TypesOf(body'), Faulty(c) \ todo')
    BY <2>1, <2>2, <2>3
  <2>5. \A k \in DOMAIN body' : body'[k].line = "error"
    <3>1. e.line = "error" /\ \A k \in DOMAIN body : body[k].line = "error"
      BY <1>1 DEF Found
    <3>2. DOMAIN body' = 1..(Len(body) + 1) /\ body'[Len(body) + 1] = e /\ \A k \in 1..Len(body) : body'[k] = body[k]
      BY <1>1, <1>6
    <3>3. DOMAIN body = 1..Len(body) /\ Len(body) \in Nat
      BY <1>1
    <3> HIDE DEF e
    <3>4. ASSUME NEW k \in DOMAIN body' PROVE body'[k].line = "error"
      <4>1. k \in 1..Len(body) \/ k = Len(body) + 1
        BY <3>2, <3>3
      <4> QED
        BY <3>1, <3>2, <3>3, <4>1
    <3> QED
      BY <3>4
  <2>6. first_err' = IF body' = <<>> THEN {} ELSE {body'[1].type}
    <3>1. first_err = (IF body = <<>> THEN {} ELSE {body[1].type}) /\ first_err' = IF first_err = {} THEN {t} ELSE first_err
      BY <1>1 DEF Found, NoteError
    <3>2. CASE body = <<>>
      <4>1. body' = <<e>>
        BY <1>6, <3>2
      <4> QED
        BY <1>5, <3>1, <3>2, <4>1
    <3>3. CASE body # <<>>
      <4>1. Len(body) \in Nat /\ Len(body) # 0
        BY <1>1, <3>3
      <4>2. body'[1] = body[1] /\ body' # <<>>
        BY <1>1, <1>6, <4>1
      <4> QED
        BY <3>1, <3>3, <4>2
    <3> QED
      BY <3>2, <3>3
  <2>7. ordered' = {} /\ headers' = <<>> /\ imported' = {}
    BY <1>1 DEF Found
  <2> QED
    BY <1>2, <2>4, <2>5, <2>6, <2>7 DEF Found
<1>9. body' \in Seq(Entries)
  BY <1>1, <1>5, <1>6
<1> QED
  BY <1>7, <1>8, <1>9 DEF c

\* The types of the fields of another are done without a look at their fields, or are to be done.
LEMMA FollowsKeep ==
  ASSUME IInv, phase = "discover", NEW t \in todo, t \notin Broken,
         NEW ends, NEW more,
         \A s \in ends : s \in Dependents(t) /\ SpeaksForItself(s) /\ s \notin discovered \cup {t},
         \A s \in more : s \in Dependents(t) /\ ~SpeaksForItself(s) /\ s \notin Broken,
         Dependents(t) \subseteq discovered \cup {t} \cup ends \cup more,
         todo' = (todo \ {t}) \cup more, discovered' = discovered \cup {t} \cup ends,
         UNCHANGED <<call, ordered, headers, imported, body, first_err>>
  PROVE  Search(call)' /\ Found(call)'
<1> DEFINE c == call
<1>1. c \in Calls /\ Search(c) /\ Found(c)
  BY DEF IInv
<1>2. c' = c
  OBVIOUS
<1> HIDE DEF c
<1>3. t \in Walked(c) /\ todo \subseteq Walked(c) /\ discovered \subseteq Reached(c)
  BY <1>1 DEF Search
<1>4. Dependents(t) \subseteq Reached(c) /\ t \in Reached(c) /\ WalkedIs(c, Walked(c))
  BY <1>1, <1>3, ReachedFacts
<1>5. todo' \subseteq Walked(c)
  BY <1>3, <1>4 DEF WalkedIs
<1>6. discovered' \subseteq Reached(c)
  BY <1>3, <1>4
<1>7. Arguments(c) \subseteq todo' \cup discovered'
  BY <1>1 DEF Search
<1>8. ASSUME NEW s \in (discovered' \cap Walked(c)) \ todo' PROVE Dependents(s) \subseteq discovered' \cup todo'
  <2>1. CASE s = t
    BY <2>1
  <2>2. CASE s # t /\ s \in discovered
    <3>1. s \in (discovered \cap Walked(c)) \ todo
      BY <1>8, <2>2
    <3>2. Dependents(s) \subseteq discovered \cup todo
      BY <1>1, <3>1 DEF Search
    <3> QED
      BY <3>2
  <2>3. CASE s # t /\ s \in ends
    <3>1. s \in Arguments(c)
      BY <1>4, <1>8, <2>3 DEF WalkedIs
    <3>2. s \in todo
      BY <1>1, <2>3, <3>1 DEF Search
    <3> QED
      BY <1>8, <2>3, <3>2
  <2> QED
    BY <1>8, <2>1, <2>2, <2>3
<1>9. Search(c)'
  BY <1>2, <1>5, <1>6, <1>7, <1>8 DEF Search
<1>10. Found(c)'
  <2>1. Faulty(c) \ todo' = Faulty(c) \ todo
    BY DEF Faulty
  <2> QED
    BY <1>1, <1>2, <2>1 DEF Found
<1> QED
  BY <1>9, <1>10 DEF c

LEMMA DiscoverKeeps == IInv /\ Discover => IInv'
<1> SUFFICES ASSUME IInv, Discover PROVE IInv'
  OBVIOUS
<1>1. phase = "discover" /\ phase' = phase /\ UNCHANGED <<call, ordered, headers, imported>>
  BY DEF Discover
<1>2. call \in Calls /\ body \in Seq(Entries) /\ Search(call)
  BY <1>1 DEF IInv
<1>3. PICK t \in todo :
        \/ /\ t \in Broken /\ NoteError(t)
           /\ todo' = todo \ {t} /\ discovered' = discovered \cup {t}
        \/ /\ t \notin Broken
           /\ \E new \in {NewFrom(t, discovered \cup {t})} :
                LET ends == {e \in new : IsEndpoint(e[1], e[2])}
                IN  /\ todo' = (todo \ {t}) \cup {e[2] : e \in {n \in new \ ends : n[2].kind = "struct"}}
                    /\ discovered' = discovered \cup {t} \cup {e[2] : e \in ends}
           /\ UNCHANGED <<body, first_err>>
  BY DEF Discover
<1>4. body' \in Seq(Entries) /\ Search(call)' /\ Found(call)'
  <2>1. CASE t \in Broken
    BY <1>1, <1>3, <2>1, NotesKeep
  <2>2. CASE t \notin Broken
    <3> DEFINE new == NewFrom(t, discovered \cup {t})
               ends == {e[2] : e \in {e \in new : IsEndpoint(e[1], e[2])}}
               more == {e[2] : e \in {n \in new \ {e \in new : IsEndpoint(e[1], e[2])} : n[2].kind = "struct"}}
    <3>1. todo' = (todo \ {t}) \cup more /\ discovered' = discovered \cup {t} \cup ends /\ UNCHANGED <<body, first_err>>
      BY <1>3, <2>2
    <3>2. t \in Structs
      BY <1>2, ReachedFacts DEF Search, WalkedIs
    <3>3. \A e \in new : e[1] \in Props[t] /\ e[2] \in e[1].stype /\ e[2] \notin discovered \cup {t} /\ e[2] \in Dependents(t)
      BY <2>2 DEF NewFrom, Dependents
    <3>4. \A p \in Props[t] : \A s \in p.stype : s \notin discovered \cup {t} => <<p, s>> \in new
      BY DEF NewFrom
    <3> HIDE DEF new
    <3>5. \A p \in Props[t] : \A s \in p.stype :
            /\ ~IsEndpoint(p, s) => s.kind = "struct" /\ ~SpeaksForItself(s) /\ s \notin Broken
            /\ IsEndpoint(p, s) => SpeaksForItself(s)
      BY <2>2, <3>2, FieldTypes
    <3>6. \A s \in ends : s \in Dependents(t) /\ SpeaksForItself(s) /\ s \notin discovered \cup {t}
      BY <3>3, <3>5
    <3>7. \A s \in more : s \in Dependents(t) /\ ~SpeaksForItself(s) /\ s \notin Broken
      BY <3>3, <3>5
    <3>8. Dependents(t) \subseteq discovered \cup {t} \cup ends \cup more
      <4> SUFFICES ASSUME NEW s \in Dependents(t), s \notin discovered \cup {t} PROVE s \in ends \cup more
        OBVIOUS
      <4>1. PICK p \in Props[t] : s \in p.stype
        BY <3>2, DependentsFacts
      <4>2. <<p, s>> \in new
        BY <3>4, <4>1
      <4>3. CASE IsEndpoint(p, s)
        BY <4>2, <4>3
      <4>4. CASE ~IsEndpoint(p, s)
        <5>1. s.kind = "struct"
          BY <3>5, <4>1, <4>4
        <5> QED
          BY <4>2, <4>4, <5>1
      <4> QED
        BY <4>3, <4>4
    <3> HIDE DEF ends, more
    <3> QED
      BY <1>1, <1>2, <2>2, <3>1, <3>6, <3>7, <3>8, FollowsKeep
  <2> QED
    BY <2>1, <2>2
<1> QED
  BY <1>1, <1>2, <1>4 DEF IInv, AfterSearch

\* When nothing is left to do, all that is reached has been discovered.
LEMMA AllDiscovered ==
  ASSUME NEW c \in Calls, Search(c), todo = {}
  PROVE  discovered = Reached(c)
<1> DEFINE A == discovered \cap Walked(c)
<1>1. WalkedIs(c, Walked(c))
  BY ReachedFacts
<1>2. A \in SUBSET Structs
  BY <1>1 DEF WalkedIs
<1>3. Arguments(c) \subseteq A
  BY <1>1 DEF WalkedIs, Search
<1>4. ASSUME NEW t \in A, NEW s \in Dependents(t), ~SpeaksForItself(s) PROVE s \in A
  <2>1. s \in Walked(c)
    BY <1>1, <1>4 DEF WalkedIs
  <2>2. s \in discovered
    BY <1>4 DEF Search
  <2> QED
    BY <2>1, <2>2
<1> HIDE DEF A
<1>5. Walked(c) \subseteq A
  BY <1>1, <1>2, <1>3, <1>4 DEF WalkedIs
<1>6. Walked(c) \subseteq discovered
  BY <1>5 DEF A
<1>7. \A t \in Walked(c) : Dependents(t) \subseteq discovered
  BY <1>6 DEF Search
<1>8. Reached(c) \subseteq discovered
  <2> DEFINE W == Walked(c)
  <2>1. Reached(c) = W \cup UNION {Dependents(t) : t \in W}
    BY DEF Reached
  <2> HIDE DEF W
  <2>2. W \subseteq discovered /\ \A t \in W : Dependents(t) \subseteq discovered
    BY <1>6, <1>7 DEF W
  <2> QED
    BY <2>1, <2>2
<1> QED
  BY <1>8 DEF Search

LEMMA SortKeeps == IInv /\ Sort => IInv'
<1> SUFFICES ASSUME IInv, Sort PROVE IInv'
  OBVIOUS
<1> DEFINE c == call
           n == Cardinality(Faulty(c))
<1>1. /\ phase = "discover" /\ todo = {} /\ phase' = "declare" /\ ordered' = {t \in discovered : t.name # ""}
      /\ UNCHANGED <<call, todo, discovered, headers, imported, body, first_err>>
  BY DEF Sort
<1>2. c \in Calls /\ Search(c) /\ Found(c) /\ body \in Seq(Entries)
  BY <1>1 DEF IInv
<1>3. c' = c
  BY <1>1
<1> HIDE DEF c
<1>4. IsFiniteSet(Faulty(c)) /\ n \in Nat
  BY <1>2, CallFacts
<1>5. discovered = Reached(c)
  BY <1>1, <1>2, AllDiscovered
<1>6. ordered' = Named(c)
  BY <1>1, <1>5 DEF Named
<1>7. Declaring(c)'
  BY <1>1, <1>3, <1>5, <1>6 DEF Declaring, Done
<1>8. Once(File!TypesOf(body), Faulty(c))
  <2>1. Faulty(c) \ todo = Faulty(c)
    BY <1>1
  <2> QED
    BY <1>2, <2>1 DEF Found
<1>9. Len(body) = n
  <2>1. Len(File!TypesOf(body)) = Cardinality(Faulty(c))
    BY <1>8, OnceLists, SameCardinality DEF File!Lists
  <2>2. Len(File!TypesOf(body)) = Len(body)
    <3>1. DOMAIN body = 1..Len(body) /\ Len(body) \in Nat
      BY <1>2
    <3>2. File!TypesOf(body) = [k \in 1..Len(body) |-> body[k].type]
      BY <3>1 DEF File!TypesOf
    <3> QED
      BY <3>1, <3>2
  <2> QED
    BY <2>1, <2>2
<1>10. ErrorsOf(body, c) = body /\ LinesOf(body, c) = <<>>
  <2>1. SubSeq(body, 1, Len(body)) = body /\ SubSeq(body, Len(body) + 1, Len(body)) = <<>>
    BY <1>2
  <2> QED
    BY <1>9, <2>1 DEF ErrorsOf, LinesOf
<1> HIDE DEF n
<1>11. ErrorsFirst(c)'
  <2>1. \A k \in DOMAIN body : body[k].line = "error"
    BY <1>2 DEF Found
  <2>2. first_err = IF Faulty(c) = {} THEN {} ELSE {body[1].type}
    <3>1. first_err = IF body = <<>> THEN {} ELSE {body[1].type}
      BY <1>2 DEF Found
    <3>2. Faulty(c) = {} <=> n = 0
      BY <1>4, FS_EmptySet DEF n
    <3>3. body = <<>> <=> Len(body) = 0
      BY <1>2
    <3> QED
      BY <1>9, <3>1, <3>2, <3>3
  <2>3. Len(body) >= Cardinality(Faulty(c))
    BY <1>4, <1>9 DEF n
  <2>4. body' = body /\ first_err' = first_err
    BY <1>1
  <2> QED
    BY <1>3, <1>8, <1>10, <2>1, <2>2, <2>3, <2>4 DEF ErrorsFirst
<1>12. Done(c)' = {} /\ Shown(c)' = {} /\ ToDo(c)' = {}
  BY <1>3, <1>6 DEF Done, Shown, ToDo
<1>13. Once(<<>>, {}) /\ File!InOrder(<<>>) /\ File!TypesOf(<<>>) = <<>>
  BY DEF Once, File!InOrder, File!TypesOf
<1>14. LinesNext(c)'
  <2>1. body' = body
    BY <1>1
  <2> QED
    BY <1>3, <1>10, <1>12, <1>13, <2>1 DEF LinesNext
<1>15. Header(c)'
  <2>1. headers' = <<>> /\ imported' = {}
    BY <1>1, <1>2 DEF Found
  <2> QED
    BY <1>3, <1>12, <1>13, <2>1 DEF Header
<1>16. phase' = "declare" /\ body' \in Seq(Entries) /\ call' \in Calls
  BY <1>1, <1>2, <1>3 DEF c
<1> QED
  BY <1>7, <1>11, <1>14, <1>15, <1>16 DEF IInv, AfterSearch, Written, c

\* a type is declared, and with it its line, if it has one
Declares(c, t, e) ==
  /\ t \in ordered /\ IsNext(t) /\ Declaration(t).line # "panic"
  /\ e = [line |-> Declaration(t).line, type |-> t]
  /\ ordered' = ordered \ {t}
  /\ headers' = IF Declaration(t).todo THEN Append(headers, t) ELSE headers
  /\ imported' = imported \cup Declaration(t).imports
  /\ body' = IF Declaration(t).line = "none" THEN body ELSE Append(body, e)
  /\ UNCHANGED <<call, todo, discovered, first_err>>

\* The first error has been noted when a declaration is an error.
LEMMA DeclareFacts ==
  ASSUME IInv, Declare
  PROVE  /\ phase = "declare" /\ phase' = phase /\ call \in Calls /\ body \in Seq(Entries)
         /\ Declaring(call) /\ Written(call) /\ \E t \in TypesSeen : \E e : Declares(call, t, e)
<1>1. phase = "declare" /\ phase' = phase /\ UNCHANGED <<call, todo, discovered>>
  BY DEF Declare
<1>2. call \in Calls /\ body \in Seq(Entries) /\ Declaring(call) /\ Written(call)
  BY <1>1 DEF IInv, AfterSearch
<1>3. PICK t \in ordered : 
        /\ IsNext(t) /\ Declaration(t).line # "panic"
        /\ ordered' = ordered \ {t}
        /\ headers' = IF Declaration(t).todo THEN Append(headers, t) ELSE headers
        /\ imported' = imported \cup Declaration(t).imports
        /\ CASE Declaration(t).line = "none"  -> UNCHANGED <<body, first_err>>
             [] Declaration(t).line = "error" -> NoteError(t)
             [] OTHER -> body' = Append(body, [line |-> Declaration(t).line, type |-> t]) /\ UNCHANGED first_err
  BY DEF Declare
<1>4. t \in Reached(call) /\ t \in TypesSeen
  BY <1>2, <1>3, ReachedFacts DEF Declaring, Named
<1>5. body' = (IF Declaration(t).line = "none" THEN body ELSE Append(body, [line |-> Declaration(t).line, type |-> t]))
      /\ UNCHANGED first_err
  <2>1. CASE Declaration(t).line = "none"
    BY <1>3, <2>1
  <2>2. CASE Declaration(t).line = "error"
    <3>1. NoteError(t)
      BY <1>3, <2>2
    <3>2. Faulty(call) # {}
      BY <1>2, <1>4, <2>2, ErrorsFaulty
    <3>3. first_err # {}
      BY <1>2, <3>2 DEF Written, ErrorsFirst
    <3> QED
      BY <2>2, <3>1, <3>3 DEF NoteError
  <2>3. CASE Declaration(t).line \notin {"none", "error"}
    BY <1>3, <2>3
  <2> QED
    BY <2>1, <2>2, <2>3
<1>6. Declares(call, t, [line |-> Declaration(t).line, type |-> t])
  BY <1>1, <1>3, <1>5 DEF Declares
<1> QED
  BY <1>1, <1>2, <1>4, <1>6

LEMMA DoneNext ==
  ASSUME NEW c \in Calls, Declaring(c), NEW t, NEW e, Declares(c, t, e), c' = c
  PROVE  /\ t \notin Done(c) /\ Done(c)' = Done(c) \cup {t} /\ Declaring(c)'
         /\ \A s \in Done(c) : Rank(s.name) <= Rank(t.name)
<1>1. t \in Named(c) /\ t \notin Done(c)
  BY DEF Declaring, Declares, Done
<1>2. Done(c)' = Done(c) \cup {t}
  BY <1>1 DEF Declares, Done
<1>3. \A s \in Done(c) : Rank(s.name) <= Rank(t.name)
  BY DEF Declaring, Declares
<1>4. Declaring(c)'
  <2>1. discovered' = Reached(c) /\ todo' = {} /\ ordered' \subseteq Named(c)
    BY DEF Declaring, Declares
  <2>2. \A s \in Done(c)' : Declaration(s).line # "panic"
    BY <1>2 DEF Declaring, Declares
  <2>3. ASSUME NEW s \in Done(c)', NEW r \in ordered' PROVE Rank(s.name) <= Rank(r.name)
    <3>1. r \in ordered
      BY DEF Declares
    <3> QED
      BY <1>2, <3>1 DEF Declaring, Declares, IsNext
  <2> QED
    BY <2>1, <2>2, <2>3 DEF Declaring
<1> QED
  BY <1>1, <1>2, <1>3, <1>4

LEMMA HeaderNext ==
  ASSUME NEW c \in Calls, Declaring(c), Header(c), NEW t \in TypesSeen, NEW e, Declares(c, t, e), c' = c
  PROVE  Header(c)'
<1>1. t \notin Done(c) /\ Done(c)' = Done(c) \cup {t} /\ \A s \in Done(c) : Rank(s.name) <= Rank(t.name)
  BY DoneNext
<1>2. imported' = UNION {Declaration(s).imports : s \in Done(c)'}
  <2>1. imported = UNION {Declaration(s).imports : s \in Done(c)} /\ imported' = imported \cup Declaration(t).imports
    BY DEF Header, Declares
  <2> DEFINE D == Done(c)
             N == Done(c)'
             imp(s) == Declaration(s).imports
  <2>2. imported = UNION {imp(s) : s \in D} /\ imported' = imported \cup imp(t) /\ N = D \cup {t}
    BY <1>1, <2>1
  <2> HIDE DEF D, N, imp
  <2>3. imported' = UNION {imp(s) : s \in N}
    BY <2>2
  <2> QED
    BY <2>3 DEF N, imp
<1>3. Once(headers', ToDo(c)') /\ File!InOrder(headers')
  <2>1. Once(headers, ToDo(c)) /\ File!InOrder(headers)
    BY DEF Header
  <2>2. CASE Declaration(t).todo
    <3>1. headers' = Append(headers, t)
      BY <2>2 DEF Declares
    <3>2. t \notin ToDo(c) /\ \A s \in ToDo(c) : Rank(s.name) <= Rank(t.name)
      BY <1>1 DEF ToDo
    <3>3. ToDo(c)' = ToDo(c) \cup {t}
      BY <1>1, <2>2 DEF ToDo
    <3>4. Once(Append(headers, t), ToDo(c) \cup {t}) /\ File!InOrder(Append(headers, t))
      BY <2>1, <3>2, OnceAppend, OrderAppend
    <3> QED
      BY <3>1, <3>3, <3>4
  <2>3. CASE ~Declaration(t).todo
    <3>1. headers' = headers
      BY <2>3 DEF Declares
    <3>2. ToDo(c)' = ToDo(c)
      BY <1>1, <2>3 DEF ToDo
    <3> QED
      BY <2>1, <3>1, <3>2
  <2> QED
    BY <2>2, <2>3
<1> QED
  BY <1>2, <1>3 DEF Header

LEMMA BodyNext ==
  ASSUME NEW c \in Calls, body \in Seq(Entries), Declaring(c), ErrorsFirst(c), LinesNext(c),
         NEW t \in TypesSeen, NEW e, Declares(c, t, e), c' = c
  PROVE  body' \in Seq(Entries) /\ ErrorsFirst(c)' /\ LinesNext(c)'
<1>1. t \notin Done(c) /\ Done(c)' = Done(c) \cup {t} /\ \A s \in Done(c) : Rank(s.name) <= Rank(t.name)
  BY DoneNext
<1> DEFINE n == Cardinality(Faulty(c))
           b == ErrorsOf(body, c)
           l == LinesOf(body, c)
<1>2. n \in Nat /\ n <= Len(body) /\ (n = 0 => Faulty(c) = {}) /\ Len(body) \in Nat
  <2>1. IsFiniteSet(Faulty(c)) /\ n \in Nat
    BY CallFacts
  <2>2. n = 0 <=> Faulty(c) = {}
    BY <2>1, FS_EmptySet
  <2> QED
    BY <2>1, <2>2 DEF ErrorsFirst
<1>3. CASE Declaration(t).line = "none"
  <2>1. body' = body /\ first_err' = first_err
    BY <1>3 DEF Declares
  <2>2. Shown(c)' = Shown(c)
    BY <1>1, <1>3 DEF Shown
  <2> QED
    BY <2>1, <2>2 DEF ErrorsFirst, LinesNext
<1>4. CASE Declaration(t).line # "none"
  <2>1. body' = Append(body, e) /\ first_err' = first_err /\ e.type = t /\ e.line = Declaration(t).line
    BY <1>4 DEF Declares
  <2>2. e \in Entries
    <3>1. Declaration(t).line \in {"error", "message", "definition"}
      BY <1>4, Declarations DEF Declares
    <3> QED
      BY <3>1 DEF Declares, Entries
  <2>3. /\ ErrorsOf(body, c) \in Seq(Entries) /\ LinesOf(body, c) \in Seq(Entries)
        /\ ErrorsOf(body', c) = ErrorsOf(body, c) /\ LinesOf(body', c) = Append(LinesOf(body, c), e)
    BY <1>2, <2>1, <2>2, PartsAppend DEF ErrorsOf, LinesOf
  <2>4. body' \in Seq(Entries) /\ Len(body') = Len(body) + 1 /\ (Len(body) # 0 => body'[1] = body[1])
    BY <1>2, <2>1, <2>2
  <2>5. ErrorsFirst(c)'
    <3>1. Len(body') >= n
      BY <1>2, <2>4
    <3>2. first_err' = IF Faulty(c) = {} THEN {} ELSE {body'[1].type}
      <4>1. Faulty(c) # {} => Len(body) # 0
        BY <1>2
      <4>2. first_err = IF Faulty(c) = {} THEN {} ELSE {body[1].type}
        BY DEF ErrorsFirst
      <4> HIDE DEF n, b, l
      <4> QED
        BY <2>1, <2>4, <4>1, <4>2
    <3> QED
      BY <2>3, <3>1, <3>2 DEF ErrorsFirst
  <2>6. LinesNext(c)'
    <3>1. /\ Once(File!TypesOf(l), Shown(c)) /\ File!InOrder(File!TypesOf(l)) /\ l \in Seq(Entries)
          /\ \A k \in DOMAIN l : IsDeclared(l[k])
      BY <2>3 DEF LinesNext
    <3>2. t \notin Shown(c) /\ \A s \in Shown(c) : Rank(s.name) <= Rank(t.name)
      BY <1>1 DEF Shown
    <3>3. Shown(c)' = Shown(c) \cup {t}
      BY <1>1, <1>4 DEF Shown
    <3>4. LinesOf(body', c) = Append(l, e)
      BY <2>3
    <3> HIDE DEF l
    <3>5. File!TypesOf(Append(l, e)) = Append(File!TypesOf(l), t)
      BY <2>1, <2>2, <3>1, TypesAppend
    <3>6. Once(File!TypesOf(Append(l, e)), Shown(c) \cup {t}) /\ File!InOrder(File!TypesOf(Append(l, e)))
      BY <3>1, <3>2, <3>5, OnceAppend, OrderAppend
    <3>7. \A k \in DOMAIN Append(l, e) : IsDeclared(Append(l, e)[k])
      <4>1. IsDeclared(e)
        BY <2>1 DEF IsDeclared
      <4>2. /\ DOMAIN Append(l, e) = 1..(Len(l) + 1) /\ Append(l, e)[Len(l) + 1] = e /\ Len(l) \in Nat
            /\ DOMAIN l = 1..Len(l) /\ \A k \in 1..Len(l) : Append(l, e)[k] = l[k]
        BY <3>1
      <4>3. ASSUME NEW k \in DOMAIN Append(l, e) PROVE IsDeclared(Append(l, e)[k])
        <5>1. k \in 1..Len(l) \/ k = Len(l) + 1
          BY <4>2
        <5> QED
          BY <3>1, <4>1, <4>2, <5>1
      <4> QED
        BY <4>3
    <3> QED
      BY <3>3, <3>4, <3>6, <3>7 DEF LinesNext
  <2> QED
    BY <2>4, <2>5, <2>6
<1> QED
  BY <1>3, <1>4

LEMMA DeclareKeeps == IInv /\ Declare => IInv'
<1> SUFFICES ASSUME IInv, Declare PROVE IInv'
  OBVIOUS
<1> DEFINE c == call
<1>1. /\ phase = "declare" /\ phase' = phase /\ c \in Calls /\ body \in Seq(Entries) /\ Declaring(c) /\ Written(c)
      /\ \E t \in TypesSeen : \E e : Declares(c, t, e)
  BY DeclareFacts
<1>0. PICK t \in TypesSeen : \E e : Declares(c, t, e)
  BY <1>1
<1>2. PICK e : Declares(c, t, e)
  BY <1>0
<1>3. c' = c
  BY <1>2 DEF Declares
<1>4. Declaring(c)'
  BY <1>1, <1>2, <1>3, DoneNext
<1>5. body' \in Seq(Entries) /\ ErrorsFirst(c)' /\ LinesNext(c)'
  BY <1>1, <1>2, <1>3, BodyNext DEF Written
<1>6. Header(c)'
  BY <1>1, <1>2, <1>3, HeaderNext DEF Written
<1> QED
  BY <1>1, <1>3, <1>4, <1>5, <1>6 DEF IInv, AfterSearch, Written

\* the end of the call changes nothing else
LEMMA EndKeeps ==
  ASSUME IInv, phase \in AfterSearch, phase' \in AfterSearch,
         UNCHANGED <<call, todo, discovered, ordered, headers, imported, body, first_err>>
  PROVE  IInv'
<1>1. call' = call /\ call \in Calls /\ body' \in Seq(Entries) /\ Declaring(call) /\ Written(call)
  BY DEF IInv, AfterSearch
<1>2. Declaring(call)'
  BY <1>1 DEF Declaring, Done
<1>3. Written(call)'
  BY <1>1 DEF Written, ErrorsFirst, LinesNext, Header, Done, Shown, ToDo
<1> QED
  BY <1>1, <1>2, <1>3 DEF IInv, AfterSearch

LEMMA LeaveKeeps == IInv /\ Leave => IInv'
BY DEF IInv, Leave, Idle, AfterSearch

LEMMA StepKeeps == IInv /\ [Next]_vars => IInv'
<1> SUFFICES ASSUME IInv, [Next]_vars PROVE IInv'
  OBVIOUS
<1>1. CASE Call
  BY <1>1, CallKeeps
<1>2. CASE Discover
  BY <1>2, DiscoverKeeps
<1>3. CASE Sort
  BY <1>3, SortKeeps
<1>4. CASE Declare
  BY <1>4, DeclareKeeps
<1>5. CASE CannotDeclare
  <2>1. phase \in AfterSearch /\ phase' \in AfterSearch
    BY <1>5 DEF CannotDeclare, AfterSearch
  <2> QED
    BY <1>5, <2>1, EndKeeps DEF CannotDeclare
<1>6. CASE Return
  <2>1. phase \in AfterSearch /\ phase' \in AfterSearch
    BY <1>6 DEF Return, AfterSearch
  <2> QED
    BY <1>6, <2>1, EndKeeps DEF Return
<1>7. CASE Leave
  BY <1>7, LeaveKeeps
<1>8. CASE UNCHANGED vars
  BY <1>8 DEF vars, IInv, Idle, Search, Found, Declaring, Written, ErrorsFirst, LinesNext, Header, Done, Shown, ToDo
<1> QED
  BY <1>1, <1>2, <1>3, <1>4, <1>5, <1>6, <1>7, <1>8 DEF Next

\* What holds of every call at every moment: types that are reached and no others are found, and what
\* has been written of them is in the order of the names, with the errors of the arguments before it.
THEOREM Invariant == Spec => []IInv
BY StartsWith, StepKeeps, PTL DEF Spec

LEMMA TypesInside == IInv => TypeOK
<1> SUFFICES ASSUME IInv PROVE TypeOK
  OBVIOUS
<1>1. body \in Seq(Entries) /\ phase \in {"idle", "discover", "declare", "returned", "panicked"}
  BY DEF IInv, AfterSearch
<1>2. \A k \in DOMAIN body : body[k].line \in {"message", "definition", "error"} /\ body[k].type \in TypesSeen
  <2>1. \A k \in DOMAIN body : body[k] \in Entries
    BY <1>1
  <2> QED
    BY <2>1 DEF Entries
<1>3. CASE phase = "idle"
  <2>1. Idle
    BY <1>3 DEF IInv
  <2>2. Cardinality({}) = 0
    BY FS_EmptySet
  <2> QED
    BY <1>1, <1>2, <2>1, <2>2 DEF TypeOK, Idle
<1>4. CASE phase = "discover"
  <2> DEFINE c == call
  <2>1. c \in Calls /\ Search(c) /\ Found(c)
    BY <1>4 DEF IInv
  <2> HIDE DEF c
  <2>2. todo \subseteq Structs /\ discovered \subseteq TypesSeen
    BY <2>1, ReachedFacts DEF Search, WalkedIs
  <2>3. first_err \subseteq Broken /\ Cardinality(first_err) <= 1
    <3>1. CASE body = <<>>
      BY <2>1, <3>1, FS_EmptySet DEF Found
    <3>2. CASE body # <<>>
      <4>1. first_err = {body[1].type}
        BY <2>1, <3>2 DEF Found
      <4>2. 1 \in DOMAIN body /\ 1 \in DOMAIN File!TypesOf(body) /\ File!TypesOf(body)[1] = body[1].type
        <5>1. 1 \in DOMAIN body
          BY <1>1, <3>2
        <5> QED
          BY <5>1 DEF File!TypesOf
      <4>3. body[1].type \in Faulty(c)
        BY <2>1, <4>2 DEF Found, Once
      <4>4. Cardinality({body[1].type}) = 1
        BY FS_Singleton
      <4> QED
        BY <4>1, <4>3, <4>4 DEF Faulty
    <3> QED
      BY <3>1, <3>2
  <2> QED
    BY <1>1, <1>2, <2>1, <2>2, <2>3 DEF TypeOK, Found
<1>5. CASE phase \in AfterSearch
  <2> DEFINE c == call
             n == Cardinality(Faulty(c))
             b == ErrorsOf(body, c)
  <2>1. c \in Calls /\ Declaring(c) /\ Written(c)
    BY <1>5 DEF IInv, AfterSearch
  <2> HIDE DEF c
  <2>2. discovered \subseteq TypesSeen /\ ordered \subseteq discovered /\ Named(c) \subseteq discovered /\ todo = {}
    BY <2>1, ReachedFacts DEF Declaring, Named
  <2>3. \A k \in DOMAIN headers : headers[k] \in discovered /\ MarshalsItself(headers[k])
    <3>1. \A k \in DOMAIN headers : headers[k] \in ToDo(c)
      BY <2>1 DEF Written, Header, Once
    <3>2. \A t \in ToDo(c) : t \in discovered /\ MarshalsItself(t)
      BY <2>2, Declarations DEF ToDo, Done
    <3> QED
      BY <3>1, <3>2
  <2>4. first_err \subseteq Broken /\ Cardinality(first_err) <= 1
    <3>1. first_err = IF Faulty(c) = {} THEN {} ELSE {body[1].type}
      BY <2>1 DEF Written, ErrorsFirst
    <3>2. CASE Faulty(c) = {}
      BY <3>1, <3>2, FS_EmptySet
    <3>3. CASE Faulty(c) # {}
      <4>1. IsFiniteSet(Faulty(c)) /\ n \in Nat
        BY <2>1, CallFacts
      <4>2. n # 0
        BY <3>3, <4>1, FS_EmptySet
      <4>3. Len(body) \in Nat /\ Len(body) >= n
        BY <1>1, <2>1 DEF Written, ErrorsFirst
      <4>4. b = [k \in 1..n |-> body[k]]
        <5>1. b = [k \in 1..((1 + n) - 1) |-> body[(k + 1) - 1]]
          BY <1>1, <4>1 DEF ErrorsOf
        <5>2. (1 + n) - 1 = n /\ \A k \in 1..n : (k + 1) - 1 = k
          BY <4>1
        <5> HIDE DEF b, n
        <5> QED
          BY <5>1, <5>2
      <4>5. Once(File!TypesOf(b), Faulty(c))
        BY <2>1 DEF Written, ErrorsFirst
      <4> HIDE DEF b, n
      <4>6. 1 \in DOMAIN b /\ b[1] = body[1]
        BY <4>1, <4>2, <4>4
      <4>7. 1 \in DOMAIN File!TypesOf(b) /\ File!TypesOf(b)[1] = body[1].type
        BY <4>6 DEF File!TypesOf
      <4>8. body[1].type \in Faulty(c)
        BY <4>5, <4>7 DEF Once
      <4> QED
        BY <3>1, <3>3, <4>8, FS_Singleton DEF Faulty
    <3> QED
      BY <3>2, <3>3
  <2> QED
    BY <1>1, <1>2, <2>2, <2>3, <2>4 DEF TypeOK
<1> QED
  BY <1>3, <1>4, <1>5 DEF IInv, AfterSearch

\* The types in the tables are structs of the program or types of their fields, the header asks only
\* for types that marshal themselves, and the error that is returned is that of a struct that is refused.
THEOREM TypeCorrect == Spec => []TypeOK
BY Invariant, TypesInside, PTL

-----------------------------------------------------------------------------
(* the refinement *)

\* a is the file of the call c, with each of its types once
FileOf(c, a) ==
  /\ a.body \in Seq(Entries) /\ Len(a.body) >= Cardinality(Faulty(c))
  /\ Once(File!TypesOf(ErrorsOf(a.body, c)), Faulty(c))
  /\ \A k \in DOMAIN ErrorsOf(a.body, c) : ErrorsOf(a.body, c)[k].line = "error"
  /\ Once(File!TypesOf(LinesOf(a.body, c)), {t \in Named(c) : Declaration(t).line # "none"})
  /\ File!InOrder(File!TypesOf(LinesOf(a.body, c)))
  /\ \A k \in DOMAIN LinesOf(a.body, c) : IsDeclared(LinesOf(a.body, c)[k])
  /\ Once(a.todo, {t \in Named(c) : Declaration(t).todo}) /\ File!InOrder(a.todo)
  /\ a.imports = UNION {Declaration(t).imports : t \in Named(c)}
  /\ a.first_err = IF Faulty(c) = {} THEN {} ELSE {a.body[1].type}

\* what AsProtobufFull2 has when all is declared
LEMMA AllDeclared ==
  ASSUME NEW c \in Calls, Declaring(c), Written(c), ordered = {}, body \in Seq(Entries),
         NEW a, a.todo = headers, a.imports = imported, a.body = body, a.first_err = first_err
  PROVE  FileOf(c, a) /\ ~File!MayPanic(c)
<1>1. Done(c) = Named(c)
  BY DEF Done
<1>2. ~File!MayPanic(c)
  BY <1>1 DEF Declaring, File!MayPanic, File!NameSuffices
<1>3. Shown(c) = {t \in Named(c) : Declaration(t).line # "none"} /\ ToDo(c) = {t \in Named(c) : Declaration(t).todo}
  BY <1>1 DEF Shown, ToDo
<1> QED
  BY <1>1, <1>2, <1>3 DEF FileOf, Written, ErrorsFirst, LinesNext, Header

\* That is the file that is promised.
LEMMA IsTheFile ==
  ASSUME NEW c \in Calls, NEW a, FileOf(c, a), ~File!MayPanic(c)
  PROVE  File!IsFile(c, a)
<1> DEFINE types == {t \in Named(c) : Declaration(t).line # "none"}
<1>1. \A t \in Named(c) : File!LineOf(t) = Declaration(t).line
  BY DEF File!MayPanic, File!LineOf
<1>2. File!Faulty(c) = Faulty(c) /\ {t \in Named(c) : File!LineOf(t) # "none"} = types
  BY <1>1 DEF Faulty, File!Faulty
<1>3. File!Errors(c, a) = ErrorsOf(a.body, c) /\ File!Lines(c, a) = LinesOf(a.body, c)
  BY <1>2, SameCardinality DEF File!Errors, File!Lines, ErrorsOf, LinesOf
<1> DEFINE l == LinesOf(a.body, c)
<1>4. \A k \in DOMAIN l : l[k].line = File!LineOf(l[k].type)
  <2> SUFFICES ASSUME NEW k \in DOMAIN l PROVE l[k].line = File!LineOf(l[k].type)
    OBVIOUS
  <2>1. Once(File!TypesOf(l), types) /\ IsDeclared(l[k])
    BY DEF FileOf
  <2>2. l[k].type \in types
    <3>1. k \in DOMAIN File!TypesOf(l) /\ File!TypesOf(l)[k] = l[k].type
      BY DEF File!TypesOf
    <3> QED
      BY <2>1, <3>1 DEF Once
  <2> QED
    BY <1>1, <2>1, <2>2 DEF IsDeclared
<1> HIDE DEF types
<1>5. File!Lists(File!TypesOf(File!Errors(c, a)), Faulty(c)) /\ \A k \in DOMAIN File!Errors(c, a) : File!Errors(c, a)[k].line = "error"
  BY <1>3, OnceLists DEF FileOf
<1>6. File!Lists(File!TypesOf(l), types) /\ File!InOrder(File!TypesOf(l))
  BY OnceLists DEF FileOf, types
<1> HIDE DEF l
<1>7. File!Lists(a.todo, {t \in Named(c) : Declaration(t).todo}) /\ File!InOrder(a.todo)
  BY OnceLists DEF FileOf
<1>8. a.imports = UNION {Declaration(t).imports : t \in Named(c)} /\ a.first_err = IF Faulty(c) = {} THEN {} ELSE {a.body[1].type}
  BY DEF FileOf
<1>9. File!Lines(c, a) = l
  BY <1>3 DEF l
<1> QED
  BY <1>2, <1>4, <1>5, <1>6, <1>7, <1>8, <1>9 DEF File!IsFile

\* what the client is given for the call c
Given(c, a) ==
  IF File!MayPanic(c) THEN a = [panics |-> TRUE, todo |-> <<>>, imports |-> {}, body |-> <<>>, first_err |-> {}]
  ELSE /\ a = [panics |-> FALSE, todo |-> a.todo, imports |-> a.imports, body |-> a.body, first_err |-> a.first_err]
       /\ FileOf(c, a)

LEMMA GivenAnswers ==
  ASSUME NEW c \in Calls, NEW a, Given(c, a)
  PROVE  File!IsAnswer(c, a)
<1>1. CASE File!MayPanic(c)
  BY <1>1 DEF Given, File!IsAnswer
<1>2. CASE ~File!MayPanic(c)
  <2>1. a.panics = FALSE /\ FileOf(c, a)
    <3>1. a = [panics |-> FALSE, todo |-> a.todo, imports |-> a.imports, body |-> a.body, first_err |-> a.first_err]
      BY <1>2 DEF Given
    <3> QED
      BY <1>2, <3>1 DEF Given
  <2> QED
    BY <1>2, <2>1, IsTheFile DEF File!IsAnswer
<1> QED
  BY <1>1, <1>2

\* Each call ends with what it is to be given.
LEMMA ReturnGives ==
  ASSUME IInv, Return
  PROVE  \E a : answer' = {a} /\ Given(call, a)
<1> DEFINE a == [panics |-> FALSE, todo |-> headers, imports |-> imported, body |-> body, first_err |-> first_err]
<1>1. phase = "declare" /\ ordered = {} /\ phase' = "returned" /\ UNCHANGED <<call, headers, imported, body, first_err>>
  BY DEF Return
<1>2. call \in Calls /\ Declaring(call) /\ Written(call) /\ body \in Seq(Entries)
  BY <1>1 DEF IInv, AfterSearch
<1>3. answer' = {a}
  BY <1>1 DEF answer
<1>4. FileOf(call, a) /\ ~File!MayPanic(call)
  <2>1. a.todo = headers /\ a.imports = imported /\ a.body = body /\ a.first_err = first_err
    OBVIOUS
  <2> HIDE DEF a
  <2> QED
    BY <1>1, <1>2, <2>1, AllDeclared
<1>5. Given(call, a)
  BY <1>4 DEF Given
<1> QED
  BY <1>3, <1>5

LEMMA PanicGives ==
  ASSUME IInv, CannotDeclare
  PROVE  \E a : answer' = {a} /\ Given(call, a)
<1> DEFINE a == [panics |-> TRUE, todo |-> <<>>, imports |-> {}, body |-> <<>>, first_err |-> {}]
<1>1. phase = "declare" /\ phase' = "panicked"
  BY DEF CannotDeclare
<1>2. Declaring(call) /\ answer' = {a}
  BY <1>1 DEF IInv, AfterSearch, answer
<1>3. PICK t \in ordered : Declaration(t).line = "panic"
  BY DEF CannotDeclare
<1>4. File!MayPanic(call)
  BY <1>2, <1>3 DEF Declaring, File!MayPanic, File!NameSuffices
<1>5. Given(call, a)
  BY <1>4 DEF Given
<1> QED
  BY <1>2, <1>5

LEMMA EndAnswers ==
  ASSUME IInv, Return \/ CannotDeclare
  PROVE  File!Return
<1>1. phase = "declare" /\ UNCHANGED call
  BY DEF Return, CannotDeclare
<1>2. call \in Calls /\ answer = {}
  BY <1>1 DEF IInv, AfterSearch, answer
<1>3. PICK a : answer' = {a} /\ Given(call, a)
  BY ReturnGives, PanicGives
<1>4. File!IsAnswer(call, a) /\ call # NoCall
  BY <1>2, <1>3, GivenAnswers, CallFacts
<1> QED
  BY <1>1, <1>2, <1>3, <1>4 DEF File!Return

\* ProtoFiles implements ProtoFile: whatever the structs, the arguments and the order in which the types
\* come out of the map, AsProtobufFull2 returns each type that is reached once, in the order of the names,
\* with its imports, after the errors of the arguments.  It panics only if one of the types is no struct
\* and has an AsProtobuf3 that gives no definition.
THEOREM Refinement == Spec => Implements
<1>1. Init => File!Init
  BY DEF Init, File!Init, answer
<1>2. IInv /\ [Next]_vars => [File!Next]_(File!vars)
  <2> SUFFICES ASSUME IInv, [Next]_vars PROVE [File!Next]_(File!vars)
    OBVIOUS
  <2>1. CASE Call
    <3>1. call = NoCall
      BY <2>1 DEF IInv, Idle, Call
    <3>2. call' \in Calls /\ answer = {} /\ answer' = {}
      BY <2>1 DEF Call, answer
    <3> QED
      BY <3>1, <3>2 DEF File!Next, File!Call
  <2>2. CASE Discover
    BY <2>2 DEF Discover, answer, File!vars
  <2>3. CASE Sort
    BY <2>3 DEF Sort, answer, File!vars
  <2>4. CASE Declare
    BY <2>4 DEF Declare, answer, File!vars
  <2>5. CASE CannotDeclare
    BY <2>5, EndAnswers DEF File!Next
  <2>6. CASE Return
    BY <2>6, EndAnswers DEF File!Next
  <2>7. CASE Leave
    BY <2>7 DEF Leave, answer, File!Next, File!Leave
  <2>8. CASE UNCHANGED vars
    BY <2>8 DEF vars, answer, File!vars
  <2> QED
    BY <2>1, <2>2, <2>3, <2>4, <2>5, <2>6, <2>7, <2>8 DEF Next
<1> QED
  BY <1>1, <1>2, Invariant, PTL DEF Spec, Implements, File!Spec

-----------------------------------------------------------------------------
(* one file for each call *)

\* A set has one sequence in the order of the names, if these tell its elements apart.
LEMMA OneOrder ==
  ASSUME NEW S, \A x \in S : Rank(x.name) \in Nat,
         \A x, y \in S : x # y => Rank(x.name) # Rank(y.name),
         NEW s, Once(s, S), File!InOrder(s), NEW t, Once(t, S), File!InOrder(t)
  PROVE  s = t
<1>1. Len(s) \in Nat /\ DOMAIN s = 1..Len(s) /\ Len(t) \in Nat /\ DOMAIN t = 1..Len(t)
  BY DEF Once
<1>2. Len(s) = Len(t)
  BY OnceLists DEF File!Lists
<1>3. /\ \A k \in 1..Len(s) : s[k] \in S /\ t[k] \in S
      /\ \A x \in S : (\E k \in 1..Len(s) : s[k] = x) /\ (\E k \in 1..Len(s) : t[k] = x)
      /\ \A j, k \in 1..Len(s) : (s[j] = s[k] => j = k) /\ (t[j] = t[k] => j = k)
  BY <1>1, <1>2 DEF Once
<1>4. \A j, k \in 1..Len(s) : j < k => Rank(s[j].name) <= Rank(s[k].name) /\ Rank(t[j].name) <= Rank(t[k].name)
  BY <1>1, <1>2 DEF File!InOrder
<1> DEFINE P == {n \in Nat : \A k \in 1..Len(s) : k <= n => s[k] = t[k]}
<1>5. 0 \in P
  BY <1>1
<1>6. ASSUME NEW n \in Nat, n \in P PROVE n + 1 \in P
  <2> SUFFICES ASSUME n + 1 \in 1..Len(s) PROVE s[n + 1] = t[n + 1]
    BY <1>1, <1>6
  <2> DEFINE x == s[n + 1]
             y == t[n + 1]
  <2>1. x \in S /\ y \in S
    BY <1>3
  <2>2. PICK j \in 1..Len(s) : t[j] = x
    BY <1>3, <2>1
  <2>3. PICK k \in 1..Len(s) : s[k] = y
    BY <1>3, <2>1
  <2>4. j >= n + 1 /\ k >= n + 1
    <3>1. \A i \in 1..Len(s) : i <= n => s[i] = t[i]
      BY <1>6
    <3>2. ASSUME j <= n PROVE FALSE
      <4>1. s[j] = s[n + 1]
        BY <2>2, <3>1, <3>2
      <4>2. j = n + 1
        BY <1>3, <4>1
      <4> QED
        BY <3>2, <4>2
    <3>3. ASSUME k <= n PROVE FALSE
      <4>1. t[k] = t[n + 1]
        BY <2>3, <3>1, <3>3
      <4>2. k = n + 1
        BY <1>3, <4>1
      <4> QED
        BY <3>3, <4>2
    <3> QED
      BY <1>1, <3>2, <3>3
  <2>5. Rank(y.name) <= Rank(x.name) /\ Rank(x.name) <= Rank(y.name)
    <3>1. j = n + 1 \/ n + 1 < j
      BY <1>1, <2>4
    <3>2. k = n + 1 \/ n + 1 < k
      BY <1>1, <2>4
    <3>3. Rank(x.name) \in Nat /\ Rank(y.name) \in Nat
      BY <2>1
    <3>4. Rank(y.name) <= Rank(x.name)
      BY <1>4, <2>2, <3>1, <3>3
    <3>5. Rank(x.name) <= Rank(y.name)
      BY <1>4, <2>3, <3>2, <3>3
    <3> QED
      BY <3>4, <3>5
  <2>6. Rank(x.name) = Rank(y.name)
    <3>1. Rank(x.name) \in Nat /\ Rank(y.name) \in Nat
      BY <2>1
    <3> HIDE DEF x, y
    <3> QED
      BY <2>5, <3>1
  <2> QED
    BY <2>1, <2>6
<1> HIDE DEF P
<1>7. Nat \subseteq P
  BY <1>5, <1>6, SetInduction
<1>8. \A k \in 1..Len(s) : s[k] = t[k]
  BY <1>1, <1>7 DEF P
<1>9. s \in Seq(TypesSeen) /\ t \in Seq(TypesSeen)
  BY DEF Once
<1> QED
  BY <1>1, <1>2, <1>8, <1>9

\* the lines of a body are entries
LEMMA PartsOf ==
  ASSUME NEW c \in Calls, NEW b \in Seq(Entries), Len(b) >= Cardinality(Faulty(c))
  PROVE  /\ Len(ErrorsOf(b, c)) = Cardinality(Faulty(c)) /\ ErrorsOf(b, c) \in Seq(Entries)
         /\ LinesOf(b, c) \in Seq(Entries) /\ Len(LinesOf(b, c)) = Len(b) - Cardinality(Faulty(c))
         /\ \A k \in 1..Cardinality(Faulty(c)) : b[k] = ErrorsOf(b, c)[k]
         /\ \A k \in (Cardinality(Faulty(c)) + 1)..Len(b) : b[k] = LinesOf(b, c)[k - Cardinality(Faulty(c))]
<1> DEFINE n == Cardinality(Faulty(c))
<1>1. n \in Nat /\ Len(b) \in Nat /\ n <= Len(b)
  BY CallFacts
<1> HIDE DEF n
<1>2. SubSeq(b, 1, n) \in Seq(Entries) /\ Len(SubSeq(b, 1, n)) = n /\ \A k \in 1..n : SubSeq(b, 1, n)[k] = b[k]
  BY <1>1
<1>3. /\ SubSeq(b, n + 1, Len(b)) \in Seq(Entries) /\ Len(SubSeq(b, n + 1, Len(b))) = Len(b) - n
      /\ \A k \in (n + 1)..Len(b) : SubSeq(b, n + 1, Len(b))[k - n] = b[k]
  BY <1>1
<1> QED
  BY <1>2, <1>3 DEF n, ErrorsOf, LinesOf

\* entries with the same types in the same order, and lines that these determine
LEMMA SameEntries ==
  ASSUME NEW s \in Seq(Entries), NEW t \in Seq(Entries), File!TypesOf(s) = File!TypesOf(t),
         \A j \in DOMAIN s, k \in DOMAIN t : s[j].type = t[k].type => s[j].line = t[k].line
  PROVE  s = t
<1>1. DOMAIN s = DOMAIN t
  <2>1. DOMAIN File!TypesOf(s) = DOMAIN s /\ DOMAIN File!TypesOf(t) = DOMAIN t
    BY DEF File!TypesOf
  <2> QED
    BY <2>1
<1>2. ASSUME NEW k \in DOMAIN s PROVE s[k] = t[k]
  <2>1. s[k].type = t[k].type
    <3>1. File!TypesOf(s)[k] = s[k].type /\ File!TypesOf(t)[k] = t[k].type
      BY <1>1 DEF File!TypesOf
    <3> QED
      BY <3>1
  <2>2. s[k].line = t[k].line
    BY <1>1, <2>1
  <2>3. s[k] \in Entries /\ t[k] \in Entries
    BY <1>1
  <2> QED
    BY <2>1, <2>2, <2>3 DEF Entries
<1> QED
  BY <1>1, <1>2

\* names that are compared
LEMMA NamesRanked ==
  ASSUME NEW c \in Calls, NEW t \in Named(c)
  PROVE  Rank(t.name) \in Nat
<1>1. t \in TypesSeen /\ t.name # ""
  BY ReachedFacts DEF Named
<1>2. CASE t \in Structs
  BY <1>1, <1>2, RankAssumption
<1>3. CASE t \notin Structs
  <2>1. PICK p \in UNION {Props[s] : s \in Structs} : t \in p.stype
    BY <1>1, <1>3 DEF TypesSeen
  <2>2. PICK s \in Structs : p \in Props[s]
    BY <2>1
  <2>3. t \in {s} \cup UNION {q.stype : q \in Props[s]}
    BY <2>1, <2>2
  <2> QED
    BY <1>1, <2>3, RankAssumption
<1> QED
  BY <1>2, <1>3

\* Two files of one call that ProtoFile gives an order are one file.
LEMMA OneFile ==
  ASSUME NEW c \in Calls, ~File!Unordered(c), NEW a, FileOf(c, a), NEW b, FileOf(c, b)
  PROVE  a.todo = b.todo /\ a.imports = b.imports /\ a.body = b.body /\ a.first_err = b.first_err
<1>1. \A s, t \in Named(c) : s # t => Rank(s.name) # Rank(t.name)
  BY DEF File!Unordered
<1>2. \A s, t \in Faulty(c) : s = t
  BY DEF File!Unordered, File!Faulty, Faulty
<1>3. a.todo = b.todo
  <2> DEFINE S == {t \in Named(c) : Declaration(t).todo}
  <2>1. Once(a.todo, S) /\ File!InOrder(a.todo) /\ Once(b.todo, S) /\ File!InOrder(b.todo)
    BY DEF FileOf
  <2>2. /\ \A x \in S : Rank(x.name) \in Nat
        /\ \A x, y \in S : x # y => Rank(x.name) # Rank(y.name)
    BY <1>1, NamesRanked
  <2> HIDE DEF S
  <2> QED
    BY <2>1, <2>2, OneOrder
<1>4. /\ a.body \in Seq(Entries) /\ Len(a.body) >= Cardinality(Faulty(c))
      /\ b.body \in Seq(Entries) /\ Len(b.body) >= Cardinality(Faulty(c))
  BY DEF FileOf
<1>5. ErrorsOf(a.body, c) = ErrorsOf(b.body, c)
  <2> DEFINE s == ErrorsOf(a.body, c)
             t == ErrorsOf(b.body, c)
  <2>1. s \in Seq(Entries) /\ t \in Seq(Entries) /\ Len(s) = Len(t)
    BY <1>4, PartsOf
  <2>2. /\ Once(File!TypesOf(s), Faulty(c)) /\ \A k \in DOMAIN s : s[k].line = "error"
        /\ Once(File!TypesOf(t), Faulty(c)) /\ \A k \in DOMAIN t : t[k].line = "error"
    BY DEF FileOf
  <2> HIDE DEF s, t
  <2>3. File!TypesOf(s) = File!TypesOf(t)
    <3>1. DOMAIN s = DOMAIN t
      BY <2>1
    <3>2. \A k \in DOMAIN s : s[k].type \in Faulty(c) /\ t[k].type \in Faulty(c)
      BY <2>2, <3>1 DEF Once, File!TypesOf
    <3> QED
      BY <1>2, <3>1, <3>2 DEF File!TypesOf
  <2>4. \A j \in DOMAIN s, k \in DOMAIN t : s[j].line = t[k].line
    BY <2>2
  <2>5. s = t
    BY <2>1, <2>3, <2>4, SameEntries
  <2> QED
    BY <2>5 DEF s, t
<1>6. LinesOf(a.body, c) = LinesOf(b.body, c)
  <2> DEFINE s == LinesOf(a.body, c)
             t == LinesOf(b.body, c)
             S == {x \in Named(c) : Declaration(x).line # "none"}
  <2>1. s \in Seq(Entries) /\ t \in Seq(Entries)
    BY <1>4, PartsOf
  <2>2. /\ Once(File!TypesOf(s), S) /\ File!InOrder(File!TypesOf(s)) /\ \A k \in DOMAIN s : IsDeclared(s[k])
        /\ Once(File!TypesOf(t), S) /\ File!InOrder(File!TypesOf(t)) /\ \A k \in DOMAIN t : IsDeclared(t[k])
    BY DEF FileOf
  <2>3. /\ \A x \in S : Rank(x.name) \in Nat
        /\ \A x, y \in S : x # y => Rank(x.name) # Rank(y.name)
    BY <1>1, NamesRanked
  <2> HIDE DEF s, t, S
  <2>4. File!TypesOf(s) = File!TypesOf(t)
    BY <2>2, <2>3, OneOrder
  <2>5. \A j \in DOMAIN s, k \in DOMAIN t : s[j].type = t[k].type => s[j].line = t[k].line
    BY <2>2 DEF IsDeclared
  <2>6. s = t
    BY <2>1, <2>4, <2>5, SameEntries
  <2> QED
    BY <2>6 DEF s, t
<1>7. a.body = b.body
  <2> DEFINE n == Cardinality(Faulty(c))
             s == a.body
             t == b.body
  <2>1. n \in Nat /\ s \in Seq(Entries) /\ t \in Seq(Entries) /\ Len(s) - n = Len(t) - n
    BY <1>4, <1>6, PartsOf, CallFacts
  <2>2. \A k \in 1..n : s[k] = t[k]
    BY <1>4, <1>5, PartsOf
  <2>3. Len(s) = Len(t)
    <3> HIDE DEF n, s, t
    <3> QED
      BY <2>1
  <2>4. \A k \in (n + 1)..Len(s) : s[k] = t[k]
    <3>1. \A k \in (n + 1)..Len(s) : s[k] = LinesOf(s, c)[k - n]
      BY <1>4, PartsOf
    <3>2. \A k \in (n + 1)..Len(t) : t[k] = LinesOf(t, c)[k - n]
      BY <1>4, PartsOf
    <3> HIDE DEF n
    <3> QED
      BY <1>6, <2>3, <3>1, <3>2
  <2> HIDE DEF n, s, t
  <2>5. \A k \in 1..Len(s) : s[k] = t[k]
    BY <2>1, <2>2, <2>4
  <2>6. s = t
    BY <2>1, <2>3, <2>5
  <2> QED
    BY <2>6 DEF s, t
<1> QED
  BY <1>3, <1>7 DEF FileOf

LEMMA OneAnswer ==
  ASSUME NEW c \in Calls, ~File!Unordered(c), NEW a, Given(c, a), NEW b, Given(c, b)
  PROVE  a = b
<1>1. CASE File!MayPanic(c)
  BY <1>1 DEF Given
<1>2. CASE ~File!MayPanic(c)
  <2>1. a.todo = b.todo /\ a.imports = b.imports /\ a.body = b.body /\ a.first_err = b.first_err
    BY <1>2, OneFile DEF Given
  <2> QED
    BY <1>2, <2>1 DEF Given
<1> QED
  BY <1>1, <1>2

Ended == phase \in {"returned", "panicked"}

\* What the client has of this call, and what it remembers of the one before, is what they are to be given.
RInv ==
  /\ IInv
  /\ Ended => \E a : answer = {a} /\ Given(call, a)
  /\ \A e \in earlier : (phase # "idle" => e.call = call) /\ \E a : e.answer = {a} /\ Given(e.call, a)

LEMMA RunsKeep == RInv /\ [RunsNext]_runs => RInv'
<1> SUFFICES ASSUME RInv, [RunsNext]_runs PROVE RInv'
  OBVIOUS
<1>1. IInv'
  BY StepKeeps DEF RInv, RunsNext, CallAgain, Work, Remember, runs, vars, Next
<1>2. CASE CallAgain
  <2>1. phase' = "discover" /\ earlier' = earlier /\ \A e \in earlier : call' = e.call
    BY <1>2 DEF CallAgain, Call
  <2> QED
    BY <1>1, <2>1 DEF RInv, Ended
<1>3. CASE Work
  <2>1. earlier' = earlier /\ call' = call /\ phase # "idle"
    BY <1>3 DEF Work, Discover, Sort, Declare, CannotDeclare, Return
  <2>2. ASSUME Ended' PROVE Return \/ CannotDeclare
    BY <1>3, <2>2 DEF Work, Discover, Sort, Declare, Ended
  <2>3. Ended' => (\E a : answer' = {a} /\ Given(call, a))
    BY <2>2, ReturnGives, PanicGives DEF RInv
  <2> QED
    BY <1>1, <2>1, <2>3 DEF RInv
<1>4. CASE Remember
  <2>1. Ended /\ phase' = "idle"
    BY <1>4 DEF Remember, Leave, Ended
  <2>2. PICK a : answer = {a} /\ Given(call, a)
    BY <2>1 DEF RInv
  <2>3. \A e \in earlier' : e.call = call /\ e.answer = {a}
    BY <1>4, <2>2 DEF Remember
  <2> QED
    BY <1>1, <2>1, <2>2, <2>3 DEF RInv, Ended
<1>5. CASE UNCHANGED runs
  <2>1. earlier' = earlier /\ call' = call /\ phase' = phase /\ answer' = answer
    BY <1>5 DEF runs, vars, answer
  <2> QED
    BY <1>1, <2>1 DEF RInv, Ended
<1> QED
  BY <1>2, <1>3, <1>4, <1>5 DEF RunsNext

LEMMA RunsAgree == RInv => SameAnswer
<1> SUFFICES ASSUME RInv, answer # {}, NEW e \in earlier, ~File!Unordered(call) PROVE answer = e.answer
  BY DEF SameAnswer, SameFile
<1>1. Ended
  BY DEF answer, Ended
<1>2. PICK a : answer = {a} /\ Given(call, a)
  BY <1>1 DEF RInv
<1>3. e.call = call /\ call \in Calls
  BY <1>1 DEF RInv, IInv, Ended
<1>4. PICK b : e.answer = {b} /\ Given(call, b)
  BY <1>3 DEF RInv
<1> QED
  BY <1>2, <1>3, <1>4, OneAnswer

\* The output is consistent from run to run: whatever the structs, the arguments and the order in which
\* maps give types, the same call of AsProtobufFull2 has the same answer again, unless two of its types
\* share a name or two of its arguments are in error.
THEOREM Consistent == RunsSpec => []SameAnswer
<1>1. RunsInit => RInv
  BY StartsWith DEF RunsInit, RInv, Init, Ended
<1> QED
  BY <1>1, RunsKeep, RunsAgree, PTL DEF RunsSpec
=============================================================================
