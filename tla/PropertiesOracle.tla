--------------------------- MODULE PropertiesOracle ---------------------------
(***************************************************************************)
(* What GetProperties promises (abstract specification of PropertiesCache).*)
(* The properties of a struct type are a function of the program's type    *)
(* declarations alone: the same for every goroutine, whatever was asked    *)
(* before and in whatever order, complete down to the last type reached,   *)
(* and an error exactly when a declaration it depends on is broken.        *)
(* There is no cache, no lock and no type under construction here.         *)
(***************************************************************************)
EXTENDS Naturals, Sequences, FiniteSets

CONSTANTS Procs, Structs, TimeType

VARIABLES
  decl,  \* the fields of every struct type, fixed when the program is compiled
  call   \* per goroutine: whether it waits for an answer, for what type, and the last answer

Failure == {}  \* the answer for a type that has an error

-----------------------------------------------------------------------------
(* the meaning of a set of declarations *)

\* the positions in type t of the fields of kind k
At(t, k) == {i \in 1..Len(decl[t]) : decl[t][i].kind = k}

TimeLeaf == [tag |-> 0, offset |-> <<>>, to |-> <<>>]
OwnLeaf(t, i) == [tag |-> decl[t][i].tag, offset |-> <<i>>, to |-> decl[t][i].to]

\* every field of the message of type t, its own and those of the types it embeds, with
\* at most n levels of embedding (Go forbids a struct that contains itself)
LeavesTo[n \in 0..Cardinality(Structs)] ==
  [t \in Structs |->
     IF t = TimeType THEN {TimeLeaf}
     ELSE {OwnLeaf(t, i) : i \in At(t, "field")} \cup
          (IF n = 0 THEN {}
           ELSE UNION {{[e EXCEPT !.offset = <<i>> \o @] : e \in LeavesTo[n - 1][decl[t][i].to[1]]}
                         : i \in At(t, "embedded")})]

Leaves(t) == LeavesTo[Cardinality(Structs)][t]

ReservedBy(t) == UNION {decl[t][i].ids : i \in At(t, "reserved")}

\* two fields with one tag, a field with tag 0 or with a reserved one
TagClash(t) ==
  \/ \E e, f \in Leaves(t) : e # f /\ e.tag = f.tag
  \/ \E e \in Leaves(t) : e.tag = 0 \/ e.tag \in ReservedBy(t)

Broken(t) ==
  /\ t # TimeType
  /\ \/ \E i \in 1..Len(decl[t]) : ~decl[t][i].ok
     \/ TagClash(t)

\* the types that come with t: itself and whatever NextOf leads to
Closure(t, NextOf(_)) ==
  LET Round[n \in Nat] ==
        IF n = 0 THEN {t} ELSE LET S == Round[n - 1] IN S \cup UNION {NextOf(s) : s \in S}
  IN  Round[Cardinality(Structs)]

Mentions(t)  == UNION {{decl[t][i].to[j] : j \in 1..Len(decl[t][i].to)} : i \in 1..Len(decl[t])}
PointsTo(t)  == UNION {{e.to[j] : j \in 1..Len(e.to)} : e \in Leaves(t)}

Reach(t) == Closure(t, Mentions)
Valid(t) == \A u \in Reach(t) : ~Broken(u)

\* fields in tag order; unique when there is no clash
InTagOrder(S) ==
  CHOOSE s \in [1..Cardinality(S) -> S] : \A j \in 1..Cardinality(S) : \A i \in 1..(j - 1) : s[i].tag < s[j].tag

Description(t) ==
  [type |-> t, props |-> InTagOrder(Leaves(t)),
   reserved |-> IF t = TimeType THEN {} ELSE ReservedBy(t)]

\* the whole answer: the description of t and of every type its fields lead to
Describe(t) == IF Valid(t) THEN {Description(u) : u \in Closure(t, PointsTo)} ELSE Failure

-----------------------------------------------------------------------------
(* the service *)

\* any declarations: the promise is made to every program
Init ==
  call = [p \in Procs |-> [waiting |-> FALSE, type |-> TimeType, answer |-> Failure]]

Ask(p) ==
  /\ ~call[p].waiting
  /\ \E t \in Structs :
       call' = [call EXCEPT ![p] = [waiting |-> TRUE, type |-> t, answer |-> Failure]]
  /\ UNCHANGED decl

Reply(p) ==
  /\ call[p].waiting
  /\ call' = [call EXCEPT ![p].waiting = FALSE, ![p].answer = Describe(call[p].type)]
  /\ UNCHANGED decl

Next == \E p \in Procs : Ask(p) \/ Reply(p)

SafeSpec == Init /\ [][Next]_<<decl, call>>

Spec == SafeSpec /\ \A p \in Procs : WF_<<decl, call>>(Reply(p))
=============================================================================
