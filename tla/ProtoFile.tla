-------------------------------- MODULE ProtoFile --------------------------------
(***************************************************************************)
(* What AsProtobufFull promises: "the type expressed in protobuf v3        *)
(* format, including all dependent types and imports", once for each type  *)
(* that is reached from the arguments, in the order of their names, however*)
(* the types were found, but for the exceptions below.  One step answers a *)
(* call.                                                                   *)
(***************************************************************************)
EXTENDS Naturals, Sequences, FiniteSets

CONSTANTS
  Calls,           \* the arguments: first the one that names the package, and the set of the others
  NoCall,          \* none of them
  Arguments(_),    \* the types that a call starts from
  Named(_),        \* the types with a name that it reaches
  Broken,          \* the types in error
  Declaration(_),  \* what a file says of a type
  Rank(_)          \* the place of a name in the order of names

VARIABLES
  call,   \* the arguments of the call
  answer  \* the empty set until it returns

vars == <<call, answer>>

Init == call = NoCall /\ answer = {}

\* s has each of S once
Lists(s, S) == Len(s) = Cardinality(S) /\ {s[k] : k \in DOMAIN s} = S

TypesOf(body) == [k \in DOMAIN body |-> body[k].type]

\* The errors of the arguments come first, and then the types, one of them an error again.
Faulty(c)    == Arguments(c) \cap Broken
Errors(c, a) == SubSeq(a.body, 1, Cardinality(Faulty(c)))
Lines(c, a)  == SubSeq(a.body, Cardinality(Faulty(c)) + 1, Len(a.body))

\* A type whose AsProtobuf3 gives no definition needs none, if it is no struct: its name is sufficient.
NameSuffices(t) == Declaration(t).line = "panic"
LineOf(t)       == IF NameSuffices(t) THEN "none" ELSE Declaration(t).line

InOrder(s) == \A j, k \in DOMAIN s : j < k => Rank(s[j].name) <= Rank(s[k].name)

\* the file that is promised for the call c, of which the names and the errors may leave several
IsFile(c, a) ==
  /\ Lists(TypesOf(Errors(c, a)), Faulty(c)) /\ \A k \in DOMAIN Errors(c, a) : Errors(c, a)[k].line = "error"
  /\ Lists(TypesOf(Lines(c, a)), {t \in Named(c) : LineOf(t) # "none"}) /\ InOrder(TypesOf(Lines(c, a)))
  /\ \A k \in DOMAIN Lines(c, a) : Lines(c, a)[k].line = LineOf(Lines(c, a)[k].type)
  /\ Lists(a.todo, {t \in Named(c) : Declaration(t).todo}) /\ InOrder(a.todo)
  /\ a.imports = UNION {Declaration(t).imports : t \in Named(c)}
  /\ a.first_err = IF Faulty(c) = {} THEN {} ELSE {a.body[1].type}

(* Where the code does not do what its comments say, and nothing is promised: *)

\* it panics for a type whose name would suffice (properties.go:77),
MayPanic(c) == \E t \in Named(c) : NameSuffices(t)

\* and the file is not "consistent from run to run" (properties.go:369) when types share a name, or
\* several arguments are in error.
Unordered(c) ==
  \/ \E s, t \in Named(c) : s # t /\ Rank(s.name) = Rank(t.name)
  \/ \E s, t \in Faulty(c) : s # t

IsAnswer(c, a) == IF a.panics THEN MayPanic(c) ELSE IsFile(c, a)

Call == /\ call = NoCall
        /\ call' \in Calls
        /\ UNCHANGED answer

Return == /\ call # NoCall /\ answer = {}
          /\ \E a \in answer' : answer' = {a} /\ IsAnswer(call, a)
          /\ UNCHANGED call

Leave == /\ answer # {}
         /\ answer' = {} /\ call' = NoCall

Next == Call \/ Return \/ Leave

Spec == Init /\ [][Next]_vars
=============================================================================
