--------------------------- MODULE MCPropertiesCache ---------------------------
(***************************************************************************)
(* The programs the model checker tries: field lists of three struct types *)
(* drawn from small menus.                                                 *)
(***************************************************************************)
EXTENDS PropertiesRefinement, TLC

CONSTANTS A, B, C, Time, Ptr, p1, p2

\* a tag of its own for every type and position
Tag(t, i) == i + (IF t = A THEN 0 ELSE IF t = B THEN 3 ELSE 6)

Plain(t, i)  == Field(Tag(t, i), <<>>, TRUE)
Bad(t, i)    == Field(Tag(t, i), <<>>, FALSE)
Ref(t, i, u) == Field(Tag(t, i), <<u>>, TRUE)

\* Go rejects a struct that contains itself: only an earlier type embeds a later one
MayEmbed(t) == IF t = A THEN {B, C} ELSE IF t = B THEN {C} ELSE {}

Menu(t, i) == {Plain(t, i), Bad(t, i)} \cup {Ref(t, i, u) : u \in {A, B, C}}
                                       \cup {Embedded(u) : u \in MayEmbed(t)}

Lists(t) == {<<>>} \cup {<<f>> : f \in Menu(t, 1)}
Pairs(t) == {<<f, g>> : f \in Menu(t, 1), g \in Menu(t, 2)}

Program(a, b, c) == (A :> a) @@ (B :> b) @@ (C :> c) @@ (Time :> <<>>)

Leaf == {<<Plain(C, 1)>>, <<Bad(C, 1)>>, <<Ref(C, 1, A)>>}

ManyPrograms == {Program(a, b, c) : a \in {x \in Pairs(A) : x[1].ok}, b \in Lists(B), c \in Leaf}

\* the rarer kinds of field: reserved tags, skipped fields, maps, tags used twice, an
\* embedded time.Time (its only tag is 0) and a wire type that does not fit the message
RareFields ==
  {Skipped, ReservedIds({7, 9}, TRUE), ReservedIds({5}, TRUE), Plain(C, 1), Embedded(Time),
   Field(2, <<B, C>>, TRUE), Field(3, <<C, Time>>, TRUE), Field(2, <<C>>, FALSE)}

RarePrograms ==
  {Program(<<f, g>>, <<Embedded(C), Plain(B, 2)>>, <<ReservedIds({4}, TRUE), Plain(C, 1)>>)
     : f \in RareFields \cup {Embedded(B)}, g \in RareFields}

-----------------------------------------------------------------------------
OrderedPrograms == {d \in ManyPrograms \cup RarePrograms : InOrder(d)}

\* goroutines are interchangeable (for the safety properties)
Symmetry == Permutations(Procs)

-----------------------------------------------------------------------------
(* Fewer programs, for the liveness run: one in order and mutually recursive, one whose    *)
(* errors come from a type it embeds, one with a Reserved field that does not parse and    *)
(* one with an "embedded" field of a pointer type.                                         *)

LivePrograms ==
  {Program(<<Ref(A, 1, B), Embedded(C)>>, <<Ref(B, 1, A)>>, <<Plain(C, 1)>>),
   Program(<<Plain(A, 1), Embedded(B)>>, <<Ref(B, 1, C)>>, <<Bad(C, 1)>>),
   Program(<<Plain(A, 1), ReservedIds({2}, FALSE)>>, <<Ref(B, 1, A)>>, <<Plain(C, 1)>>),
   Program(<<Plain(A, 1), Embedded(Ptr)>>, <<Ref(B, 1, A)>>, <<Plain(C, 1)>>)}

-----------------------------------------------------------------------------
(* A program that breaks a promise of the package, whichever type is asked for first: B  *)
(* and C point to A and A to them, and A has a Reserved field with an id that does not   *)
(* parse after the pointers.                                                             *)

BrokenProgram ==
  {Program(<<Ref(A, 1, B), Ref(A, 2, C), ReservedIds({}, FALSE)>>, <<Ref(B, 1, A)>>, <<Ref(C, 1, A)>>)}
=============================================================================
