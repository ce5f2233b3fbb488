------------------------------- MODULE Dependencies -------------------------------
(***************************************************************************)
(* The types that a call of AsProtobufFull is about, from what its comment *)
(* promises ("all dependent types"): the least set that has the arguments  *)
(* and the types of the fields of those that do not speak for themselves.  *)
(***************************************************************************)
EXTENDS Schema

Dereferenced(t) == IF t.kind = "ptr" THEN Elem(t) ELSE t

\* The structs that a call starts from.  Only the first may be behind more than one pointer, here up to three.
Arguments(c) == {Dereferenced(Dereferenced(Dereferenced(c.first)))} \cup {Dereferenced(t) : t \in c.more}

\* Fields lead on to other types from an argument, and from structs that do not speak for themselves.
SpeaksForItself(t) == MarshalsItself(t) \/ isAsProtobuf3er(t) \/ t = Time \/ t.kind # "struct"

Dependents(t) == IF t \in Broken THEN {} ELSE UNION {p.stype : p \in Props[t]}

Walked(c) == Closure(LAMBDA S : Arguments(c) \cup {t \in UNION {Dependents(s) : s \in S} : ~SpeaksForItself(t)})

Reached(c) == Walked(c) \cup UNION {Dependents(t) : t \in Walked(c)}

Named(c) == {t \in Reached(c) : t.name # ""}
=================================================================================
