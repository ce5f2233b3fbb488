--------------------------------- MODULE GoTypes ---------------------------------
(***************************************************************************)
(* Types of Go as reflection shows them to setEncAndDec (properties.go):   *)
(* their kind, name and elements, and which of the interfaces of the       *)
(* package a pointer to one implements.                                    *)
(***************************************************************************)
EXTENDS Integers, Sequences

\* A type.  pkg tells types of one name apart.  marshals says how values marshal themselves, if they
\* do; as3 holds what AsProtobuf3 returns, of types that have it: a name, whether there is a
\* definition, and the imports.
Type(kind, name) ==
  [name |-> name, marshals |-> "no", as3 |-> {}, kind |-> kind, len |-> 0, pkg |-> "", elem |-> <<>>]

Basic(kind)    == Type(kind, kind)
Pointer(t)     == [Type("ptr", "") EXCEPT !.elem = <<t>>]
SliceOf(t)     == [Type("slice", "") EXCEPT !.elem = <<t>>]
ArrayOf(n, t)  == [Type("array", "") EXCEPT !.elem = <<t>>, !.len = n]
MapOf(k, v)    == [Type("map", "") EXCEPT !.elem = <<k, v>>]

Elem(t) == t.elem[Len(t.elem)]
Key(t)  == t.elem[1]

In(pkg, t) == [t EXCEPT !.pkg = pkg]

Time     == In("time", Type("struct", "Time"))
Duration == In("time", Type("int64", "Duration"))

\* isAppender, isMarshaler and isAsProtobuf3er of a pointer to t; a pointer to a pointer has no methods
isAppender(t)      == t.marshals = "Appender"
isMarshaler(t)     == t.marshals = "Marshaler"
isAsProtobuf3er(t) == t.as3 # {}
AsProtobuf3(t)     == CHOOSE a \in t.as3 : TRUE
=============================================================================
