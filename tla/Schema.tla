---------------------------------- MODULE Schema ----------------------------------
(***************************************************************************)
(* The struct types of a program as the .proto generator sees them         *)
(* (properties.go): which of them GetProperties refuses, the types that    *)
(* their fields lead to, and what a .proto file says of one type.          *)
(***************************************************************************)
EXTENDS Codecs, FiniteSets

CONSTANTS
  StructFields,  \* the fields of each struct type, in order
  Rank(_)        \* the place of a name in the order of names

Structs == DOMAIN StructFields

\* The least set that Step adds nothing to, when Step works on sets of structs.
Closure(Step(_)) ==
  LET Round[n \in Nat] == IF n = 0 THEN {} ELSE Step(Round[n - 1])
  IN  Round[Cardinality(Structs) + 1]

FieldsOf(t, bad) == [k \in DOMAIN StructFields[t] |-> init(StructFields[t][k], bad)]

\* a struct is refused for a field, or for an id that two fields have
RefusedWhen(bad, t) ==
  \E fs \in {FieldsOf(t, bad)} :
    \/ \E k \in DOMAIN fs : fs[k].err # None
    \/ \E j, k \in DOMAIN fs : j # k /\ ~fs[j].skip /\ ~fs[k].skip /\ fs[j].tag = fs[k].tag

\* A nested struct in error is an error in the outer one.  What the cache answers of a cycle of
\* structs with an error in it depends on earlier calls (PropertiesCache); StructFields has none.
Broken == Closure(LAMBDA bad : {t \in Structs : RefusedWhen(bad, t)})

\* GetProperties, without its error
Props == [t \in Structs |-> {p \in {FieldsOf(t, Broken)[k] : k \in DOMAIN StructFields[t]} : ~p.skip}]

\* A program has the structs that its structs lead to.  A type marshals itself in one of two ways or not at all.
ASSUME StructsAssumption ==
  /\ IsFiniteSet(Structs)
  /\ \A t \in Structs : t.kind = "struct" /\ t.marshals \in {"no", "Appender", "Marshaler"}
  /\ \A t \in Structs : \A p \in Props[t] : \A s \in p.stype : s.kind = "struct" => s \in Structs

\* Names are compared.
ASSUME RankAssumption ==
  \A t \in Structs : \A s \in {t} \cup UNION {p.stype : p \in Props[t]} : s.name # "" => Rank(s.name) \in Nat

\* what Declare adds to a file for t
Nothing == [imports |-> {}, todo |-> FALSE, line |-> "none"]

\* AsProtobuf of a type
AsProtobuf(t) == IF t \notin Structs THEN "panic" ELSE IF t \in Broken THEN "error" ELSE "message"

\* mutant: the import of durations is forgotten
Declaration_NoDuration(t) ==
  CASE t = Time     -> [Nothing EXCEPT !.imports = {"google/protobuf/timestamp.proto"}]
    [] t = Duration -> Nothing
    [] MarshalsItself(t) \/ isAsProtobuf3er(t) ->
         [imports |-> UNION {a.imports : a \in t.as3}, todo |-> t.as3 = {},
          line |-> IF \E a \in t.as3 : a.definition THEN "definition" ELSE IF MarshalsItself(t) THEN "none" ELSE AsProtobuf(t)]
    [] OTHER -> [Nothing EXCEPT !.line = AsProtobuf(t)]

Declaration(t) ==
  CASE t = Time     -> [Nothing EXCEPT !.imports = {"google/protobuf/timestamp.proto"}]
    [] t = Duration -> [Nothing EXCEPT !.imports = {"google/protobuf/duration.proto"}]
    [] MarshalsItself(t) /\ ~isAsProtobuf3er(t) -> [Nothing EXCEPT !.todo = TRUE]
    [] MarshalsItself(t) /\ isAsProtobuf3er(t) ->
         [Nothing EXCEPT !.imports = AsProtobuf3(t).imports, !.line = IF AsProtobuf3(t).definition THEN "definition" ELSE "none"]
    [] ~MarshalsItself(t) /\ isAsProtobuf3er(t) ->
         [Nothing EXCEPT !.imports = AsProtobuf3(t).imports, !.line = IF AsProtobuf3(t).definition THEN "definition" ELSE AsProtobuf(t)]
    [] OTHER -> [Nothing EXCEPT !.line = AsProtobuf(t)]
=============================================================================
