------------------------------- MODULE MCProtoFiles -------------------------------
(***************************************************************************)
(* Struct types for ProtoFiles: recursive ones, one that is anonymous, two *)
(* of one name, three that are refused, times and durations, and types that*)
(* marshal themselves or say what they are in a .proto file, or both.      *)
(***************************************************************************)
EXTENDS ProtoFilesRuns, TLC

Field(t, wire, id) == [type |-> t, tag |-> Tag(wire, id), key |-> NoProtobufTag, val |-> NoProtobufTag, xxx |-> FALSE]
Nested(t, id)      == Field(t, "bytes", id)
AnInt(id)            == Field(Basic("int32"), "varint", id)
StringMap(v, wire, id) == [Nested(MapOf(Basic("string"), v), id) EXCEPT !.key = Tag("bytes", 1), !.val = Tag(wire, 2)]

As(name, definition, imports) == {[name |-> name, definition |-> definition, imports |-> imports]}

Struct(name) == Type("struct", name)

Leaf      == Struct("Leaf")
OtherLeaf == In("other", Leaf)
Node      == Struct("Node")
Even      == Struct("Even")
Odd       == Struct("Odd")
Outer     == Struct("Outer")
Inner     == In("Outer.Inner", Struct(""))
Mixed     == Struct("Mixed")
Registry  == Struct("Registry")
Catalog   == Struct("Catalog")
Handles   == Struct("Handles")
Bad       == Struct("Bad")
Twice     == Struct("Twice")
Holder    == Struct("Holder")

\* these marshal themselves
Blob   == [Struct("Blob") EXCEPT !.marshals = "Appender"]
Addr   == [Struct("Addr") EXCEPT !.marshals = "Marshaler", !.as3 = As("inet.Addr", FALSE, {"inet.proto"})]
Asset  == [ArrayOf(2, Basic("uint8")) EXCEPT !.name = "Asset", !.marshals = "Marshaler", !.as3 = As("bytes", FALSE, {})]

\* and these have names or definitions of their own
Described == [Struct("Custom") EXCEPT !.as3 = As("Custom", TRUE, {"file1", "file2"})]
Level  == [Type("int32", "Level") EXCEPT !.as3 = As("Level", TRUE, {"file2"})]
Handle == [Type("uint32", "Handle") EXCEPT !.as3 = As("uint32", FALSE, {})]

MCStructFields ==
  Time      :> <<>> @@
  Leaf      :> <<AnInt(1)>> @@
  OtherLeaf :> <<Nested(Basic("string"), 1), Nested(Pointer(Duration), 2)>> @@
  Node      :> <<Nested(Pointer(Node), 1), Nested(SliceOf(Leaf), 2), Nested(Time, 3)>> @@
  Even      :> <<Nested(SliceOf(Pointer(Odd)), 2), AnInt(1)>> @@
  Odd       :> <<Nested(Pointer(Even), 1), Nested(Duration, 3)>> @@
  Inner     :> <<Nested(OtherLeaf, 1), AnInt(2)>> @@
  Outer     :> <<Nested(Inner, 1), StringMap(Basic("int32"), "varint", 2), Nested(ArrayOf(2, Node), 4)>> @@
  Mixed     :> <<Field(Level, "varint", 1), Field(Pointer(Level), "varint", 2), Nested(SliceOf(Blob), 3), Nested(Addr, 4),
                 Nested(SliceOf(Asset), 5), Field(Handle, "varint", 6), Nested(Described, 7), Nested(SliceOf(Pointer(Blob)), 8)>> @@
  Registry  :> <<StringMap(Basic("string"), "bytes", 1)>> @@
  Catalog   :> <<StringMap(Odd, "bytes", 1)>> @@
  Handles   :> <<Field(Pointer(Handle), "varint", 1), Nested(Leaf, 2)>> @@
  Blob      :> <<Nested(Leaf, 1)>> @@
  Addr      :> <<Nested(Pointer(Node), 3)>> @@
  Described    :> <<Nested(Odd, 1)>> @@
  Bad       :> <<Nested(Leaf, 2), Nested(Basic("chan"), 1)>> @@
  Twice     :> <<AnInt(1), Nested(Leaf, 1)>> @@
  Holder    :> <<Nested(Even, 1), Nested(SliceOf(Bad), 2)>>

Names == <<"Addr", "Asset", "Bad", "Blob", "Catalog", "Custom", "Duration", "Even", "Handle", "Handles", "Holder", "Leaf",
           "Level", "Mixed", "Node", "Odd", "Outer", "Registry", "Time", "Twice">>

MCRank(name) == CHOOSE k \in DOMAIN Names : Names[k] = name

\* each type by itself and with one or two others; pointers are types, too
MCCalls ==
  LET pointers == {Pointer(Odd), Pointer(Described)}
      structs  == Structs \ {Time, Inner, Catalog}
      others   == structs \cup pointers
  IN  {[first |-> f, more |-> S] : f \in structs \cup {Inner, Time, Pointer(Pointer(Node))},
                                   S \in {{}} \cup {{a, b} : a, b \in others}}

-----------------------------------------------------------------------------

\* The search for types comes to an end, with recursive types, too.
Answers == (phase = "discover") ~> (phase \in {"returned", "panicked"})

-----------------------------------------------------------------------------
(* the names that a .proto file uses and those that it can use *)

\* the texts that name the types of a field, those of a map or the others
TextsIn(p, maps) ==
  IF p.asProtobuf.label # "map" THEN IF maps THEN {} ELSE {p.asProtobuf.of[k] : k \in DOMAIN p.asProtobuf.of}
  ELSE IF maps THEN UNION {{p.asProtobuf.of[k].of[n] : n \in DOMAIN p.asProtobuf.of[k].of} : k \in 1..2} ELSE {}

Texts(t, maps) == UNION {TextsIn(p, maps) : p \in Props[t]}

\* t and the structs that are declared inside of it
WithInner(t) == Closure(LAMBDA S : {t} \cup UNION {UNION {x.inline : x \in Texts(s, FALSE) \cup Texts(s, TRUE)} : s \in S})

NamesUsed(t, maps) == {x.name : x \in {y \in UNION {Texts(s, maps) : s \in WithInner(t)} : y.inline = {}}}

Builtin == {"int32", "uint32", "string", "bytes"}

NamesFrom(file) ==
  CASE file = "google/protobuf/timestamp.proto" -> {"google.protobuf.Timestamp"}
    [] file = "google/protobuf/duration.proto"  -> {"google.protobuf.Duration"}
    [] file = "inet.proto" -> {"inet.Addr"}
    [] OTHER -> {}

DefinedName(l) == IF l.line = "definition" THEN AsProtobuf3(l.type).name ELSE l.type.name

Available ==
  Builtin \cup UNION {NamesFrom(file) : file \in imported}
          \cup {DefinedName(body[k]) : k \in DOMAIN body} \cup {headers[k].name : k \in DOMAIN headers}

UsesOnlyAvailable(maps) ==
  phase = "returned" => \A k \in DOMAIN body : body[k].line = "message" => NamesUsed(body[k].type, maps) \subseteq Available

\* Each name that a message of the file uses outside of its maps is a type of the language, or is
\* declared in the file or in one that it imports, or a human is told to define it.
Closed == UsesOnlyAvailable(FALSE)

-----------------------------------------------------------------------------
(* "the types we need have all been discovered" (properties.go:368) *)

\* a struct that a map leads to, and a type whose AsProtobuf3 gives no definition
NeedyCalls == {[first |-> Catalog, more |-> {Handles}]}

\* the names that a file can use when t is declared
NamesBy(t) == {t.name} \cup {a.name : a \in t.as3} \cup UNION {NamesFrom(file) : file \in Declaration(t).imports}

\* When a call ends, it has found the types of all names that messages have in their maps, and none that
\* needs no declaration: one whose AsProtobuf3 gives a name and no definition, on which it panics.
AllDiscovered ==
  phase \in {"returned", "panicked"} =>
    /\ \A t \in discovered \cap Structs : NamesUsed(t, TRUE) \subseteq Builtin \cup UNION {NamesBy(s) : s \in discovered}
    /\ \A t \in discovered : t.name # "" => ~File!NameSuffices(t)
=============================================================================
