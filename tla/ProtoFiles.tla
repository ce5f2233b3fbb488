-------------------------------- MODULE ProtoFiles --------------------------------
(***************************************************************************)
(* AsProtobufFull2 (properties.go) step by step: it takes types from the   *)
(* todo table in the order in which the map happens to give them, puts     *)
(* those of their fields there that are new, and then writes what it has   *)
(* discovered, sorted by name.                                             *)
(***************************************************************************)
EXTENDS Schema

CONSTANT Calls  \* the arguments: the first type, and the set of the others

VARIABLES
  phase,       \* where the call is
  call,        \* its arguments
  todo,        \* types whose fields have not been looked at
  discovered,  \* types that are to be in the file
  ordered,     \* those of them that have a name and are not yet declared
  headers,     \* the types of which the header says that a human has to define them
  imported,    \* the files to import
  body,        \* messages, definitions and errors
  first_err    \* the type that was the first one in error

vars == <<phase, call, todo, discovered, ordered, headers, imported, body, first_err>>

NoCall == [first |-> Basic("none"), more |-> {}]

Init ==
  /\ phase = "idle" /\ call = NoCall
  /\ todo = {} /\ discovered = {} /\ ordered = {}
  /\ headers = <<>> /\ imported = {} /\ body = <<>> /\ first_err = {}

\* mutant: arguments that are pointers stay pointers
Dug_Not(t) == t

\* The first argument is dug out of all pointers, here up to three, and the others out of one.
Dug(t) == IF t.kind = "ptr" THEN Elem(t) ELSE t

\* the arguments are structs, or pointers to them
OrPointers(S) == S \cup {Pointer(t) : t \in S}

ASSUME CallsAssumption ==
  \A c \in Calls : c.first \in OrPointers(OrPointers(OrPointers(Structs))) /\ c.more \subseteq OrPointers(Structs)

Call ==
  /\ phase = "idle"
  /\ \E c \in Calls :
       /\ call' = c
       /\ todo' = {Dug(Dug(Dug(c.first)))} \cup {Dug(t) : t \in c.more}
  /\ phase' = "discover"
  /\ UNCHANGED <<discovered, ordered, headers, imported, body, first_err>>

NoteError(t) ==
  /\ first_err' = IF first_err = {} THEN {t} ELSE first_err
  /\ body' = Append(body, [line |-> "error", type |-> t])

\* types of fields that are in the file, but whose fields are not looked at
IsEndpoint(p, t) == p.custom # "no" \/ isAsProtobuf3er(t) \/ t \in {Time, Duration}

\* mutant: whether a type has been discovered before is not looked at
NewFrom_Again(t, found) == {e \in Props[t] \X UNION {p.stype : p \in Props[t]} : e[2] \in e[1].stype}

\* the types that the fields of t lead to, of which found have been discovered before
NewFrom(t, found) == {e \in Props[t] \X UNION {p.stype : p \in Props[t]} : e[2] \in e[1].stype \ found}

\* a type moves from todo to discovered
Discover ==
  /\ phase = "discover"
  /\ \E t \in todo :
       \/ /\ t \in Broken
          /\ NoteError(t)
          /\ todo' = todo \ {t} /\ discovered' = discovered \cup {t}
       \/ /\ t \notin Broken
          /\ \E new \in {NewFrom(t, discovered \cup {t})} :
               LET ends == {e \in new : IsEndpoint(e[1], e[2])}
               IN  /\ todo' = (todo \ {t}) \cup {e[2] : e \in {n \in new \ ends : n[2].kind = "struct"}}
                   /\ discovered' = discovered \cup {t} \cup {e[2] : e \in ends}
          /\ UNCHANGED <<body, first_err>>
  /\ UNCHANGED <<phase, call, ordered, headers, imported>>

\* anonymous types are declared where they are used
Sort ==
  /\ phase = "discover" /\ todo = {}
  /\ phase' = "declare"
  /\ ordered' = {t \in discovered : t.name # ""}
  /\ UNCHANGED <<call, todo, discovered, headers, imported, body, first_err>>

\* mutant: the types are not sorted
IsNext_Unsorted(t) == t \in ordered

\* mutant: names that begin alike are taken for equal
IsNext_Prefix(t) == \A s \in ordered : Rank(t.name) \div 2 <= Rank(s.name) \div 2

\* sort.Sort leaves types of one name in any order
IsNext(t) == \A s \in ordered : Rank(t.name) <= Rank(s.name)

Declare ==
  /\ phase = "declare"
  /\ \E t \in ordered : \E d \in {Declaration(t)} :
       /\ IsNext(t)
       /\ d.line # "panic"
       /\ ordered' = ordered \ {t}
       /\ headers' = IF d.todo THEN Append(headers, t) ELSE headers
       /\ imported' = imported \cup d.imports
       /\ CASE d.line = "none"  -> UNCHANGED <<body, first_err>>
            [] d.line = "error" -> NoteError(t)
            [] OTHER -> body' = Append(body, [line |-> d.line, type |-> t]) /\ UNCHANGED first_err
  /\ UNCHANGED <<phase, call, todo, discovered>>

\* GetProperties panics unless it is asked for a struct
CannotDeclare ==
  /\ phase = "declare"
  /\ \E t \in ordered : IsNext(t) /\ Declaration(t).line = "panic"
  /\ phase' = "panicked"
  /\ UNCHANGED <<call, todo, discovered, ordered, headers, imported, body, first_err>>

Return ==
  /\ phase = "declare" /\ ordered = {}
  /\ phase' = "returned"
  /\ UNCHANGED <<call, todo, discovered, ordered, headers, imported, body, first_err>>

\* The client has the file, and the variables of the call are gone.
Leave ==
  /\ phase \in {"returned", "panicked"}
  /\ phase' = "idle" /\ call' = NoCall
  /\ todo' = {} /\ discovered' = {} /\ ordered' = {}
  /\ headers' = <<>> /\ imported' = {} /\ body' = <<>> /\ first_err' = {}

Next == Call \/ Discover \/ Sort \/ Declare \/ CannotDeclare \/ Return \/ Leave

Spec == Init /\ [][Next]_vars /\ WF_vars(Discover \/ Sort \/ Declare \/ CannotDeclare \/ Return)

-----------------------------------------------------------------------------

TypesSeen == Structs \cup UNION {p.stype : p \in UNION {Props[t] : t \in Structs}}

TypeOK ==
  /\ phase \in {"idle", "discover", "declare", "returned", "panicked"}
  /\ todo \subseteq Structs
  /\ discovered \subseteq TypesSeen /\ ordered \subseteq discovered
  /\ \A k \in DOMAIN headers : headers[k] \in discovered /\ MarshalsItself(headers[k])
  /\ \A k \in DOMAIN body : body[k].line \in {"message", "definition", "error"} /\ body[k].type \in TypesSeen
  /\ first_err \subseteq Broken /\ Cardinality(first_err) <= 1
=============================================================================
