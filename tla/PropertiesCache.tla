--------------------------- MODULE PropertiesCache ---------------------------
(***************************************************************************)
(* The process-wide cache of struct properties of package protobuf3        *)
(* (properties.go: propertiesMu, propertiesMap, GetProperties,             *)
(* getPropertiesLocked, Properties.init, StructProperties.parseReserved).  *)
(*                                                                         *)
(* Goroutines ask for the properties of a struct type.  A miss takes the   *)
(* write lock and builds the description field by field, recursing into    *)
(* the types of message fields, map keys and values and `embedded' fields. *)
(* A type under construction is already in propertiesMap, so that a        *)
(* recursive type finds itself.  The Go heap is the sequence objs: a       *)
(* *StructProperties is an index of it and nil is 0.                       *)
(*                                                                         *)
(* What the reflect package says of the program's types is `decl', chosen  *)
(* once in Init among TypeGraphs: the cache has to work for all of them.   *)
(***************************************************************************)
EXTENDS Naturals, Sequences, FiniteSets

CONSTANTS
  Procs,       \* the goroutines that call GetProperties
  NoProc,      \* the owner of propertiesMu when no goroutine has it for writing
  Structs,     \* the Go struct types of the program
  NonStructs,  \* types that are not structs (a pointer, an interface)
  TimeType,    \* time.Time, which init() enters into propertiesMap
  TypeGraphs,  \* the programs: each gives every struct type its list of fields
  MaxCalls     \* bound: the calls of GetProperties one goroutine makes

Types == Structs \cup NonStructs

(***************************************************************************)
(* A struct field, as far as its construction tells fields apart.          *)
(*   embedded: tagged "embedded" and anonymous, of type to[1]              *)
(*   reserved: of type Reserved, listing ids; ok iff every id parses       *)
(*   skip:     tagged "-", or an untagged XXX_ field                       *)
(*   field:    any other.  `to' are the struct types Properties.init visits*)
(*             for it (none for a scalar, one for a message, up to two for *)
(*             a map); ok iff its tag parses and its type and wire type    *)
(*             have an encoder and a decoder                               *)
(***************************************************************************)
FieldDecl == [kind : {"embedded", "reserved", "skip", "field"}, tag : Nat,
              to : Seq(Types), ids : SUBSET Nat, ok : BOOLEAN]

Embedded(t)        == [kind |-> "embedded", tag |-> 0, to |-> <<t>>, ids |-> {}, ok |-> TRUE]
ReservedIds(S, ok) == [kind |-> "reserved", tag |-> 0, to |-> <<>>, ids |-> S, ok |-> ok]
Skipped            == [kind |-> "skip", tag |-> 0, to |-> <<>>, ids |-> {}, ok |-> TRUE]
Field(n, ts, ok)   == [kind |-> "field", tag |-> n, to |-> ts, ids |-> {}, ok |-> ok]

ASSUME ProcsAssumption == NoProc \notin Procs
ASSUME TypesAssumption == TimeType \in Structs /\ Structs \cap NonStructs = {} /\ IsFiniteSet(Structs)
ASSUME GraphsAssumption ==
  /\ TypeGraphs \subseteq [Structs -> Seq(FieldDecl)]
  /\ \A d \in TypeGraphs : d[TimeType] = <<>>  \* nobody looks at the fields of time.Time
  /\ \A d \in TypeGraphs, t \in Structs : \A i \in 1..Len(d[t]) :
       /\ d[t][i].kind = "embedded" => Len(d[t][i].to) = 1
       /\ d[t][i].kind \in {"skip", "reserved"} => d[t][i].to = <<>>
       /\ d[t][i].kind \in {"skip", "embedded"} => d[t][i].ok
ASSUME CallsAssumption == MaxCalls \in Nat

VARIABLES
  decl,           \* the fields of every struct type
  propertiesMap,  \* type -> its cached *StructProperties, or Nil
  objs,           \* the StructProperties allocated so far
  muWriter,       \* the goroutine inside propertiesMu.Lock, or waiting for readers to leave
  muReaders,      \* the goroutines that hold propertiesMu for reading
  stack,          \* the activations of getPropertiesLocked, innermost last
  ret,            \* what the innermost call of getPropertiesLocked returned, or Pending
  pc, arg, res,   \* per goroutine: where it is, the type it asks for, the pointer it got
  calls           \* per goroutine: the calls it made

vars == <<decl, propertiesMap, objs, muWriter, muReaders, stack, ret, pc, arg, res, calls>>

Nil     == 0  \* a nil *StructProperties: not cached, or returned with an error
Pending == [pending |-> TRUE]
Answer(o) == [pending |-> FALSE, obj |-> o]
Error     == Answer(Nil)

(***************************************************************************)
(* A Properties of StructProperties.props: its tag, where it lies in the   *)
(* struct (the offset: the indexes of the fields that lead to it), whether *)
(* its encoder, decoder and tag code are set, and the StructProperties it  *)
(* points to.                                                              *)
(***************************************************************************)
Objects == 1..Len(objs)
Entry == [tag : Nat, offset : Seq(Nat), ready : BOOLEAN, sprop : Seq(Objects)]
Object == [type : Types, props : Seq(Entry), reserved : SUBSET Nat, done : BOOLEAN]
Frame == [type : Types, obj : Objects, i : Nat \ {0}, open : BOOLEAN]

TimeEntry == [tag |-> 0, offset |-> <<>>, ready |-> TRUE, sprop |-> <<>>]
TimeObject == [type |-> TimeType, props |-> <<TimeEntry>>, reserved |-> {}, done |-> TRUE]
NewObject(t) == [type |-> t, props |-> <<>>, reserved |-> {}, done |-> FALSE]

Init ==
  /\ decl \in TypeGraphs
  /\ propertiesMap = [t \in Types |-> IF t = TimeType THEN 1 ELSE Nil]
  /\ objs = <<TimeObject>>
  /\ muWriter = NoProc
  /\ muReaders = {}
  /\ stack = <<>>
  /\ ret = Pending
  /\ pc = [p \in Procs |-> "idle"]
  /\ arg = [p \in Procs |-> TimeType]
  /\ res = [p \in Procs |-> Nil]
  /\ calls = [p \in Procs |-> 0]

-----------------------------------------------------------------------------
(* GetProperties: the fast path under the read lock *)

Goto(p, l) == pc' = [pc EXCEPT ![p] = l]

\* a call with a struct type (any other kind panics before the lock is touched)
Call(p) ==
  /\ pc[p] = "idle"
  /\ calls[p] < MaxCalls
  /\ \E t \in Structs : arg' = [arg EXCEPT ![p] = t]
  /\ calls' = [calls EXCEPT ![p] = @ + 1]
  /\ res' = [res EXCEPT ![p] = Nil]
  /\ Goto(p, "rlock")
  /\ UNCHANGED <<decl, propertiesMap, objs, muWriter, muReaders, stack, ret>>

\* a writer that waits keeps new readers out
RLock(p) ==
  /\ pc[p] = "rlock"
  /\ muWriter = NoProc
  /\ muReaders' = muReaders \cup {p}
  /\ Goto(p, "lookup")
  /\ UNCHANGED <<decl, propertiesMap, objs, muWriter, stack, ret, arg, res, calls>>

Lookup(p) ==
  /\ pc[p] = "lookup"
  /\ res' = [res EXCEPT ![p] = propertiesMap[arg[p]]]
  /\ Goto(p, "runlock")
  /\ UNCHANGED <<decl, propertiesMap, objs, muWriter, muReaders, stack, ret, arg, calls>>

RUnlock(p) ==
  /\ pc[p] = "runlock"
  /\ muReaders' = muReaders \ {p}
  /\ Goto(p, IF res[p] # Nil THEN "idle" ELSE "lock")
  /\ UNCHANGED <<decl, propertiesMap, objs, muWriter, stack, ret, arg, res, calls>>

(* GetProperties: the slow path under the write lock *)

AnnounceLock(p) ==
  /\ pc[p] = "lock"
  /\ muWriter = NoProc
  /\ muWriter' = p
  /\ Goto(p, "drain")
  /\ UNCHANGED <<decl, propertiesMap, objs, muReaders, stack, ret, arg, res, calls>>

Lock(p) ==
  /\ pc[p] = "drain"
  /\ muReaders = {}
  /\ Goto(p, "build")
  /\ UNCHANGED <<decl, propertiesMap, objs, muWriter, muReaders, stack, ret, arg, res, calls>>

\* mutant: the error return comes before propertiesMu.Unlock
Unlock_NotOnError(p) ==
  /\ pc[p] = "build"
  /\ stack = <<>>
  /\ ret # Pending
  /\ muWriter' = IF ret.obj = Nil THEN muWriter ELSE NoProc
  /\ res' = [res EXCEPT ![p] = ret.obj]
  /\ ret' = Pending
  /\ Goto(p, "idle")
  /\ UNCHANGED <<decl, propertiesMap, objs, muReaders, stack, arg, calls>>

Unlock(p) ==
  /\ pc[p] = "build"
  /\ stack = <<>>
  /\ ret # Pending
  /\ muWriter' = NoProc
  /\ res' = [res EXCEPT ![p] = ret.obj]
  /\ ret' = Pending
  /\ Goto(p, "idle")
  /\ UNCHANGED <<decl, propertiesMap, objs, muReaders, stack, arg, calls>>

-----------------------------------------------------------------------------
(* getPropertiesLocked, run by the goroutine that holds the write lock *)

Top      == stack[Len(stack)]
Cur      == decl[Top.type][Top.i]
Props    == objs[Top.obj].props
LastProp == Props[Len(Props)]
Resolved == LastProp.sprop

\* the innermost activation is at a field of kind k, opened by Properties.init or not
AtField(k, open) ==
  /\ stack # <<>>
  /\ Top.type \in Structs
  /\ Top.i <= Len(decl[Top.type])
  /\ Cur.kind = k
  /\ Top.open = open

\* getPropertiesLocked is being entered for type t
Entering(t) ==
  /\ ret = Pending
  /\ \/ stack = <<>> /\ t = arg[muWriter]
     \/ AtField("embedded", FALSE) /\ t = Cur.to[1]
     \/ AtField("field", TRUE) /\ Len(Resolved) < Len(Cur.to) /\ t = Cur.to[Len(Resolved) + 1]

Building(p) == pc[p] = "build"

SetTop(f) == stack' = [stack EXCEPT ![Len(stack)] = f]
Pop       == stack' = SubSeq(stack, 1, Len(stack) - 1)

SetProps(ps)   == objs' = [objs EXCEPT ![Top.obj].props = ps]
SetLastProp(e) == SetProps([Props EXCEPT ![Len(Props)] = e])
SetReserved(S) == objs' = [objs EXCEPT ![Top.obj].reserved = S]

\* the innermost activation goes to field i, or on with it
GoField(i, open) == SetTop([type |-> Top.type, obj |-> Top.obj, i |-> i, open |-> open])
NextField        == GoField(Top.i + 1, FALSE)

UNCHANGED_Callers == UNCHANGED <<decl, muWriter, muReaders, arg, res, calls>>

\* mutant: the lookup is not repeated by the goroutine that has just got the write lock
Cached_NotRepeated(t) == stack # <<>> /\ propertiesMap[t] # Nil

\* looked up again under the write lock: another goroutine may have built it meanwhile,
\* and a type under construction finds itself
Cached(t) == propertiesMap[t] # Nil

EnterCached(p) ==
  /\ Building(p)
  /\ \E t \in Types :
       /\ Entering(t)
       /\ Cached(t)
       /\ ret' = Answer(propertiesMap[t])
  /\ UNCHANGED <<propertiesMap, objs, stack, pc>>
  /\ UNCHANGED_Callers

EnterNew(p) ==
  /\ Building(p)
  /\ \E t \in Types :
       /\ Entering(t)
       /\ ~Cached(t)
       /\ objs' = Append(objs, NewObject(t))
       /\ propertiesMap' = [propertiesMap EXCEPT ![t] = Len(objs) + 1]
       /\ stack' = Append(stack, [type |-> t, obj |-> Len(objs) + 1, i |-> 1, open |-> FALSE])
  /\ UNCHANGED <<ret, pc>>
  /\ UNCHANGED_Callers

\* t.NumField() of a type that is no struct panics; no deferred Unlock runs while the
\* goroutine unwinds, so it leaves the package with propertiesMu locked
NumFieldPanics(p) ==
  /\ Building(p)
  /\ stack # <<>>
  /\ Top.type \in NonStructs
  /\ Goto(p, "panicked")
  /\ UNCHANGED <<propertiesMap, objs, stack, ret>>
  /\ UNCHANGED_Callers

\* mutant: the type stays in the map
FailAndForget_Kept ==
  /\ propertiesMap' = propertiesMap
  /\ Pop
  /\ ret' = Error

\* the error returns that first take the type out of the map again
FailAndForget ==
  /\ propertiesMap' = [propertiesMap EXCEPT ![Top.type] = Nil]
  /\ Pop
  /\ ret' = Error

EmbeddedFails(p) ==
  /\ Building(p)
  /\ AtField("embedded", FALSE)
  /\ ret = Error
  /\ FailAndForget
  /\ UNCHANGED <<objs, pc>>
  /\ UNCHANGED_Callers

\* the embedded type's entries are copied, with their offsets moved to the outer struct
Merged(f, inner) == [k \in 1..Len(inner) |-> [inner[k] EXCEPT !.offset = <<f>> \o @]]

\* mutant: the loop variable points into the embedded type's own entries
MergeEmbedded_InPlace(p) ==
  /\ Building(p)
  /\ AtField("embedded", FALSE)
  /\ ret \notin {Pending, Error}
  /\ LET moved == Merged(Top.i, objs[ret.obj].props)
     IN  objs' = [objs EXCEPT ![Top.obj].props = @ \o moved, ![ret.obj].props = moved]
  /\ NextField
  /\ ret' = Pending
  /\ UNCHANGED <<propertiesMap, pc>>
  /\ UNCHANGED_Callers

MergeEmbedded(p) ==
  /\ Building(p)
  /\ AtField("embedded", FALSE)
  /\ ret \notin {Pending, Error}
  /\ SetProps(Props \o Merged(Top.i, objs[ret.obj].props))
  /\ NextField
  /\ ret' = Pending
  /\ UNCHANGED <<propertiesMap, pc>>
  /\ UNCHANGED_Callers

ParseReserved(p) ==
  /\ Building(p)
  /\ AtField("reserved", FALSE)
  /\ Cur.ok
  /\ SetReserved(objs[Top.obj].reserved \cup Cur.ids)
  /\ NextField
  /\ UNCHANGED <<propertiesMap, ret, pc>>
  /\ UNCHANGED_Callers

\* this error return leaves the half-built description in propertiesMap
ParseReservedFails(p) ==
  /\ Building(p)
  /\ AtField("reserved", FALSE)
  /\ ~Cur.ok
  /\ SetReserved(objs[Top.obj].reserved \cup Cur.ids)
  /\ Pop
  /\ ret' = Error
  /\ UNCHANGED <<propertiesMap, pc>>
  /\ UNCHANGED_Callers

SkipField(p) ==
  /\ Building(p)
  /\ AtField("skip", FALSE)
  /\ NextField
  /\ UNCHANGED <<propertiesMap, objs, ret, pc>>
  /\ UNCHANGED_Callers

\* an ordinary field: its entry is appended, then Properties.init fills it in
NewEntry == [tag |-> Cur.tag, offset |-> <<Top.i>>, ready |-> FALSE, sprop |-> <<>>]

AppendEntry(p) ==
  /\ Building(p)
  /\ AtField("field", FALSE)
  /\ SetProps(Append(Props, NewEntry))
  /\ GoField(Top.i, TRUE)
  /\ UNCHANGED <<propertiesMap, ret, pc>>
  /\ UNCHANGED_Callers

\* mutant: the error of the nested call is not looked at
ResolveType_ErrorIgnored(p) ==
  /\ Building(p)
  /\ AtField("field", TRUE)
  /\ ret # Pending
  /\ SetLastProp([LastProp EXCEPT !.sprop = Append(@, ret.obj)])
  /\ ret' = Pending
  /\ UNCHANGED <<propertiesMap, stack, pc>>
  /\ UNCHANGED_Callers

ResolveType(p) ==
  /\ Building(p)
  /\ AtField("field", TRUE)
  /\ ret \notin {Pending, Error}
  /\ SetLastProp([LastProp EXCEPT !.sprop = Append(@, ret.obj)])
  /\ ret' = Pending
  /\ UNCHANGED <<propertiesMap, stack, pc>>
  /\ UNCHANGED_Callers

\* a type it needs has an error
ResolveFails(p) ==
  /\ Building(p)
  /\ AtField("field", TRUE)
  /\ ret = Error
  /\ FailAndForget
  /\ UNCHANGED <<objs, pc>>
  /\ UNCHANGED_Callers

\* every type the field needs has been visited
Visited == Len(Resolved) = Len(Cur.to)

InitField(p) ==
  /\ Building(p)
  /\ AtField("field", TRUE)
  /\ ret = Pending
  /\ Visited
  /\ Cur.ok
  /\ SetLastProp([LastProp EXCEPT !.ready = TRUE])
  /\ NextField
  /\ UNCHANGED <<propertiesMap, ret, pc>>
  /\ UNCHANGED_Callers

\* a bad tag, or no encoder or decoder for this type and wire type
InitFieldFails(p) ==
  /\ Building(p)
  /\ AtField("field", TRUE)
  /\ ret = Pending
  /\ Visited
  /\ ~Cur.ok
  /\ FailAndForget
  /\ UNCHANGED <<objs, pc>>
  /\ UNCHANGED_Callers

-----------------------------------------------------------------------------
(* the end of getPropertiesLocked: sort by tag, then look for bad tags *)

Orders(n) == {f \in [1..n -> 1..n] : \A i, j \in 1..n : f[i] = f[j] => i = j}

\* mutant: the entries stay in the order of the fields
SortedByTag_AsDeclared(s) == {s}

\* sort.Sort is not stable: any permutation in tag order
SortedByTag(s) ==
  {t \in {[k \in 1..Len(s) |-> s[f[k]]] : f \in Orders(Len(s))} :
     \A j \in 1..Len(t) : \A i \in 1..j : t[i].tag <= t[j].tag}

PrevTag(s, k) == IF k = 1 THEN 0 ELSE s[k - 1].tag

\* a tag twice in a row (0 counts as seen), or a reserved one
BadTags(s, reserved) ==
  \E k \in 1..Len(s) : s[k].tag = PrevTag(s, k) \/ s[k].tag \in reserved

AtEnd ==
  /\ stack # <<>>
  /\ Top.type \in Structs
  /\ Top.i > Len(decl[Top.type])

Finish(p) ==
  /\ Building(p)
  /\ AtEnd
  /\ \E s \in SortedByTag(Props) :
       /\ ~BadTags(s, objs[Top.obj].reserved)
       /\ objs' = [objs EXCEPT ![Top.obj].props = s, ![Top.obj].done = TRUE]
  /\ ret' = Answer(Top.obj)
  /\ Pop
  /\ UNCHANGED <<propertiesMap, pc>>
  /\ UNCHANGED_Callers

FinishFails(p) ==
  /\ Building(p)
  /\ AtEnd
  /\ \E s \in SortedByTag(Props) :
       /\ BadTags(s, objs[Top.obj].reserved)
       /\ objs' = [objs EXCEPT ![Top.obj].props = s]
  /\ FailAndForget
  /\ UNCHANGED pc
  /\ UNCHANGED_Callers

GetPropertiesLocked(p) ==
  \/ EnterCached(p) \/ EnterNew(p) \/ NumFieldPanics(p)
  \/ EmbeddedFails(p) \/ MergeEmbedded(p)
  \/ ParseReserved(p) \/ ParseReservedFails(p) \/ SkipField(p)
  \/ AppendEntry(p) \/ ResolveType(p) \/ ResolveFails(p)
  \/ InitField(p) \/ InitFieldFails(p)
  \/ Finish(p) \/ FinishFails(p)

GetProperties(p) ==
  \/ RLock(p) \/ Lookup(p) \/ RUnlock(p)
  \/ AnnounceLock(p) \/ Lock(p) \/ Unlock(p)
  \/ GetPropertiesLocked(p)

\* every goroutine has made its calls: the program may stop here
Terminated ==
  /\ \A p \in Procs : pc[p] = "idle" /\ calls[p] = MaxCalls
  /\ UNCHANGED vars

Next == Terminated \/ \E p \in Procs : Call(p) \/ GetProperties(p)

\* a goroutine that can take its next step takes it; calls need not be made
Spec == Init /\ [][Next]_vars /\ \A p \in Procs : WF_vars(GetProperties(p))

-----------------------------------------------------------------------------
(* Properties *)

Locations == {"idle", "rlock", "lookup", "runlock", "lock", "drain", "build", "panicked"}

\* Types of the variables; every pointer is to an allocated object, and no entry of a
\* description points to nil (Properties.init returns the error of a type it needs).
TypeOK ==
  /\ decl \in [Structs -> Seq(FieldDecl)]
  /\ propertiesMap \in [Types -> Objects \cup {Nil}]
  /\ objs \in Seq(Object)
  /\ muWriter \in Procs \cup {NoProc}
  /\ muReaders \in SUBSET Procs
  /\ stack \in Seq(Frame)
  /\ ret \in {Pending} \cup {Answer(o) : o \in Objects \cup {Nil}}
  /\ pc \in [Procs -> Locations]
  /\ arg \in [Procs -> Structs]
  /\ res \in [Procs -> Objects \cup {Nil}]
  /\ calls \in [Procs -> Nat]

\* Nobody is inside the write lock.
NobodyBuilds == \A p \in Procs : pc[p] \notin {"build", "panicked"}

\* Whenever a reader can look into propertiesMap, every description in it is finished:
\* getPropertiesLocked enters a type before it builds it, and every error return takes
\* the types it entered out again.
CachedComplete ==
  NobodyBuilds => \A t \in Types : Cached(t) => objs[propertiesMap[t]].done

\* The pointer a call returned for type t, or Nil if there is no such answer (now).
Got(p, t) == IF pc[p] = "idle" /\ arg[p] = t THEN res[p] ELSE Nil

\* Two calls for one type that both succeed return the same *StructProperties, however
\* they interleave: the lookup is repeated under the write lock.
OnePointer ==
  \A p, q \in Procs, t \in Structs :
    (Got(p, t) # Nil /\ Got(q, t) # Nil) => Got(p, t) = Got(q, t)

\* A finished description in propertiesMap is never removed, replaced or modified: the
\* encoder and the decoder read it without a lock, and building an outer struct copies it.
DoneIsFinal ==
  \A t \in Types : (Cached(t) /\ objs[propertiesMap[t]].done) =>
    /\ propertiesMap'[t] = propertiesMap[t]
    /\ objs'[propertiesMap[t]] = objs[propertiesMap[t]]

DescriptionsFinal == [][DoneIsFinal]_vars

\* Every call of GetProperties returns, whatever the others do, unless a goroutine
\* panicked while it held the write lock.
EveryCallReturns ==
  \A p \in Procs : (pc[p] = "rlock") ~> (pc[p] = "idle" \/ \E q \in Procs : pc[q] = "panicked")
=============================================================================
