------------------------ MODULE PropertiesCache_proofs ------------------------
(***************************************************************************)
(* Proofs about PropertiesCache, for any number of goroutines, types,      *)
(* declarations and calls.                                                 *)
(*                                                                         *)
(* The many steps of getPropertiesLocked have few effects on what the      *)
(* invariants talk about.  Each effect is named below; lemma Effects maps  *)
(* the steps to their effects and the proofs are by cases on the effects.  *)
(***************************************************************************)
EXTENDS PropertiesRefinement, SequenceTheorems, FiniteSetTheorems, WellFoundedInduction, TLAPS

Locked == <<decl, muWriter, muReaders, arg, res, calls>>

\* the description asked for is in the map
Hit == /\ \E t \in Types : Cached(t) /\ ret' = Answer(propertiesMap[t])
                        /\ (stack = <<>> => t = arg[muWriter])
       /\ UNCHANGED <<propertiesMap, objs, stack, pc>>

\* a new one is entered and becomes the innermost activation
Push == /\ \E t \in Types :
             /\ ~Cached(t)
             /\ (stack = <<>> => t = arg[muWriter])
             /\ objs' = Append(objs, NewObject(t))
             /\ propertiesMap' = [propertiesMap EXCEPT ![t] = Len(objs) + 1]
             /\ stack' = Append(stack, [type |-> t, obj |-> Len(objs) + 1, i |-> 1, open |-> FALSE])
        /\ ret = Pending
        /\ UNCHANGED <<ret, pc>>

\* only the innermost object changes: to ob
Becomes(ob) == ob.type = objs[Top.obj].type /\ objs' = [objs EXCEPT ![Top.obj] = ob]

\* the description under construction changes, and the innermost activation moves on
Work == /\ stack # <<>>
        /\ \E ob \in Object, f \in Frame :
             /\ Becomes(ob)
             /\ ob.done = objs[Top.obj].done
             /\ f.open => ob.props # <<>>
             /\ f.type = Top.type /\ f.obj = Top.obj /\ SetTop(f)
        /\ ret' \in {Pending, ret}
        /\ UNCHANGED <<propertiesMap, pc>>

\* an error return; objs may change as in Work
Forget == /\ stack # <<>>
          /\ \E ob \in Object : Becomes(ob) /\ ob.done = objs[Top.obj].done
          /\ FailAndForget
          /\ UNCHANGED pc

\* the error return that leaves the type in the map
Keep == /\ stack # <<>>
        /\ \E ob \in Object : Becomes(ob) /\ ob.done = objs[Top.obj].done
        /\ Pop
        /\ ret' = Error
        /\ UNCHANGED <<propertiesMap, pc>>
        /\ Top.type \in Structs
        /\ \E i \in 1..Len(decl[Top.type]) : decl[Top.type][i].kind = "reserved" /\ ~decl[Top.type][i].ok

\* a description is finished
Complete == /\ stack # <<>>
            /\ \E ob \in Object : Becomes(ob) /\ ob.done
            /\ ret' = Answer(Top.obj)
            /\ Pop
            /\ UNCHANGED <<propertiesMap, pc>>

Panic(p) == Goto(p, "panicked") /\ UNCHANGED <<propertiesMap, objs, stack, ret>>

-----------------------------------------------------------------------------

LEMMA TopInStack ==
  ASSUME TypeOK, stack # <<>>
  PROVE  /\ Len(stack) \in Nat \ {0}
         /\ Len(stack) \in 1..Len(stack)
         /\ Top \in Frame
         /\ Top.obj \in Objects
         /\ objs[Top.obj] \in Object
         /\ Props \in Seq(Entry)
<1>1. stack \in Seq(Frame)
  BY DEF TypeOK
<1>2. Len(stack) \in Nat \ {0}
  BY <1>1
<1>3. Top \in Frame
  BY <1>1, <1>2 DEF Top
<1>4. Top.obj \in Objects
  BY <1>3 DEF Frame
<1>5. objs \in Seq(Object)
  BY DEF TypeOK
<1>6. objs[Top.obj] \in Object
  BY <1>4, <1>5 DEF Objects
<1>7. Props \in Seq(Entry)
  BY <1>6 DEF Object, Props
<1> QED
  BY <1>2, <1>3, <1>4, <1>6, <1>7

\* the innermost activation goes to another field: its type and object stay
LEMMA GoFieldFacts ==
  ASSUME TypeOK, stack # <<>>, NEW n \in Nat \ {0}, NEW b \in BOOLEAN, GoField(n, b)
  PROVE  \E f \in Frame : f.type = Top.type /\ f.obj = Top.obj /\ f.open = b /\ SetTop(f)
<1> DEFINE f == [type |-> Top.type, obj |-> Top.obj, i |-> n, open |-> b]
<1>1. f \in Frame
  BY TopInStack DEF Frame
<1>2. f.type = Top.type /\ f.obj = Top.obj /\ f.open = b /\ SetTop(f)
  BY DEF GoField
<1> QED
  BY <1>1, <1>2

LEMMA NextFieldFacts ==
  ASSUME TypeOK, stack # <<>>, NextField
  PROVE  \E f \in Frame : f.type = Top.type /\ f.obj = Top.obj /\ f.open = FALSE /\ SetTop(f)
<1>1. Top.i + 1 \in Nat \ {0}
  BY TopInStack DEF Frame
<1> QED
  BY <1>1, GoFieldFacts DEF NextField

\* a change to props or reserved is a change of the innermost object only
LEMMA SetPropsFacts ==
  ASSUME TypeOK, stack # <<>>, NEW ps \in Seq(Entry), SetProps(ps)
  PROVE  \E ob \in Object : Becomes(ob) /\ ob.done = objs[Top.obj].done /\ ob.props = ps
<1> DEFINE ob == [objs[Top.obj] EXCEPT !.props = ps]
<1>1. objs[Top.obj] \in Object
  BY TopInStack
<1>2. ob \in Object /\ ob.type = objs[Top.obj].type /\ ob.done = objs[Top.obj].done /\ ob.props = ps
  BY <1>1 DEF Object
<1>3. objs' = [objs EXCEPT ![Top.obj] = ob]
  BY DEF SetProps
<1> QED
  BY <1>2, <1>3 DEF Becomes

LEMMA SetReservedFacts ==
  ASSUME TypeOK, stack # <<>>, NEW S \in SUBSET Nat, SetReserved(S)
  PROVE  \E ob \in Object : Becomes(ob) /\ ob.done = objs[Top.obj].done
<1> DEFINE ob == [objs[Top.obj] EXCEPT !.reserved = S]
<1>1. objs[Top.obj] \in Object
  BY TopInStack
<1>2. ob \in Object /\ ob.type = objs[Top.obj].type /\ ob.done = objs[Top.obj].done
  BY <1>1 DEF Object
<1>3. objs' = [objs EXCEPT ![Top.obj] = ob]
  BY DEF SetReserved
<1> QED
  BY <1>2, <1>3 DEF Becomes

LEMMA UnchangedObjsFacts ==
  ASSUME TypeOK, stack # <<>>, UNCHANGED objs
  PROVE  \E ob \in Object : Becomes(ob) /\ ob.done = objs[Top.obj].done
<1> DEFINE ob == objs[Top.obj]
<1>1. ob \in Object /\ objs \in Seq(Object) /\ Top.obj \in 1..Len(objs)
  BY TopInStack DEF TypeOK, Objects
<1>2. objs' = [objs EXCEPT ![Top.obj] = ob]
  BY <1>1
<1> QED
  BY <1>1, <1>2 DEF Becomes

LEMMA CurFacts ==
  ASSUME TypeOK, NEW k, NEW b, AtField(k, b)
  PROVE  /\ stack # <<>>
         /\ Top.type \in Structs
         /\ Top.i \in 1..Len(decl[Top.type])
         /\ Cur \in FieldDecl
         /\ Cur.kind = k
<1>1. stack # <<>> /\ Top.type \in Structs /\ Top.i <= Len(decl[Top.type]) /\ Cur.kind = k
  BY DEF AtField
<1>2. Top.i \in Nat \ {0}
  BY <1>1, TopInStack DEF Frame
<1>3. decl[Top.type] \in Seq(FieldDecl)
  BY <1>1 DEF TypeOK
<1>4. Top.i \in 1..Len(decl[Top.type])
  BY <1>1, <1>2, <1>3
<1>5. Cur \in FieldDecl
  BY <1>3, <1>4 DEF Cur
<1> QED
  BY <1>1, <1>4, <1>5

LEMMA NewEntryType ==
  ASSUME TypeOK, AtField("field", FALSE)
  PROVE  Append(Props, NewEntry) \in Seq(Entry)
<1>1. Cur.tag \in Nat /\ Top.i \in Nat
  BY CurFacts, TopInStack DEF FieldDecl, Frame
<1>2. NewEntry \in Entry
  BY <1>1 DEF NewEntry, Entry
<1>3. Props \in Seq(Entry)
  BY CurFacts, TopInStack
<1> QED
  BY <1>2, <1>3

\* the entries of any object, moved into an outer struct, are entries
LEMMA MergedType ==
  ASSUME TypeOK, NEW i \in Nat, NEW inner \in Seq(Entry)
  PROVE  Merged(i, inner) \in Seq(Entry)
<1>1. ASSUME NEW k \in 1..Len(inner)
      PROVE  [inner[k] EXCEPT !.offset = <<i>> \o @] \in Entry
  <2>1. inner[k] \in Entry
    OBVIOUS
  <2>2. <<i>> \in Seq(Nat) /\ inner[k].offset \in Seq(Nat)
    BY <2>1 DEF Entry
  <2>3. <<i>> \o inner[k].offset \in Seq(Nat)
    BY <2>2, ConcatProperties
  <2> QED
    BY <2>1, <2>3 DEF Entry
<1>2. Len(inner) \in Nat
  OBVIOUS
<1> QED
  BY <1>1, <1>2 DEF Merged

LEMMA LastPropType ==
  ASSUME TypeOK, stack # <<>>, Props # <<>>
  PROVE  /\ LastProp \in Entry
         /\ \A e \in Entry : [Props EXCEPT ![Len(Props)] = e] \in Seq(Entry)
<1>1. Props \in Seq(Entry)
  BY TopInStack
<1>2. Len(Props) \in 1..Len(Props)
  BY <1>1
<1> QED
  BY <1>1, <1>2, ExceptSeq DEF LastProp
LEMMA SortedType ==
  ASSUME TypeOK, stack # <<>>, NEW s \in SortedByTag(Props)
  PROVE  s \in Seq(Entry)
<1>1. Props \in Seq(Entry) /\ Len(Props) \in Nat
  BY TopInStack
<1>2. PICK f \in Orders(Len(Props)) : s = [k \in 1..Len(Props) |-> Props[f[k]]]
  BY DEF SortedByTag
<1>3. f \in [1..Len(Props) -> 1..Len(Props)]
  BY DEF Orders
<1>4. \A k \in 1..Len(Props) : Props[f[k]] \in Entry
  BY <1>1, <1>3
<1> QED
  BY <1>1, <1>2, <1>4

-----------------------------------------------------------------------------
(* The inductive invariant *)

\* who has propertiesMu, told from where the goroutines are
LockInv ==
  /\ \A p \in Procs : (muWriter = p) <=> (pc[p] \in {"drain", "build", "panicked"})
  /\ \A p \in Procs : (p \in muReaders) <=> (pc[p] \in {"lookup", "runlock"})
  /\ \A p \in Procs : pc[p] \in {"build", "panicked"} => muReaders = {}

\* an activation of getPropertiesLocked works on the description of its type that is in
\* the map, which is not finished, and no other activation works on the same type
StackInv ==
  /\ \A k \in 1..Len(stack) : /\ propertiesMap[stack[k].type] = stack[k].obj
                              /\ objs[stack[k].obj].type = stack[k].type
                              /\ ~objs[stack[k].obj].done
                              /\ stack[k].open => objs[stack[k].obj].props # <<>>
  /\ \A j, k \in 1..Len(stack) : stack[j].type = stack[k].type => j = k

\* outside the write lock nothing is under construction
QuietInv == NobodyBuilds => (stack = <<>> /\ ret = Pending)

\* the outermost activation, and what it returns, are for the type that was asked for
CallInv ==
  (\E p \in Procs : pc[p] = "build") =>
    /\ stack # <<>> => stack[1].type = arg[muWriter]
    /\ (stack = <<>> /\ ret \notin {Pending, Error}) => propertiesMap[arg[muWriter]] = ret.obj

IInv == TypeOK /\ LockInv /\ StackInv /\ QuietInv /\ CallInv

Effect(p) == Hit \/ Push \/ Work \/ Forget \/ Keep \/ Complete \/ Panic(p)

\* every step of getPropertiesLocked has one of the effects
LEMMA Effects ==
  ASSUME IInv, NEW p \in Procs, GetPropertiesLocked(p)
  PROVE  Building(p) /\ UNCHANGED Locked /\ Effect(p)
<1> USE DEF IInv, UNCHANGED_Callers, Locked
<1>0. TypeOK /\ Building(p) /\ UNCHANGED Locked
  BY DEF GetPropertiesLocked, EnterCached, EnterNew, NumFieldPanics, EmbeddedFails, MergeEmbedded,
         ParseReserved, ParseReservedFails, SkipField, AppendEntry, ResolveType, ResolveFails,
         InitField, InitFieldFails, Finish, FinishFails
<1> SUFFICES Effect(p)
  BY <1>0
<1>1. CASE EnterCached(p)
  BY <1>0, <1>1 DEF EnterCached, Entering, AtField, Hit, Effect
<1>2. CASE EnterNew(p)
  BY <1>0, <1>2 DEF EnterNew, Entering, AtField, Push, Effect
<1>3. CASE NumFieldPanics(p)
  BY <1>0, <1>3 DEF NumFieldPanics, Panic, Effect
<1>4. CASE EmbeddedFails(p)
  <2>1. stack # <<>> /\ FailAndForget /\ UNCHANGED <<objs, pc>>
    BY <1>4 DEF EmbeddedFails, AtField
  <2> QED
    BY <1>0, <2>1, UnchangedObjsFacts DEF Forget, Effect
<1>5. CASE MergeEmbedded(p)
  <2>1. stack # <<>> /\ NextField /\ ret' = Pending /\ UNCHANGED <<propertiesMap, pc>>
    BY <1>5 DEF MergeEmbedded, AtField
  <2>2. ret \in {Answer(o) : o \in Objects}
    BY <1>0, <1>5 DEF MergeEmbedded, TypeOK, Error
  <2>3. ret.obj \in Objects
    BY <2>2 DEF Answer
  <2>4. objs[ret.obj] \in Object
    BY <1>0, <2>3 DEF TypeOK, Objects
  <2>41. objs[ret.obj].props \in Seq(Entry)
    BY <2>4 DEF Object
  <2>5. Top.i \in Nat /\ Props \in Seq(Entry)
    BY <1>0, <2>1, TopInStack DEF Frame
  <2>6. Props \o Merged(Top.i, objs[ret.obj].props) \in Seq(Entry)
    BY <1>0, <2>41, <2>5, MergedType, ConcatProperties
  <2>7. SetProps(Props \o Merged(Top.i, objs[ret.obj].props))
    BY <1>5 DEF MergeEmbedded
  <2>8. PICK ob \in Object : Becomes(ob) /\ ob.done = objs[Top.obj].done
    BY <1>0, <2>1, <2>6, <2>7, SetPropsFacts
  <2>9. PICK f \in Frame : f.type = Top.type /\ f.obj = Top.obj /\ f.open = FALSE /\ SetTop(f)
    BY <1>0, <2>1, NextFieldFacts
  <2> QED
    BY <2>1, <2>8, <2>9 DEF Work, Effect
<1>6. CASE ParseReserved(p)
  <2>1. stack # <<>> /\ NextField /\ ret' = ret /\ UNCHANGED <<propertiesMap, pc>>
    BY <1>6 DEF ParseReserved, AtField
  <2>2. objs[Top.obj].reserved \cup Cur.ids \in SUBSET Nat
    BY <1>0, <1>6, CurFacts, TopInStack DEF ParseReserved, FieldDecl, Object
  <2>3. PICK ob \in Object : Becomes(ob) /\ ob.done = objs[Top.obj].done
    BY <1>0, <1>6, <2>1, <2>2, SetReservedFacts DEF ParseReserved
  <2>4. PICK f \in Frame : f.type = Top.type /\ f.obj = Top.obj /\ f.open = FALSE /\ SetTop(f)
    BY <1>0, <2>1, NextFieldFacts
  <2> QED
    BY <2>1, <2>3, <2>4 DEF Work, Effect
<1>7. CASE ParseReservedFails(p)
  <2>1. stack # <<>> /\ Pop /\ ret' = Error /\ UNCHANGED <<propertiesMap, pc>>
    BY <1>7 DEF ParseReservedFails, AtField
  <2>2. objs[Top.obj].reserved \cup Cur.ids \in SUBSET Nat
    BY <1>0, <1>7, CurFacts, TopInStack DEF ParseReservedFails, FieldDecl, Object
  <2>3. PICK ob \in Object : Becomes(ob) /\ ob.done = objs[Top.obj].done
    BY <1>0, <1>7, <2>1, <2>2, SetReservedFacts DEF ParseReservedFails
  <2>4. Top.type \in Structs /\ Top.i \in 1..Len(decl[Top.type]) /\ Cur.kind = "reserved" /\ ~Cur.ok
    BY <1>0, <1>7, CurFacts DEF ParseReservedFails
  <2>5. \E i \in 1..Len(decl[Top.type]) : decl[Top.type][i].kind = "reserved" /\ ~decl[Top.type][i].ok
    BY <2>4 DEF Cur
  <2> QED
    BY <2>1, <2>3, <2>4, <2>5 DEF Keep, Effect
<1>8. CASE SkipField(p)
  <2>1. stack # <<>> /\ NextField /\ ret' = ret /\ UNCHANGED <<propertiesMap, objs, pc>>
    BY <1>8 DEF SkipField, AtField
  <2>3. PICK ob \in Object : Becomes(ob) /\ ob.done = objs[Top.obj].done
    BY <1>0, <2>1, UnchangedObjsFacts
  <2>4. PICK f \in Frame : f.type = Top.type /\ f.obj = Top.obj /\ f.open = FALSE /\ SetTop(f)
    BY <1>0, <2>1, NextFieldFacts
  <2> QED
    BY <2>1, <2>3, <2>4 DEF Work, Effect
<1>9. CASE AppendEntry(p)
  <2>1. stack # <<>> /\ GoField(Top.i, TRUE) /\ ret' = ret /\ UNCHANGED <<propertiesMap, pc>>
    BY <1>9 DEF AppendEntry, AtField
  <2>2. Append(Props, NewEntry) \in Seq(Entry)
    BY <1>0, <1>9, NewEntryType DEF AppendEntry
  <2>3. Append(Props, NewEntry) # <<>>
    BY <1>0, <2>1, TopInStack
  <2>4. PICK ob \in Object : Becomes(ob) /\ ob.done = objs[Top.obj].done /\ ob.props # <<>>
    BY <1>0, <1>9, <2>1, <2>2, <2>3, SetPropsFacts DEF AppendEntry
  <2>5. Top.i \in Nat \ {0}
    BY <1>0, <2>1, TopInStack DEF Frame
  <2>6. PICK f \in Frame : f.type = Top.type /\ f.obj = Top.obj /\ SetTop(f)
    BY <1>0, <2>1, <2>5, GoFieldFacts
  <2> QED
    BY <2>1, <2>4, <2>6 DEF Work, Effect
<1>10. CASE ResolveType(p)
  <2>1. stack # <<>> /\ Top.open /\ ret' = Pending /\ UNCHANGED <<propertiesMap, stack, pc>>
    BY <1>10 DEF ResolveType, AtField
  <2>2. Props # <<>> /\ Top \in Frame
    BY <1>0, <2>1, TopInStack DEF StackInv, Top, Props
  <2>3. ret.obj \in Objects
    BY <1>0, <1>10 DEF ResolveType, TypeOK, Error, Answer
  <2>4. LastProp \in Entry
    BY <1>0, <2>1, <2>2, LastPropType DEF Entry
  <2>5. Append(LastProp.sprop, ret.obj) \in Seq(Objects)
    BY <2>3, <2>4 DEF Entry
  <2>6. [LastProp EXCEPT !.sprop = Append(@, ret.obj)] \in Entry
    BY <2>4, <2>5 DEF Entry
  <2> DEFINE ps == [Props EXCEPT ![Len(Props)] = [LastProp EXCEPT !.sprop = Append(@, ret.obj)]]
  <2>7. ps \in Seq(Entry) /\ SetProps(ps)
    BY <1>0, <1>10, <2>1, <2>2, <2>6, LastPropType DEF ResolveType, SetLastProp
  <2>8. ps # <<>>
    BY <1>0, <2>1, <2>2, <2>6, TopInStack, ExceptSeq
  <2>9. PICK ob \in Object : Becomes(ob) /\ ob.done = objs[Top.obj].done /\ ob.props # <<>>
    BY <1>0, <2>1, <2>7, <2>8, SetPropsFacts
  <2>10. SetTop(Top)
    BY <1>0, <2>1, TopInStack DEF SetTop, Top, TypeOK
  <2> QED
    BY <2>1, <2>2, <2>9, <2>10 DEF Work, Effect
<1>11. CASE ResolveFails(p)
  <2>1. stack # <<>> /\ FailAndForget /\ UNCHANGED <<objs, pc>>
    BY <1>11 DEF ResolveFails, AtField
  <2> QED
    BY <1>0, <2>1, UnchangedObjsFacts DEF Forget, Effect
<1>12. CASE InitField(p)
  <2>1. stack # <<>> /\ Top.open /\ NextField /\ ret' = ret /\ UNCHANGED <<propertiesMap, pc>>
    BY <1>12 DEF InitField, AtField
  <2>2. Props # <<>>
    BY <1>0, <2>1, TopInStack DEF StackInv, Top, Props
  <2>4. LastProp \in Entry
    BY <1>0, <2>1, <2>2, LastPropType DEF Entry
  <2>6. [LastProp EXCEPT !.ready = TRUE] \in Entry
    BY <2>4 DEF Entry
  <2>7. PICK ps \in Seq(Entry) : SetProps(ps)
    BY <1>0, <1>12, <2>1, <2>2, <2>6, LastPropType DEF InitField, SetLastProp
  <2>9. PICK ob \in Object : Becomes(ob) /\ ob.done = objs[Top.obj].done
    BY <1>0, <2>1, <2>7, SetPropsFacts
  <2>10. PICK f \in Frame : f.type = Top.type /\ f.obj = Top.obj /\ f.open = FALSE /\ SetTop(f)
    BY <1>0, <2>1, NextFieldFacts
  <2> QED
    BY <2>1, <2>9, <2>10 DEF Work, Effect
<1>13. CASE InitFieldFails(p)
  <2>1. stack # <<>> /\ FailAndForget /\ UNCHANGED <<objs, pc>>
    BY <1>13 DEF InitFieldFails, AtField
  <2> QED
    BY <1>0, <2>1, UnchangedObjsFacts DEF Forget, Effect
<1>14. CASE Finish(p)
  <2>1. stack # <<>> /\ Pop /\ ret' = Answer(Top.obj) /\ UNCHANGED <<propertiesMap, pc>>
    BY <1>14 DEF Finish, AtEnd
  <2>2. PICK s \in SortedByTag(Props) :
          objs' = [objs EXCEPT ![Top.obj].props = s, ![Top.obj].done = TRUE]
    BY <1>14 DEF Finish
  <2>3. s \in Seq(Entry)
    BY <1>0, <2>1, SortedType
  <2> DEFINE ob == [objs[Top.obj] EXCEPT !.props = s, !.done = TRUE]
  <2>4. ob \in Object /\ ob.type = objs[Top.obj].type /\ ob.done
    BY <1>0, <2>1, <2>3, TopInStack DEF Object
  <2>5. objs' = [objs EXCEPT ![Top.obj] = ob]
    BY <1>0, <2>1, <2>2, TopInStack DEF TypeOK, Object
  <2> QED
    BY <2>1, <2>4, <2>5 DEF Complete, Becomes, Effect
<1>15. CASE FinishFails(p)
  <2>1. stack # <<>> /\ FailAndForget /\ UNCHANGED pc
    BY <1>15 DEF FinishFails, AtEnd
  <2>2. PICK s \in SortedByTag(Props) : SetProps(s)
    BY <1>15 DEF FinishFails, SetProps
  <2>3. s \in Seq(Entry)
    BY <1>0, <2>1, SortedType
  <2> QED
    BY <1>0, <2>1, <2>2, <2>3, SetPropsFacts DEF Forget, Effect
<1> QED
  BY <1>1, <1>2, <1>3, <1>4, <1>5, <1>6, <1>7, <1>8, <1>9, <1>10, <1>11, <1>12, <1>13, <1>14, <1>15
     DEF GetPropertiesLocked, Locked
-----------------------------------------------------------------------------
(* What the effects do to the heap and to the stack *)

LEMMA BecomesFacts ==
  ASSUME TypeOK, stack # <<>>, NEW ob \in Object, Becomes(ob)
  PROVE  /\ Len(objs') = Len(objs)
         /\ Objects' = Objects /\ Object' = Object /\ Frame' = Frame
         /\ objs' \in Seq(Object)
         /\ ob.type = objs[Top.obj].type
         /\ \A o \in Objects : objs'[o] = IF o = Top.obj THEN ob ELSE objs[o]
<1>1. objs \in Seq(Object) /\ Top.obj \in 1..Len(objs)
  BY TopInStack DEF TypeOK, Objects
<1>2. objs' = [objs EXCEPT ![Top.obj] = ob] /\ ob.type = objs[Top.obj].type
  BY DEF Becomes
<1>3. /\ objs' \in Seq(Object)
      /\ Len(objs') = Len(objs)
      /\ \A o \in 1..Len(objs) : objs'[o] = IF o = Top.obj THEN ob ELSE objs[o]
  BY <1>1, <1>2, ExceptSeq
<1>4. Objects' = Objects
  BY <1>3 DEF Objects
<1>5. Object' = Object /\ Frame' = Frame
  BY <1>4 DEF Object, Entry, Frame
<1> QED
  BY <1>2, <1>3, <1>4, <1>5 DEF Objects

LEMMA PopFacts ==
  ASSUME TypeOK, stack # <<>>, Pop
  PROVE  /\ stack' \in Seq(Frame)
         /\ Len(stack') = Len(stack) - 1
         /\ \A k \in 1..Len(stack') : stack'[k] = stack[k]
<1>1. stack \in Seq(Frame) /\ Len(stack) \in Nat \ {0}
  BY TopInStack DEF TypeOK
<1>2. stack' = SubSeq(stack, 1, Len(stack) - 1)
  BY DEF Pop
<1> DEFINE n == Len(stack) - 1
<1>3. n \in Nat /\ 1 \in Int /\ n \in Int /\ \A k \in 1..n : stack[k] \in Frame
  BY <1>1
<1> HIDE DEF n
<1>4. /\ SubSeq(stack, 1, n) \in Seq(Frame)
      /\ Len(SubSeq(stack, 1, n)) = IF 1 <= n THEN n - 1 + 1 ELSE 0
  BY <1>3, SubSeqProperties
<1>5. Len(SubSeq(stack, 1, n)) = n
  BY <1>3, <1>4
<1>6. \A k \in 1..n : SubSeq(stack, 1, n)[k] = stack[k]
  BY <1>1, <1>3, <1>5
<1> QED
  BY <1>2, <1>4, <1>5, <1>6 DEF n

LEMMA SetTopFacts ==
  ASSUME TypeOK, stack # <<>>, NEW f \in Frame, SetTop(f)
  PROVE  /\ stack' \in Seq(Frame)
         /\ Len(stack') = Len(stack)
         /\ \A k \in 1..Len(stack) : stack'[k] = IF k = Len(stack) THEN f ELSE stack[k]
<1>1. stack \in Seq(Frame) /\ Len(stack) \in 1..Len(stack)
  BY TopInStack DEF TypeOK
<1> QED
  BY <1>1, ExceptSeq DEF SetTop

LEMMA PushFacts ==
  ASSUME TypeOK, NEW t \in Types,
         objs' = Append(objs, NewObject(t)),
         stack' = Append(stack, [type |-> t, obj |-> Len(objs) + 1, i |-> 1, open |-> FALSE])
  PROVE  /\ Len(objs) \in Nat
         /\ Len(objs') = Len(objs) + 1
         /\ Objects \subseteq Objects'
         /\ Len(objs) + 1 \in Objects'
         /\ objs' \in Seq(Object')
         /\ stack' \in Seq(Frame')
         /\ \A o \in Objects : objs'[o] = objs[o]
         /\ objs'[Len(objs) + 1] = NewObject(t)
         /\ Len(stack') = Len(stack) + 1
         /\ \A k \in 1..Len(stack) : stack'[k] = stack[k]
         /\ stack'[Len(stack) + 1] = [type |-> t, obj |-> Len(objs) + 1, i |-> 1, open |-> FALSE]
<1>1. objs \in Seq(Object) /\ stack \in Seq(Frame) /\ Len(objs) \in Nat /\ Len(stack) \in Nat
  BY DEF TypeOK
<1>2. Len(objs') = Len(objs) + 1
  BY <1>1
<1>3. Objects \subseteq Objects' /\ Len(objs) + 1 \in Objects'
  BY <1>1, <1>2 DEF Objects
<1>4. Seq(Objects) \subseteq Seq(Objects')
  BY <1>3
<1>5. \A e \in Entry : e \in Entry'
  BY <1>4 DEF Entry
<1>6. Seq(Entry) \subseteq Seq(Entry')
  BY <1>5
<1>7. Object \subseteq Object'
  BY <1>6 DEF Object
<1>8. NewObject(t) \in Object'
  BY DEF NewObject, Object
<1>9. objs' \in Seq(Object')
  BY <1>1, <1>7, <1>8
<1>10. Frame \subseteq Frame'
  BY <1>3 DEF Frame
<1>11. [type |-> t, obj |-> Len(objs) + 1, i |-> 1, open |-> FALSE] \in Frame'
  BY <1>3 DEF Frame
<1>12. stack' \in Seq(Frame')
  BY <1>1, <1>10, <1>11
<1> QED
  BY <1>1, <1>2, <1>3, <1>9, <1>12 DEF Objects

\* in all effects but Push, objs keeps its length, and so the types of pointers
LEMMA SameHeap ==
  ASSUME TypeOK, Work \/ Forget \/ Keep \/ Complete
  PROVE  Objects' = Objects /\ Object' = Object /\ Frame' = Frame /\ objs' \in Seq(Object)
<1>1. stack # <<>> /\ \E ob \in Object : Becomes(ob)
  BY DEF Work, Forget, Keep, Complete
<1> QED
  BY <1>1, BecomesFacts

-----------------------------------------------------------------------------
(* Every part of the invariant is preserved by every step *)

Callers(p) == Call(p) \/ RLock(p) \/ Lookup(p) \/ RUnlock(p) \/ AnnounceLock(p) \/ Lock(p) \/ Unlock(p)

LEMMA NextCases ==
  ASSUME [Next]_vars
  PROVE  UNCHANGED vars \/ \E p \in Procs : Callers(p) \/ GetPropertiesLocked(p)
BY DEF Next, Terminated, GetProperties, Callers

LEMMA AnswersAreAnswers ==
  /\ \A o : Answer(o) # Pending /\ Answer(o).obj = o
  /\ \A o, q : Answer(o) = Answer(q) => o = q
<1>1. \A o : Answer(o).pending = FALSE /\ Answer(o).obj = o
  BY DEF Answer
<1>2. Pending.pending = TRUE
  BY DEF Pending
<1> QED
  BY <1>1, <1>2

LEMMA TypeStep ==
  ASSUME IInv, [Next]_vars
  PROVE  TypeOK'
<1>0. TypeOK
  BY DEF IInv
<1>1. CASE UNCHANGED vars
  BY <1>0, <1>1 DEF TypeOK, vars, Objects, Object, Entry, Frame
<1>2. ASSUME NEW p \in Procs, Callers(p)
      PROVE  TypeOK'
  <2>1. Objects' = Objects /\ Object' = Object /\ Frame' = Frame /\ objs' = objs
    BY <1>2 DEF Callers, Call, RLock, Lookup, RUnlock, AnnounceLock, Lock, Unlock, Objects, Object, Entry, Frame
  <2>2. ret' \in {ret, Pending}
    BY <1>2 DEF Callers, Call, RLock, Lookup, RUnlock, AnnounceLock, Lock, Unlock
  <2>3. ret # Pending => ret.obj \in Objects \cup {Nil}
    BY <1>0, AnswersAreAnswers DEF TypeOK
  <2>4. res' \in [Procs -> Objects \cup {Nil}]
    BY <1>0, <1>2, <2>3, TypesAssumption
       DEF TypeOK, Callers, Call, RLock, Lookup, RUnlock, AnnounceLock, Lock, Unlock, Types
  <2>5. pc' \in [Procs -> Locations]
    BY <1>0, <1>2 DEF TypeOK, Callers, Call, RLock, Lookup, RUnlock, AnnounceLock, Lock, Unlock, Goto, Locations
  <2>6. arg' \in [Procs -> Structs] /\ calls' \in [Procs -> Nat]
    <3>1. CASE Call(p)
      BY <1>0, <3>1 DEF TypeOK, Call
    <3>2. CASE ~Call(p)
      BY <1>0, <1>2, <3>2 DEF TypeOK, Callers, RLock, Lookup, RUnlock, AnnounceLock, Lock, Unlock
    <3> QED
      BY <3>1, <3>2
  <2>7. muWriter' \in Procs \cup {NoProc}
    BY <1>0, <1>2 DEF TypeOK, Callers, Call, RLock, Lookup, RUnlock, AnnounceLock, Lock, Unlock
  <2>71. muReaders' = muReaders \/ muReaders' = muReaders \cup {p} \/ muReaders' = muReaders \ {p}
    <3>1. CASE RLock(p)
      BY <3>1 DEF RLock
    <3>2. CASE RUnlock(p)
      BY <3>2 DEF RUnlock
    <3>3. CASE Call(p) \/ Lookup(p) \/ AnnounceLock(p) \/ Lock(p) \/ Unlock(p)
      BY <3>3 DEF Call, Lookup, AnnounceLock, Lock, Unlock
    <3> QED
      BY <1>2, <3>1, <3>2, <3>3 DEF Callers
  <2>72. muReaders' \in SUBSET Procs
    BY <1>0, <2>71 DEF TypeOK
  <2>8. UNCHANGED <<decl, propertiesMap, stack>>
    BY <1>2 DEF Callers, Call, RLock, Lookup, RUnlock, AnnounceLock, Lock, Unlock
  <2> QED
    BY <1>0, <2>1, <2>2, <2>4, <2>5, <2>6, <2>7, <2>72, <2>8 DEF TypeOK
<1>3. ASSUME NEW p \in Procs, GetPropertiesLocked(p)
      PROVE  TypeOK'
  <2>1. Building(p) /\ UNCHANGED Locked /\ Effect(p)
    BY <1>3, Effects
  <2>2. /\ decl' \in [Structs -> Seq(FieldDecl)]
        /\ muWriter' \in Procs \cup {NoProc}
        /\ muReaders' \in SUBSET Procs
        /\ arg' \in [Procs -> Structs]
        /\ calls' \in [Procs -> Nat]
        /\ res' \in [Procs -> Objects \cup {Nil}]
    BY <1>0, <2>1 DEF TypeOK, Locked
  <2>3. pc' \in [Procs -> Locations]
    BY <1>0, <2>1 DEF TypeOK, Effect, Hit, Push, Work, Forget, Keep, Complete, Panic, Goto, Locations
  <2>4. CASE Hit
    <3>1. Objects' = Objects /\ Object' = Object /\ Frame' = Frame /\ UNCHANGED <<propertiesMap, objs, stack>>
      BY <2>4 DEF Hit, Objects, Object, Entry, Frame
    <3>2. ret' \in {Answer(o) : o \in Objects \cup {Nil}}
      BY <1>0, <2>4 DEF Hit, TypeOK
    <3> QED
      BY <1>0, <2>2, <2>3, <3>1, <3>2 DEF TypeOK
  <2>5. CASE Push
    <3>1. PICK t \in Types :
            /\ objs' = Append(objs, NewObject(t))
            /\ propertiesMap' = [propertiesMap EXCEPT ![t] = Len(objs) + 1]
            /\ stack' = Append(stack, [type |-> t, obj |-> Len(objs) + 1, i |-> 1, open |-> FALSE])
      BY <2>5 DEF Push
    <3>2. /\ Objects \subseteq Objects' /\ Len(objs) + 1 \in Objects'
          /\ objs' \in Seq(Object') /\ stack' \in Seq(Frame')
      BY <1>0, <3>1, PushFacts
    <3>3. propertiesMap' \in [Types -> Objects' \cup {Nil}]
      BY <1>0, <3>1, <3>2 DEF TypeOK
    <3>4. res' \in [Procs -> Objects' \cup {Nil}]
      BY <2>2, <3>2
    <3>5. ret' = Pending
      BY <2>5 DEF Push
    <3> QED
      BY <2>2, <2>3, <3>2, <3>3, <3>4, <3>5 DEF TypeOK
  <2>6. CASE Work
    <3>1. Objects' = Objects /\ Object' = Object /\ Frame' = Frame /\ objs' \in Seq(Object)
      BY <1>0, <2>6, SameHeap
    <3>2. stack' \in Seq(Frame)
      BY <1>0, <2>6, SetTopFacts DEF Work
    <3>3. ret' \in {Pending, ret} /\ propertiesMap' = propertiesMap
      BY <2>6 DEF Work
    <3> QED
      BY <1>0, <2>2, <2>3, <3>1, <3>2, <3>3 DEF TypeOK
  <2>7. CASE Forget \/ Keep
    <3>1. Objects' = Objects /\ Object' = Object /\ Frame' = Frame /\ objs' \in Seq(Object)
      BY <1>0, <2>7, SameHeap
    <3>2. stack' \in Seq(Frame)
      BY <1>0, <2>7, PopFacts DEF Forget, Keep, FailAndForget
    <3>3. ret' = Answer(Nil)
      BY <2>7 DEF Forget, Keep, FailAndForget, Error
    <3>4. propertiesMap' \in [Types -> Objects \cup {Nil}]
      BY <1>0, <2>7 DEF Forget, Keep, FailAndForget, TypeOK
    <3> QED
      BY <2>2, <2>3, <3>1, <3>2, <3>3, <3>4 DEF TypeOK
  <2>8. CASE Complete
    <3>1. Objects' = Objects /\ Object' = Object /\ Frame' = Frame /\ objs' \in Seq(Object)
      BY <1>0, <2>8, SameHeap
    <3>2. stack' \in Seq(Frame)
      BY <1>0, <2>8, PopFacts DEF Complete
    <3>3. ret' = Answer(Top.obj) /\ Top.obj \in Objects /\ propertiesMap' = propertiesMap
      BY <1>0, <2>8, TopInStack DEF Complete
    <3> QED
      BY <1>0, <2>2, <2>3, <3>1, <3>2, <3>3 DEF TypeOK
  <2>9. CASE Panic(p)
    <3>1. Objects' = Objects /\ Object' = Object /\ Frame' = Frame /\ UNCHANGED <<propertiesMap, objs, stack, ret>>
      BY <2>9 DEF Panic, Objects, Object, Entry, Frame
    <3> QED
      BY <1>0, <2>2, <2>3, <3>1 DEF TypeOK
  <2> QED
    BY <2>1, <2>4, <2>5, <2>6, <2>7, <2>8, <2>9 DEF Effect
<1> QED
  BY <1>1, <1>2, <1>3, NextCases
LEMMA LockStep ==
  ASSUME IInv, [Next]_vars
  PROVE  LockInv'
<1>0. TypeOK /\ LockInv
  BY DEF IInv
<1>1. CASE UNCHANGED vars
  BY <1>0, <1>1 DEF LockInv, vars
<1>2. ASSUME NEW p \in Procs, Call(p)
      PROVE  LockInv'
  BY <1>0, <1>2 DEF LockInv, TypeOK, Call, Goto
<1>3. ASSUME NEW p \in Procs, RLock(p)
      PROVE  LockInv'
  BY <1>0, <1>3, ProcsAssumption DEF LockInv, TypeOK, RLock, Goto
<1>4. ASSUME NEW p \in Procs, Lookup(p)
      PROVE  LockInv'
  BY <1>0, <1>4 DEF LockInv, TypeOK, Lookup, Goto
<1>5. ASSUME NEW p \in Procs, RUnlock(p)
      PROVE  LockInv'
  BY <1>0, <1>5 DEF LockInv, TypeOK, RUnlock, Goto
<1>6. ASSUME NEW p \in Procs, AnnounceLock(p)
      PROVE  LockInv'
  BY <1>0, <1>6, ProcsAssumption DEF LockInv, TypeOK, AnnounceLock, Goto
<1>7. ASSUME NEW p \in Procs, Lock(p)
      PROVE  LockInv'
  BY <1>0, <1>7 DEF LockInv, TypeOK, Lock, Goto
<1>8. ASSUME NEW p \in Procs, Unlock(p)
      PROVE  LockInv'
  BY <1>0, <1>8, ProcsAssumption DEF LockInv, TypeOK, Unlock, Goto
<1>9. ASSUME NEW p \in Procs, GetPropertiesLocked(p)
      PROVE  LockInv'
  <2>1. Building(p) /\ UNCHANGED Locked /\ Effect(p)
    BY <1>9, Effects
  <2>2. pc' = pc \/ pc' = [pc EXCEPT ![p] = "panicked"]
    BY <2>1 DEF Effect, Hit, Push, Work, Forget, Keep, Complete, Panic, Goto
  <2> QED
    BY <1>0, <2>1, <2>2 DEF LockInv, TypeOK, Locked, Building
<1> QED
  BY <1>1, <1>2, <1>3, <1>4, <1>5, <1>6, <1>7, <1>8, <1>9, NextCases DEF Callers

\* frames of the stack have objects of their own
LEMMA StackObjects ==
  ASSUME TypeOK, StackInv
  PROVE  /\ \A k \in 1..Len(stack) : stack[k] \in Frame /\ stack[k].obj \in Objects /\ stack[k].type \in Types
         /\ \A j, k \in 1..Len(stack) : stack[j].obj = stack[k].obj => j = k
         /\ stack # <<>> => /\ Top = stack[Len(stack)]
                            /\ Len(stack) \in 1..Len(stack)
                            /\ Len(stack) \in Nat
<1>1. \A k \in 1..Len(stack) : stack[k] \in Frame
  BY DEF TypeOK
<1>2. \A k \in 1..Len(stack) : stack[k].obj \in Objects /\ stack[k].type \in Types
  BY <1>1 DEF Frame
<1>3. \A j, k \in 1..Len(stack) : stack[j].obj = stack[k].obj => j = k
  BY DEF StackInv
<1>4. stack # <<>> => Len(stack) \in 1..Len(stack) /\ Len(stack) \in Nat
  BY TopInStack
<1> QED
  BY <1>1, <1>2, <1>3, <1>4 DEF Top

LEMMA StackStep ==
  ASSUME IInv, [Next]_vars
  PROVE  StackInv'
<1>0. TypeOK /\ StackInv
  BY DEF IInv
<1>1. CASE UNCHANGED vars
  BY <1>0, <1>1 DEF StackInv, vars
<1>2. ASSUME NEW p \in Procs, Callers(p)
      PROVE  StackInv'
  <2>1. UNCHANGED <<propertiesMap, objs, stack>>
    BY <1>2 DEF Callers, Call, RLock, Lookup, RUnlock, AnnounceLock, Lock, Unlock
  <2> QED
    BY <1>0, <2>1 DEF StackInv
<1>3. ASSUME NEW p \in Procs, GetPropertiesLocked(p)
      PROVE  StackInv'
  <2>1. Effect(p)
    BY <1>3, Effects
  <2>2. CASE Hit \/ Panic(p)
    BY <1>0, <2>2 DEF Hit, Panic, StackInv
  <2>3. CASE Push
    <3>1. PICK t \in Types :
            /\ ~Cached(t)
            /\ objs' = Append(objs, NewObject(t))
            /\ propertiesMap' = [propertiesMap EXCEPT ![t] = Len(objs) + 1]
            /\ stack' = Append(stack, [type |-> t, obj |-> Len(objs) + 1, i |-> 1, open |-> FALSE])
      BY <2>3 DEF Push
    <3>2. \A k \in 1..Len(stack) : stack[k].type # t
      BY <1>0, <3>1, StackObjects DEF Cached, StackInv, Objects, Nil
    <3>3. /\ Len(stack') = Len(stack) + 1 /\ Len(stack) \in Nat
          /\ \A k \in 1..Len(stack) : stack'[k] = stack[k]
          /\ stack'[Len(stack) + 1] = [type |-> t, obj |-> Len(objs) + 1, i |-> 1, open |-> FALSE]
          /\ \A o \in Objects : objs'[o] = objs[o]
          /\ objs'[Len(objs) + 1] = NewObject(t)
      <4>1. stack \in Seq(Frame)
        BY <1>0 DEF TypeOK
      <4>2. Len(stack) \in Nat
        BY <4>1
      <4> QED
        BY <1>0, <3>1, <4>2, PushFacts
    <3>4. propertiesMap'[t] = Len(objs) + 1 /\ \A u \in Types : u # t => propertiesMap'[u] = propertiesMap[u]
      BY <1>0, <3>1 DEF TypeOK
    <3>5. ASSUME NEW k \in 1..Len(stack')
          PROVE  /\ propertiesMap'[stack'[k].type] = stack'[k].obj
                 /\ objs'[stack'[k].obj].type = stack'[k].type
                 /\ ~objs'[stack'[k].obj].done
                 /\ stack'[k].open => objs'[stack'[k].obj].props # <<>>
      <4>1. CASE k = Len(stack) + 1
        BY <3>3, <3>4, <4>1 DEF NewObject
      <4>2. CASE k \in 1..Len(stack)
        BY <1>0, <3>2, <3>3, <3>4, <4>2, StackObjects DEF StackInv
      <4> QED
        BY <3>3, <4>1, <4>2
    <3>6. ASSUME NEW j \in 1..Len(stack'), NEW k \in 1..Len(stack'), stack'[j].type = stack'[k].type
          PROVE  j = k
      <4>1. CASE j \in 1..Len(stack) /\ k \in 1..Len(stack)
        BY <1>0, <3>3, <3>6, <4>1 DEF StackInv
      <4>2. CASE j = Len(stack) + 1 \/ k = Len(stack) + 1
        BY <3>2, <3>3, <3>6, <4>2
      <4> QED
        BY <3>3, <4>1, <4>2
    <3> QED
      BY <3>5, <3>6 DEF StackInv
  <2>4. CASE Work
    <3>1. PICK ob \in Object, f \in Frame :
            /\ Becomes(ob) /\ ob.done = objs[Top.obj].done
            /\ f.open => ob.props # <<>>
            /\ f.type = Top.type /\ f.obj = Top.obj /\ SetTop(f)
      BY <2>4 DEF Work
    <3>2. stack # <<>> /\ propertiesMap' = propertiesMap
      BY <2>4 DEF Work
    <3>3. Len(stack') = Len(stack) /\ \A k \in 1..Len(stack) : stack'[k] = IF k = Len(stack) THEN f ELSE stack[k]
      BY <1>0, <3>1, <3>2, SetTopFacts
    <3>4. ob.type = objs[Top.obj].type /\ \A o \in Objects : objs'[o] = IF o = Top.obj THEN ob ELSE objs[o]
      BY <1>0, <3>1, <3>2, BecomesFacts
    <3>5. ASSUME NEW k \in 1..Len(stack)
          PROVE  /\ propertiesMap[stack'[k].type] = stack'[k].obj
                 /\ objs'[stack'[k].obj].type = stack'[k].type
                 /\ ~objs'[stack'[k].obj].done
                 /\ stack'[k].open => objs'[stack'[k].obj].props # <<>>
      <4>1. CASE k = Len(stack)
        BY <1>0, <3>1, <3>2, <3>3, <3>4, <4>1, StackObjects DEF StackInv
      <4>2. CASE k # Len(stack)
        <5>1. stack'[k] = stack[k] /\ stack[k].obj # Top.obj /\ stack[k].obj \in Objects
          BY <1>0, <3>2, <3>3, <4>2, StackObjects
        <5> QED
          BY <1>0, <3>4, <5>1 DEF StackInv
      <4> QED
        BY <4>1, <4>2
    <3>6. \A k \in 1..Len(stack) : stack'[k].type = stack[k].type
      BY <1>0, <3>1, <3>2, <3>3, StackObjects
    <3> QED
      BY <1>0, <3>2, <3>3, <3>5, <3>6 DEF StackInv
  <2>5. CASE Forget \/ Keep \/ Complete
    <3>1. stack # <<>> /\ Pop /\ \E ob \in Object : Becomes(ob)
      BY <2>5 DEF Forget, Keep, Complete, FailAndForget
    <3>2. /\ Len(stack') = Len(stack) - 1
          /\ \A k \in 1..Len(stack') : stack'[k] = stack[k]
      BY <1>0, <3>1, PopFacts
    <3>3. \A o \in Objects : o # Top.obj => objs'[o] = objs[o]
      BY <1>0, <3>1, BecomesFacts
    <3>4. \A u \in Types : u # Top.type => propertiesMap'[u] = propertiesMap[u]
      BY <1>0, <2>5 DEF Forget, Keep, Complete, FailAndForget, TypeOK
    <3>5. ASSUME NEW k \in 1..Len(stack')
          PROVE  /\ k \in 1..Len(stack)
                 /\ stack'[k] = stack[k]
                 /\ stack[k].obj \in Objects /\ stack[k].type \in Types
                 /\ stack[k].obj # Top.obj /\ stack[k].type # Top.type
      <4>1. k \in 1..Len(stack) /\ k # Len(stack) /\ stack'[k] = stack[k]
        BY <1>0, <3>1, <3>2, StackObjects
      <4> QED
        BY <1>0, <3>1, <4>1, StackObjects DEF StackInv
    <3> QED
      BY <1>0, <3>3, <3>4, <3>5 DEF StackInv
  <2> QED
    BY <2>1, <2>2, <2>3, <2>4, <2>5 DEF Effect
<1> QED
  BY <1>1, <1>2, <1>3, NextCases
LEMMA QuietStep ==
  ASSUME IInv, [Next]_vars
  PROVE  QuietInv'
<1>0. TypeOK /\ LockInv /\ QuietInv
  BY DEF IInv
<1>1. CASE UNCHANGED vars
  BY <1>0, <1>1 DEF QuietInv, NobodyBuilds, vars
<1>2. ASSUME NEW p \in Procs, Callers(p)
      PROVE  QuietInv'
  <2>1. CASE Unlock(p)
    BY <2>1 DEF Unlock, QuietInv
  <2>2. CASE ~Unlock(p)
    <3>1. UNCHANGED <<stack, ret>>
      BY <1>2, <2>2 DEF Callers, Call, RLock, Lookup, RUnlock, AnnounceLock, Lock
    <3>2. NobodyBuilds' => NobodyBuilds
      BY <1>0, <1>2, <2>2
         DEF Callers, Call, RLock, Lookup, RUnlock, AnnounceLock, Lock, NobodyBuilds, TypeOK, Goto
    <3> QED
      BY <1>0, <3>1, <3>2 DEF QuietInv
  <2> QED
    BY <2>1, <2>2
<1>3. ASSUME NEW p \in Procs, GetPropertiesLocked(p)
      PROVE  QuietInv'
  <2>1. Building(p) /\ Effect(p)
    BY <1>3, Effects
  <2>2. pc'[p] \in {"build", "panicked"}
    BY <1>0, <2>1 DEF Effect, Hit, Push, Work, Forget, Keep, Complete, Panic, Goto, Building, TypeOK
  <2> QED
    BY <2>2 DEF QuietInv, NobodyBuilds
<1> QED
  BY <1>1, <1>2, <1>3, NextCases

LEMMA CallStep ==
  ASSUME IInv, [Next]_vars
  PROVE  CallInv'
<1>0. TypeOK /\ LockInv /\ StackInv /\ QuietInv /\ CallInv
  BY DEF IInv
<1>1. CASE UNCHANGED vars
  BY <1>0, <1>1 DEF CallInv, vars
<1>2. ASSUME NEW p \in Procs, Callers(p)
      PROVE  CallInv'
  <2>1. CASE NobodyBuilds
    <3>1. stack' = <<>> /\ ret' = Pending
      BY <1>0, <1>2, <2>1 DEF QuietInv, Callers, Call, RLock, Lookup, RUnlock, AnnounceLock, Lock, Unlock
    <3> QED
      BY <3>1 DEF CallInv
  <2>2. ASSUME NEW q \in Procs, pc[q] \in {"build", "panicked"}
        PROVE  CallInv'
    <3>1. muWriter = q /\ muReaders = {}
      BY <1>0, <2>2 DEF LockInv
    <3>2. CASE p = q
      <4>1. Unlock(p)
        BY <1>2, <2>2, <3>2 DEF Callers, Call, RLock, Lookup, RUnlock, AnnounceLock, Lock
      <4> QED
        BY <4>1 DEF Unlock, CallInv
    <3>3. CASE p # q
      <4>1. Call(p) \/ RLock(p) \/ Lookup(p) \/ RUnlock(p)
        BY <1>0, <1>2, <3>1, <3>3, ProcsAssumption DEF Callers, AnnounceLock, Lock, Unlock, LockInv
      <4>2. UNCHANGED <<stack, ret, propertiesMap, muWriter>> /\ arg'[q] = arg[q] /\ pc'[q] = pc[q]
        BY <1>0, <3>3, <4>1 DEF Call, RLock, Lookup, RUnlock, Goto, TypeOK
      <4>3. (\E x \in Procs : pc'[x] = "build") => \E x \in Procs : pc[x] = "build"
        BY <1>0, <4>1 DEF Call, RLock, Lookup, RUnlock, Goto, TypeOK
      <4> QED
        BY <1>0, <3>1, <4>2, <4>3 DEF CallInv
    <3> QED
      BY <3>2, <3>3
  <2> QED
    BY <2>1, <2>2 DEF NobodyBuilds
<1>3. ASSUME NEW p \in Procs, GetPropertiesLocked(p)
      PROVE  CallInv'
  <2>1. Building(p) /\ UNCHANGED Locked /\ Effect(p)
    BY <1>3, Effects
  <2>2. /\ stack # <<>> => stack[1].type = arg[muWriter]
        /\ (stack = <<>> /\ ret \notin {Pending, Error}) => propertiesMap[arg[muWriter]] = ret.obj
    BY <1>0, <2>1 DEF CallInv, Building
  <2>3. arg' = arg /\ muWriter' = muWriter
    BY <2>1 DEF Locked
  <2>4. CASE Hit \/ Panic(p)
    BY <2>2, <2>3, <2>4, AnswersAreAnswers DEF Hit, Panic, CallInv
  <2>5. CASE Push
    <3>1. PICK t \in Types :
            /\ stack = <<>> => t = arg[muWriter]
            /\ objs' = Append(objs, NewObject(t))
            /\ stack' = Append(stack, [type |-> t, obj |-> Len(objs) + 1, i |-> 1, open |-> FALSE])
      BY <2>5 DEF Push
    <3>2. stack \in Seq(Frame) /\ Len(stack) \in Nat /\ (stack # <<>> => 1 \in 1..Len(stack))
      BY <1>0 DEF TypeOK
    <3>3. stack' # <<>>
      BY <3>1, <3>2
    <3>4. stack'[1].type = arg[muWriter]
      <4>1. CASE stack = <<>>
        BY <3>1, <4>1
      <4>2. CASE stack # <<>>
        BY <1>0, <2>2, <3>1, <3>2, <4>2, PushFacts
      <4> QED
        BY <4>1, <4>2
    <3> QED
      BY <2>3, <3>3, <3>4 DEF CallInv
  <2>6. CASE Work
    <3>1. PICK f \in Frame : f.type = Top.type /\ SetTop(f)
      BY <2>6 DEF Work
    <3>2. stack # <<>>
      BY <2>6 DEF Work
    <3>3. Len(stack') = Len(stack) /\ \A k \in 1..Len(stack) : stack'[k] = IF k = Len(stack) THEN f ELSE stack[k]
      BY <1>0, <3>1, <3>2, SetTopFacts
    <3>4. stack'[1].type = stack[1].type /\ stack' # <<>>
      BY <1>0, <3>1, <3>2, <3>3, StackObjects
    <3> QED
      BY <2>2, <2>3, <3>2, <3>4 DEF CallInv
  <2>7. CASE Forget \/ Keep \/ Complete
    <3>1. stack # <<>> /\ Pop
      BY <2>7 DEF Forget, Keep, Complete, FailAndForget
    <3>2. /\ stack' \in Seq(Frame)
          /\ Len(stack') = Len(stack) - 1
          /\ \A k \in 1..Len(stack') : stack'[k] = stack[k]
      BY <1>0, <3>1, PopFacts
    <3>3. stack' # <<>> => stack'[1].type = stack[1].type
      BY <3>2
    <3>4. (stack' = <<>> /\ ret' \notin {Pending, Error}) => propertiesMap'[arg[muWriter]] = ret'.obj
      <4>1. CASE Forget \/ Keep
        BY <4>1 DEF Forget, Keep, FailAndForget
      <4>2. ASSUME Complete, stack' = <<>>
            PROVE  propertiesMap'[arg[muWriter]] = ret'.obj
        <5>1. Len(stack) = 1
          BY <1>0, <3>1, <3>2, <4>2, StackObjects
        <5>2. Top.type = arg[muWriter] /\ propertiesMap[Top.type] = Top.obj
          BY <1>0, <2>2, <3>1, <5>1, StackObjects DEF StackInv
        <5> QED
          BY <4>2, <5>2, AnswersAreAnswers DEF Complete
      <4> QED
        BY <2>7, <4>1, <4>2
    <3> QED
      BY <2>2, <2>3, <3>1, <3>3, <3>4 DEF CallInv
  <2> QED
    BY <2>1, <2>4, <2>5, <2>6, <2>7 DEF Effect
<1> QED
  BY <1>1, <1>2, <1>3, NextCases

-----------------------------------------------------------------------------
(* The invariant and what follows from it *)

LEMMA InitIInv ==
  ASSUME Init
  PROVE  IInv
<1>1. Objects = {1}
  BY DEF Init, Objects
<1>2. TimeEntry \in Entry
  BY DEF TimeEntry, Entry
<1>3. TimeObject \in Object
  BY <1>2, TypesAssumption DEF TimeObject, Object, Types
<1>4. TypeOK
  BY <1>1, <1>3, TypesAssumption, GraphsAssumption DEF Init, TypeOK, Locations, Types
<1>5. LockInv
  BY ProcsAssumption DEF Init, LockInv
<1>6. StackInv /\ QuietInv /\ CallInv
  BY DEF Init, StackInv, QuietInv, CallInv
<1> QED
  BY <1>4, <1>5, <1>6 DEF IInv

LEMMA Inductive == IInv /\ [Next]_vars => IInv'
BY TypeStep, LockStep, StackStep, QuietStep, CallStep DEF IInv

LEMMA Invariant == Spec => []IInv
BY InitIInv, Inductive, PTL DEF Spec

\* No entry of any description points to nil, every pointer of the cache, of a goroutine
\* and of an activation is to an allocated object.
THEOREM TypeCorrect == Spec => []TypeOK
<1>1. IInv => TypeOK
  BY DEF IInv
<1> QED
  BY <1>1, Invariant, PTL

-----------------------------------------------------------------------------
(* Finished descriptions are final *)

LEMMA FinalStep ==
  ASSUME IInv, [Next]_vars
  PROVE  DoneIsFinal
<1>0. TypeOK /\ StackInv
  BY DEF IInv
<1> SUFFICES ASSUME NEW t \in Types, Cached(t), objs[propertiesMap[t]].done
             PROVE  /\ propertiesMap'[t] = propertiesMap[t]
                    /\ objs'[propertiesMap[t]] = objs[propertiesMap[t]]
  BY DEF DoneIsFinal
<1>a. propertiesMap[t] \in Objects
  BY <1>0 DEF TypeOK, Cached
<1>b. stack # <<>> => /\ propertiesMap[Top.type] = Top.obj
                      /\ ~objs[Top.obj].done
                      /\ Top.obj # propertiesMap[t] /\ Top.type # t
  BY <1>0, StackObjects DEF StackInv
<1>1. CASE UNCHANGED <<propertiesMap, objs>>
  BY <1>1
<1>2. ASSUME NEW p \in Procs, Callers(p)
      PROVE  UNCHANGED <<propertiesMap, objs>>
  BY <1>2 DEF Callers, Call, RLock, Lookup, RUnlock, AnnounceLock, Lock, Unlock
<1>3. ASSUME NEW p \in Procs, GetPropertiesLocked(p)
      PROVE  /\ propertiesMap'[t] = propertiesMap[t]
             /\ objs'[propertiesMap[t]] = objs[propertiesMap[t]]
  <2>1. Effect(p)
    BY <1>3, Effects
  <2>2. CASE Hit \/ Panic(p)
    BY <2>2 DEF Hit, Panic
  <2>3. CASE Push
    <3>1. PICK u \in Types :
            /\ ~Cached(u)
            /\ objs' = Append(objs, NewObject(u))
            /\ propertiesMap' = [propertiesMap EXCEPT ![u] = Len(objs) + 1]
      BY <2>3 DEF Push
    <3>2. u # t
      BY <3>1
    <3>3. objs \in Seq(Object) /\ propertiesMap[t] \in 1..Len(objs) /\ propertiesMap \in [Types -> Objects \cup {Nil}]
      BY <1>0, <1>a DEF TypeOK, Objects
    <3> QED
      BY <3>1, <3>2, <3>3
  <2>4. CASE Work \/ Forget \/ Keep \/ Complete
    <3>1. stack # <<>> /\ \E ob \in Object : Becomes(ob)
      BY <2>4 DEF Work, Forget, Keep, Complete
    <3>2. objs'[propertiesMap[t]] = objs[propertiesMap[t]]
      BY <1>0, <1>a, <1>b, <3>1, BecomesFacts
    <3>3. propertiesMap'[t] = propertiesMap[t]
      BY <1>0, <1>b, <2>4, <3>1 DEF Work, Forget, Keep, Complete, FailAndForget, TypeOK
    <3> QED
      BY <3>2, <3>3
  <2> QED
    BY <2>1, <2>2, <2>3, <2>4 DEF Effect
<1> QED
  BY <1>1, <1>2, <1>3, NextCases DEF vars

\* A finished description in propertiesMap is never removed, replaced or modified, so
\* the encoder and the decoder may use it without a lock (properties.go, GetProperties).
THEOREM FinishedStaysFinal == Spec => DescriptionsFinal
<1>1. IInv /\ [Next]_vars => DoneIsFinal
  BY FinalStep
<1> QED
  BY <1>1, Invariant, PTL DEF DescriptionsFinal, Spec

-----------------------------------------------------------------------------
(* With Reserved fields that parse, readers find finished descriptions only *)

\* the fields of type Reserved list numbers only
ReservedParse(d) ==
  \A t \in Structs : \A i \in 1..Len(d[t]) : d[t][i].kind = "reserved" => d[t][i].ok

\* what is in the map and not finished is being built by an activation
IncompleteOnStack ==
  \A t \in Types : (Cached(t) /\ ~objs[propertiesMap[t]].done)
                     => \E k \in 1..Len(stack) : stack[k].type = t

CompleteInv == ReservedParse(decl) /\ IncompleteOnStack

LEMMA CompleteStep ==
  ASSUME IInv, CompleteInv, [Next]_vars
  PROVE  CompleteInv'
<1>0. TypeOK /\ StackInv /\ IncompleteOnStack /\ ReservedParse(decl)
  BY DEF IInv, CompleteInv
<1>1. CASE UNCHANGED vars
  BY <1>0, <1>1 DEF CompleteInv, ReservedParse, IncompleteOnStack, Cached, vars
<1>2. ASSUME NEW p \in Procs, Callers(p)
      PROVE  CompleteInv'
  <2>1. UNCHANGED <<decl, propertiesMap, objs, stack>>
    BY <1>2 DEF Callers, Call, RLock, Lookup, RUnlock, AnnounceLock, Lock, Unlock
  <2> QED
    BY <1>0, <2>1 DEF CompleteInv, ReservedParse, IncompleteOnStack, Cached
<1>3. ASSUME NEW p \in Procs, GetPropertiesLocked(p)
      PROVE  CompleteInv'
  <2>1. UNCHANGED decl /\ Effect(p)
    BY <1>3, Effects DEF Locked
  <2>2. ReservedParse(decl')
    BY <1>0, <2>1
  <2>3. CASE Hit \/ Panic(p)
    BY <1>0, <2>1, <2>2, <2>3 DEF Hit, Panic, CompleteInv, IncompleteOnStack, Cached
  <2>4. SUFFICES ASSUME ~(Hit \/ Panic(p)), NEW t \in Types, propertiesMap'[t] # Nil, ~objs'[propertiesMap'[t]].done
                 PROVE  \E k \in 1..Len(stack') : stack'[k].type = t
    BY <2>2, <2>3 DEF CompleteInv, IncompleteOnStack, Cached
  <2>5. CASE Push
    <3>1. PICK u \in Types :
            /\ objs' = Append(objs, NewObject(u))
            /\ propertiesMap' = [propertiesMap EXCEPT ![u] = Len(objs) + 1]
            /\ stack' = Append(stack, [type |-> u, obj |-> Len(objs) + 1, i |-> 1, open |-> FALSE])
      BY <2>5 DEF Push
    <3>2. /\ Len(stack') = Len(stack) + 1
          /\ \A k \in 1..Len(stack) : stack'[k] = stack[k]
          /\ stack'[Len(stack) + 1].type = u
          /\ \A o \in Objects : objs'[o] = objs[o]
      <4>1. stack'[Len(stack) + 1] = [type |-> u, obj |-> Len(objs) + 1, i |-> 1, open |-> FALSE]
        BY <1>0, <3>1, PushFacts
      <4>2. stack'[Len(stack) + 1].type = u
        BY <4>1
      <4> QED
        BY <1>0, <3>1, <4>2, PushFacts
    <3>3. stack \in Seq(Frame)
      BY <1>0 DEF TypeOK
    <3>4. Len(stack) \in Nat
      BY <3>3
    <3>5. CASE t = u
      BY <3>2, <3>4, <3>5
    <3>6. CASE t # u
      <4>1. propertiesMap'[t] = propertiesMap[t] /\ propertiesMap[t] \in Objects \cup {Nil}
        BY <1>0, <3>1, <3>6 DEF TypeOK
      <4>2. Cached(t) /\ ~objs[propertiesMap[t]].done
        BY <2>4, <3>2, <4>1 DEF Cached
      <4> QED
        BY <1>0, <3>2, <3>4, <4>2 DEF IncompleteOnStack
    <3> QED
      BY <3>5, <3>6
  <2>6. CASE Work
    <3>1. PICK ob \in Object, f \in Frame :
            Becomes(ob) /\ ob.done = objs[Top.obj].done /\ f.type = Top.type /\ SetTop(f)
      BY <2>6 DEF Work
    <3>2. stack # <<>> /\ propertiesMap' = propertiesMap
      BY <2>6 DEF Work
    <3>3. Len(stack') = Len(stack) /\ \A k \in 1..Len(stack) : stack'[k].type = stack[k].type
      BY <1>0, <3>1, <3>2, SetTopFacts, StackObjects
    <3>4. \A o \in Objects : objs'[o].done = objs[o].done
      BY <1>0, <3>1, <3>2, BecomesFacts
    <3>5. Cached(t) /\ ~objs[propertiesMap[t]].done
      BY <1>0, <2>4, <3>2, <3>4 DEF Cached, TypeOK
    <3> QED
      BY <1>0, <3>3, <3>5 DEF IncompleteOnStack
  <2>7. CASE Forget \/ Complete
    <3>1. stack # <<>> /\ Pop /\ \E ob \in Object : Becomes(ob) /\ (ob.done \/ ob.done = objs[Top.obj].done)
      BY <2>7 DEF Forget, Complete, FailAndForget
    <3>2. Len(stack') = Len(stack) - 1 /\ \A k \in 1..Len(stack') : stack'[k] = stack[k]
      BY <1>0, <3>1, PopFacts
    <3>3. \A o \in Objects : ~objs'[o].done => ~objs[o].done
      BY <1>0, <3>1, BecomesFacts
    <3>4. t # Top.type
      <4>1. CASE Forget
        BY <1>0, <2>4, <4>1 DEF Forget, FailAndForget, TypeOK
      <4>2. CASE Complete
        <5>1. objs'[Top.obj].done
          BY <1>0, <4>2, TopInStack, BecomesFacts DEF Complete
        <5>2. propertiesMap'[Top.type] = Top.obj
          BY <1>0, <4>2, StackObjects DEF Complete, StackInv
        <5> QED
          BY <2>4, <5>1, <5>2
      <4> QED
        BY <2>7, <4>1, <4>2
    <3>5. propertiesMap'[t] = propertiesMap[t] /\ propertiesMap[t] \in Objects \cup {Nil}
      BY <1>0, <2>7, <3>4 DEF Forget, Complete, FailAndForget, TypeOK
    <3>6. Cached(t) /\ ~objs[propertiesMap[t]].done
      BY <2>4, <3>3, <3>5 DEF Cached
    <3>7. PICK k \in 1..Len(stack) : stack[k].type = t
      BY <1>0, <3>6 DEF IncompleteOnStack
    <3>8. k # Len(stack)
      BY <1>0, <3>1, <3>4, <3>7, StackObjects
    <3> QED
      BY <1>0, <3>1, <3>2, <3>7, <3>8, StackObjects
  <2>8. CASE Keep
    <3>1. stack # <<>> /\ \E i \in 1..Len(decl[Top.type]) : decl[Top.type][i].kind = "reserved" /\ ~decl[Top.type][i].ok
      BY <2>8 DEF Keep
    <3>2. Top.type \in Structs
      BY <2>8 DEF Keep
    <3> QED
      BY <1>0, <3>1, <3>2 DEF ReservedParse
  <2> QED
    BY <2>1, <2>4, <2>5, <2>6, <2>7, <2>8 DEF Effect
<1> QED
  BY <1>1, <1>2, <1>3, NextCases

LEMMA CompleteMeansComplete ==
  ASSUME IInv, IncompleteOnStack
  PROVE  CachedComplete
BY DEF IInv, QuietInv, IncompleteOnStack, CachedComplete

LEMMA InitComplete ==
  ASSUME Init, \A d \in TypeGraphs : ReservedParse(d)
  PROVE  CompleteInv
<1>1. \A t \in Types : Cached(t) => propertiesMap[t] = 1
  BY DEF Init, Cached
<1>2. objs[1].done
  BY DEF Init, TimeObject
<1> QED
  BY <1>1, <1>2 DEF Init, CompleteInv, IncompleteOnStack

\* In a program whose Reserved fields parse, whenever a reader can look into
\* propertiesMap every description in it is finished.  (CacheErrors shows that
\* the premise is needed: getPropertiesLocked forgets to forget in that error return.)
THEOREM ReadersSeeFinished ==
  ASSUME \A d \in TypeGraphs : ReservedParse(d)
  PROVE  Spec => []CachedComplete
<1>1. Init => CompleteInv
  BY InitComplete
<1>2. IInv /\ CompleteInv /\ [Next]_vars => CompleteInv'
  BY CompleteStep
<1>3. IInv /\ CompleteInv => CachedComplete
  BY CompleteMeansComplete DEF CompleteInv
<1> QED
  BY <1>1, <1>2, <1>3, Invariant, PTL DEF Spec

-----------------------------------------------------------------------------
(* One description per type *)

\* the pointer a goroutine got is the one in the map, and it is finished
AnswerInv ==
  \A p \in Procs : (pc[p] \in {"idle", "runlock"} /\ res[p] # Nil) =>
    /\ propertiesMap[arg[p]] = res[p]
    /\ objs[res[p]].done

LEMMA AnswerStep ==
  ASSUME IInv, CompleteInv, AnswerInv, [Next]_vars
  PROVE  AnswerInv'
<1>0. TypeOK /\ LockInv /\ QuietInv /\ CallInv /\ IncompleteOnStack /\ DoneIsFinal
  BY FinalStep DEF IInv, CompleteInv
<1>1. ASSUME NEW q \in Procs, res'[q] = res[q], arg'[q] = arg[q], res[q] # Nil,
             pc[q] \in {"idle", "runlock"}
      PROVE  propertiesMap'[arg'[q]] = res'[q] /\ objs'[res'[q]].done
  <2>1. propertiesMap[arg[q]] = res[q] /\ objs[res[q]].done
    BY <1>1 DEF AnswerInv
  <2>2. arg[q] \in Types /\ Cached(arg[q])
    BY <1>0, <1>1, <2>1 DEF TypeOK, Types, Cached
  <2> QED
    BY <1>0, <1>1, <2>1, <2>2 DEF DoneIsFinal
<1>2. CASE UNCHANGED vars
  BY <1>2 DEF vars, AnswerInv
<1>3. ASSUME NEW p \in Procs, Lookup(p)
      PROVE  AnswerInv'
  <2>1. NobodyBuilds
    BY <1>0, <1>3 DEF Lookup, LockInv, NobodyBuilds
  <2>2. res'[p] # Nil => propertiesMap[arg[p]] = res'[p] /\ objs[res'[p]].done
    <3>1. arg[p] \in Types /\ res'[p] = propertiesMap[arg[p]]
      BY <1>0, <1>3 DEF Lookup, TypeOK, Types
    <3>2. CachedComplete
      BY <1>0, CompleteMeansComplete
    <3> QED
      BY <2>1, <3>1, <3>2 DEF CachedComplete, Cached
  <2>3. UNCHANGED <<propertiesMap, objs, arg>> /\ \A q \in Procs : q # p => res'[q] = res[q] /\ pc'[q] = pc[q]
    BY <1>0, <1>3 DEF Lookup, Goto, TypeOK
  <2> QED
    BY <2>2, <2>3 DEF AnswerInv
<1>4. ASSUME NEW p \in Procs, Unlock(p)
      PROVE  AnswerInv'
  <2>1. ret.obj # Nil => propertiesMap[arg[p]] = ret.obj /\ objs[ret.obj].done
    <3>1. muWriter = p /\ stack = <<>> /\ ret # Pending /\ arg[p] \in Types
      BY <1>0, <1>4 DEF Unlock, LockInv, TypeOK, Types
    <3>2. ret.obj # Nil => propertiesMap[arg[p]] = ret.obj
      BY <1>0, <1>4, <3>1, AnswersAreAnswers DEF Unlock, CallInv, Error
    <3> QED
      BY <1>0, <3>1, <3>2 DEF IncompleteOnStack, Cached
  <2>2. /\ UNCHANGED <<propertiesMap, objs, arg>>
        /\ res'[p] = ret.obj
        /\ \A q \in Procs : q # p => res'[q] = res[q] /\ pc'[q] = pc[q]
    BY <1>0, <1>4 DEF Unlock, Goto, TypeOK
  <2> QED
    BY <2>1, <2>2 DEF AnswerInv
<1>5. ASSUME NEW p \in Procs, Call(p)
      PROVE  AnswerInv'
  <2>1. /\ UNCHANGED <<propertiesMap, objs>>
        /\ res'[p] = Nil
        /\ \A q \in Procs : q # p => res'[q] = res[q] /\ pc'[q] = pc[q] /\ arg'[q] = arg[q]
    BY <1>0, <1>5 DEF Call, Goto, TypeOK
  <2> QED
    BY <2>1 DEF AnswerInv
<1>6. ASSUME NEW p \in Procs, RLock(p) \/ RUnlock(p) \/ AnnounceLock(p) \/ Lock(p)
      PROVE  AnswerInv'
  <2>1. UNCHANGED <<propertiesMap, objs, arg, res>>
    BY <1>6 DEF RLock, RUnlock, AnnounceLock, Lock
  <2>2. \A q \in Procs : (pc'[q] \in {"idle", "runlock"} /\ res[q] # Nil) => pc[q] \in {"idle", "runlock"}
    BY <1>0, <1>6 DEF RLock, RUnlock, AnnounceLock, Lock, Goto, TypeOK
  <2> QED
    BY <2>1, <2>2 DEF AnswerInv
<1>7. ASSUME NEW p \in Procs, GetPropertiesLocked(p)
      PROVE  AnswerInv'
  <2>1. UNCHANGED Locked /\ Effect(p)
    BY <1>7, Effects
  <2>2. UNCHANGED <<arg, res>>
    BY <2>1 DEF Locked
  <2>3. \A q \in Procs : pc'[q] \in {"idle", "runlock"} => pc[q] \in {"idle", "runlock"}
    BY <1>0, <2>1 DEF Effect, Hit, Push, Work, Forget, Keep, Complete, Panic, Goto, TypeOK
  <2> QED
    BY <1>1, <2>2, <2>3 DEF AnswerInv
<1> QED
  BY <1>2, <1>3, <1>4, <1>5, <1>6, <1>7, NextCases DEF Callers

\* In a program whose Reserved fields parse, all the successful calls for a type return
\* one pointer, whatever goroutines make them and however they interleave.
THEOREM OnePointerPerType ==
  ASSUME \A d \in TypeGraphs : ReservedParse(d)
  PROVE  Spec => []OnePointer
<1>1. Init => CompleteInv /\ AnswerInv
  BY InitComplete DEF Init, AnswerInv
<1>2. IInv /\ CompleteInv /\ AnswerInv /\ [Next]_vars => CompleteInv' /\ AnswerInv'
  BY CompleteStep, AnswerStep
<1>3. AnswerInv => OnePointer
  BY DEF AnswerInv, OnePointer, Got
<1> QED
  BY <1>1, <1>2, <1>3, Invariant, PTL DEF Spec

-----------------------------------------------------------------------------
(* Induction over the natural numbers, with a set in place of a property, and what is      *)
(* defined by recursion                                                                    *)

\* no natural number has infinitely many before it
Less == {p \in Nat \X Nat : p[1] < p[2]}

\* every set of natural numbers has a least one
LEMMA LeastNat ==
  ASSUME NEW S \in SUBSET Nat, S # {}
  PROVE  \E m \in S : \A k \in S : m <= k
<1>1. IsWellFoundedOn(Less, Nat)
  BY NatLessThanWellFounded DEF Less, OpToRel
<1>2. PICK m \in S : \A k \in S : <<k, m>> \notin Less
  BY <1>1, WFMin
<1>3. ASSUME NEW k \in S PROVE m <= k
  <2>1. k \in Nat /\ m \in Nat /\ <<k, m>> \in Nat \X Nat
    OBVIOUS
  <2>2. ~(k < m)
    BY <1>2, <2>1 DEF Less
  <2> QED
    BY <2>1, <2>2
<1> QED
  BY <1>3

LEMMA SetInduction ==
  ASSUME NEW S, 0 \in S, \A k \in Nat : k \in S => k + 1 \in S
  PROVE  Nat \subseteq S
<1> SUFFICES ASSUME Nat \ S # {} PROVE FALSE
  OBVIOUS
<1>1. PICK m \in Nat \ S : \A k \in Nat \ S : m <= k
  BY LeastNat
<1>2. m # 0 /\ m - 1 \in Nat
  BY <1>1
<1>3. m - 1 \in S
  BY <1>1, <1>2
<1> QED
  BY <1>1, <1>2, <1>3

\* up to a bound
LEMMA InductionUpTo ==
  ASSUME NEW N \in Nat, NEW S, 0 \in S, \A k \in 0..(N - 1) : k \in S => k + 1 \in S
  PROVE  0..N \subseteq S
<1> DEFINE T == {k \in Nat : k <= N => k \in S}
<1>1. 0 \in T
  OBVIOUS
<1>2. ASSUME NEW k \in Nat, k \in T PROVE k + 1 \in T
  <2> SUFFICES ASSUME k + 1 <= N PROVE k + 1 \in S
    OBVIOUS
  <2>1. k \in 0..(N - 1) /\ k \in S
    BY <1>2
  <2> QED
    BY <2>1
<1> HIDE DEF T
<1>3. Nat \subseteq T
  BY <1>1, <1>2, SetInduction
<1> QED
  BY <1>3 DEF T

\* what starts as a and goes on by G, for n steps
StepsUpTo(a, G, n, R) == R[0] = a /\ \A k \in 0..(n - 1) : R[k + 1] = G[R[k]]

LEMMA StepsAgree ==
  ASSUME NEW a, NEW G, NEW m \in Nat, NEW n \in Nat, m <= n, NEW A, NEW B,
         StepsUpTo(a, G, m, A), StepsUpTo(a, G, n, B)
  PROVE  A[m] = B[m]
<1> DEFINE S == {k \in Nat : k <= m => A[k] = B[k]}
<1>1. 0 \in S
  BY DEF StepsUpTo
<1>2. ASSUME NEW k \in Nat, k \in S PROVE k + 1 \in S
  <2> SUFFICES ASSUME k + 1 <= m PROVE A[k + 1] = B[k + 1]
    OBVIOUS
  <2>1. k \in 0..(m - 1) /\ k \in 0..(n - 1) /\ A[k] = B[k]
    BY <1>2
  <2> QED
    BY <2>1 DEF StepsUpTo
<1> HIDE DEF S
<1>3. Nat \subseteq S
  BY <1>1, <1>2, SetInduction
<1> QED
  BY <1>3 DEF S

\* for ever
Steps(a, G, R) == R = [n \in Nat |-> R[n]] /\ R[0] = a /\ \A n \in Nat : R[n + 1] = G[R[n]]

\* there is a function that does so: one defined by recursion exists
LEMMA StepsExist ==
  ASSUME NEW a, NEW G
  PROVE  \E R : Steps(a, G, R)
<1> DEFINE S == {n \in Nat : \E R : StepsUpTo(a, G, n, R)}
<1>1. 0 \in S
  <2>1. StepsUpTo(a, G, 0, [k \in 0..0 |-> a])
    BY DEF StepsUpTo
  <2> QED
    BY <2>1
<1>2. ASSUME NEW n \in Nat, n \in S PROVE n + 1 \in S
  <2>1. PICK R : StepsUpTo(a, G, n, R)
    BY <1>2
  <2> DEFINE Q == [k \in 0..(n + 1) |-> IF k = n + 1 THEN G[R[n]] ELSE R[k]]
  <2>2. Q[0] = a
    BY <2>1 DEF StepsUpTo
  <2>3. ASSUME NEW k \in 0..((n + 1) - 1) PROVE Q[k + 1] = G[Q[k]]
    <3>1. CASE k = n
      BY <3>1
    <3>2. CASE k # n
      <4>1. k \in 0..(n - 1) /\ k + 1 \in 0..(n + 1) /\ k + 1 # n + 1 /\ k \in 0..(n + 1) /\ k # n + 1
        BY <3>2
      <4> QED
        BY <2>1, <4>1 DEF StepsUpTo
    <3> QED
      BY <3>1, <3>2
  <2> HIDE DEF Q
  <2>4. StepsUpTo(a, G, n + 1, Q)
    BY <2>2, <2>3 DEF StepsUpTo
  <2> QED
    BY <2>4
<1> HIDE DEF S
<1>3. Nat \subseteq S
  BY <1>1, <1>2, SetInduction
<1> USE DEF S
<1> DEFINE Upto(n) == CHOOSE R : StepsUpTo(a, G, n, R)
           F == [n \in Nat |-> Upto(n)[n]]
<1>4. ASSUME NEW n \in Nat PROVE StepsUpTo(a, G, n, Upto(n))
  BY <1>3
<1> HIDE DEF Upto
<1>5. F[0] = a
  BY <1>4 DEF StepsUpTo
<1>6. ASSUME NEW n \in Nat PROVE F[n + 1] = G[F[n]]
  <2>1. n + 1 \in Nat /\ n <= n + 1 /\ n \in 0..((n + 1) - 1)
    OBVIOUS
  <2>2. StepsUpTo(a, G, n, Upto(n)) /\ StepsUpTo(a, G, n + 1, Upto(n + 1))
    BY <1>4, <2>1
  <2>3. Upto(n)[n] = Upto(n + 1)[n]
    BY <2>1, <2>2, StepsAgree
  <2>4. Upto(n + 1)[n + 1] = G[Upto(n + 1)[n]]
    BY <2>1, <2>2 DEF StepsUpTo
  <2> QED
    BY <2>1, <2>3, <2>4
<1>7. F = [n \in Nat |-> F[n]]
  OBVIOUS
<1> HIDE DEF F
<1>8. Steps(a, G, F)
  BY <1>5, <1>6, <1>7 DEF Steps
<1> QED
  BY <1>8

-----------------------------------------------------------------------------
(* Closures *)

\* what R leads to from t, in n rounds
Rounds(R, t, F) == F[0] = {t} /\ \A n \in Nat : F[n + 1] = F[n] \cup UNION {R[s] : s \in F[n]}

\* the least set that has t and what R leads to from its members
IsClosure(U, R, t, L) ==
  /\ L \in SUBSET U
  /\ t \in L
  /\ \A s \in L : R[s] \subseteq L
  /\ \A A \in SUBSET U : (t \in A /\ \A s \in A : R[s] \subseteq A) => L \subseteq A

LEMMA RoundsGrow ==
  ASSUME NEW U, NEW R \in [U -> SUBSET U], NEW t \in U, NEW F, Rounds(R, t, F)
  PROVE  \A n \in Nat : F[n] \in SUBSET U /\ t \in F[n] /\ F[n] \subseteq F[n + 1]
<1> DEFINE S == {n \in Nat : F[n] \in SUBSET U /\ t \in F[n]}
<1>1. 0 \in S
  BY DEF Rounds
<1>2. ASSUME NEW k \in Nat, k \in S PROVE k + 1 \in S
  <2>1. F[k + 1] = F[k] \cup UNION {R[s] : s \in F[k]}
    BY DEF Rounds
  <2>2. \A s \in F[k] : R[s] \subseteq U
    BY <1>2
  <2> QED
    BY <1>2, <2>1, <2>2
<1> HIDE DEF S
<1>3. Nat \subseteq S
  BY <1>1, <1>2, SetInduction
<1> QED
  BY <1>3 DEF S, Rounds

\* there are no more than as many rounds as there are elements
LEMMA RoundsEnd ==
  ASSUME NEW U, IsFiniteSet(U), NEW R \in [U -> SUBSET U], NEW t \in U, NEW F, Rounds(R, t, F)
  PROVE  IsClosure(U, R, t, F[Cardinality(U)])
<1> DEFINE N == Cardinality(U)
<1>1. N \in Nat
  BY FS_CardinalityType
<1> HIDE DEF N
<1>2. \A n \in Nat : F[n] \in SUBSET U /\ t \in F[n] /\ F[n] \subseteq F[n + 1]
  BY RoundsGrow
<1>3. \A n \in Nat : F[n + 1] = F[n] \cup UNION {R[s] : s \in F[n]}
  BY DEF Rounds
<1>4. \E k \in 0..N : F[k] = F[k + 1]
  <2> SUFFICES ASSUME \A k \in 0..N : F[k] # F[k + 1] PROVE FALSE
    OBVIOUS
  <2> DEFINE S == {n \in Nat : n <= N + 1 => Cardinality(F[n]) >= n}
  <2>1. 0 \in S
    <3>1. IsFiniteSet(F[0])
      BY <1>2, FS_Subset
    <3> QED
      BY <3>1, FS_CardinalityType
  <2>2. ASSUME NEW k \in Nat, k \in S PROVE k + 1 \in S
    <3> SUFFICES ASSUME k + 1 <= N + 1 PROVE Cardinality(F[k + 1]) >= k + 1
      OBVIOUS
    <3>1. k \in 0..N /\ k <= N + 1
      BY <1>1
    <3>2. F[k] \subseteq F[k + 1] /\ F[k] # F[k + 1]
      BY <1>2, <3>1
    <3>3. IsFiniteSet(F[k + 1]) /\ IsFiniteSet(F[k])
      BY <1>2, FS_Subset
    <3>4. Cardinality(F[k]) \in Nat /\ Cardinality(F[k + 1]) \in Nat
      BY <3>3, FS_CardinalityType
    <3>5. Cardinality(F[k]) <= Cardinality(F[k + 1]) /\ Cardinality(F[k + 1]) # Cardinality(F[k])
      BY <3>2, <3>3, FS_Subset
    <3>6. Cardinality(F[k]) >= k
      BY <2>2, <3>1
    <3> QED
      BY <3>4, <3>5, <3>6
  <2> HIDE DEF S
  <2>3. Nat \subseteq S
    BY <2>1, <2>2, SetInduction
  <2>4. Cardinality(F[N + 1]) >= N + 1
    BY <1>1, <2>3 DEF S
  <2>5. F[N + 1] \in SUBSET U
    BY <1>1, <1>2
  <2>6. IsFiniteSet(F[N + 1]) /\ Cardinality(F[N + 1]) <= Cardinality(U)
    BY <2>5, FS_Subset
  <2>7. Cardinality(F[N + 1]) \in Nat
    BY <2>6, FS_CardinalityType
  <2> QED
    BY <1>1, <2>4, <2>6, <2>7 DEF N
<1>5. PICK k \in 0..N : F[k] = F[k + 1]
  BY <1>4
<1>6. \A n \in Nat : F[k + n] = F[k]
  <2> DEFINE S == {n \in Nat : F[k + n] = F[k]}
  <2>0. k \in Nat
    BY <1>1
  <2>1. 0 \in S
    BY <2>0
  <2>2. ASSUME NEW n \in Nat, n \in S PROVE n + 1 \in S
    <3>1. k + n \in Nat /\ k + (n + 1) = (k + n) + 1
      BY <2>0
    <3>2. F[k + (n + 1)] = F[k + n] \cup UNION {R[s] : s \in F[k + n]}
      BY <1>3, <3>1
    <3>3. F[k + 1] = F[k] \cup UNION {R[s] : s \in F[k]}
      BY <1>3, <2>0
    <3>4. F[k + n] = F[k]
      BY <2>2
    <3>5. F[k + (n + 1)] = F[k + 1]
      BY <3>2, <3>3, <3>4
    <3>6. k + (n + 1) \in Nat /\ n + 1 \in Nat /\ F[k + (n + 1)] = F[k]
      BY <2>0, <3>1, <3>5, <1>5
    <3> QED
      BY <3>6
  <2> HIDE DEF S
  <2>3. Nat \subseteq S
    BY <2>1, <2>2, SetInduction
  <2> QED
    BY <2>3 DEF S
<1>7. F[N] = F[k] /\ F[N + 1] = F[k]
  <2>1. N - k \in Nat /\ k + (N - k) = N
    BY <1>1
  <2>2. (N + 1) - k \in Nat /\ k + ((N + 1) - k) = N + 1
    BY <1>1
  <2>3. F[k + (N - k)] = F[k] /\ F[k + ((N + 1) - k)] = F[k]
    BY <1>6, <2>1, <2>2
  <2> QED
    BY <2>1, <2>2, <2>3
<1>8. \A s \in F[N] : R[s] \subseteq F[N]
  <2>1. F[N + 1] = F[N] \cup UNION {R[s] : s \in F[N]}
    BY <1>1, <1>3
  <2> QED
    BY <1>7, <2>1
<1>9. ASSUME NEW A \in SUBSET U, t \in A, \A s \in A : R[s] \subseteq A PROVE F[N] \subseteq A
  <2> DEFINE S == {n \in Nat : F[n] \subseteq A}
  <2>1. 0 \in S
    BY <1>9 DEF Rounds
  <2>2. ASSUME NEW n \in Nat, n \in S PROVE n + 1 \in S
    <3>1. F[n + 1] = F[n] \cup UNION {R[s] : s \in F[n]}
      BY <1>3
    <3>2. \A s \in F[n] : R[s] \subseteq A
      BY <1>9, <2>2
    <3> QED
      BY <2>2, <3>1, <3>2
  <2> HIDE DEF S
  <2>3. Nat \subseteq S
    BY <2>1, <2>2, SetInduction
  <2> QED
    BY <1>1, <2>3 DEF S
<1>10. F[N] \in SUBSET U /\ t \in F[N]
  BY <1>1, <1>2
<1>11. IsClosure(U, R, t, F[N])
  BY <1>8, <1>9, <1>10 DEF IsClosure
<1> QED
  BY <1>11 DEF N

\* rounds exist, as the functions by which the specifications define them
LEMMA RoundsExist ==
  ASSUME NEW U, NEW R \in [U -> SUBSET U], NEW t \in U
  PROVE  \E F : F = [n \in Nat |-> F[n]] /\ Rounds(R, t, F)
<1> DEFINE G == [S \in SUBSET U |-> S \cup UNION {R[s] : s \in S}]
<1>0. PICK F : Steps({t}, G, F)
  BY StepsExist
<1>1. F = [n \in Nat |-> F[n]] /\ F[0] = {t} /\ \A n \in Nat : F[n + 1] = G[F[n]]
  BY <1>0 DEF Steps
<1>2. ASSUME NEW X \in SUBSET U PROVE G[X] = X \cup UNION {R[s] : s \in X} /\ G[X] \in SUBSET U
  <2>1. \A s \in X : R[s] \subseteq U
    OBVIOUS
  <2>2. G[X] = X \cup UNION {R[s] : s \in X}
    OBVIOUS
  <2> HIDE DEF G
  <2>3. X \cup UNION {R[s] : s \in X} \in SUBSET U
    BY <2>1
  <2> QED
    BY <2>2, <2>3
<1> HIDE DEF G
<1> DEFINE S == {n \in Nat : F[n] \in SUBSET U}
<1>3. 0 \in S
  BY <1>1
<1>4. ASSUME NEW k \in Nat, k \in S PROVE k + 1 \in S
  BY <1>1, <1>2, <1>4
<1> HIDE DEF S
<1>5. Nat \subseteq S
  BY <1>3, <1>4, SetInduction
<1>6. \A n \in Nat : F[n + 1] = F[n] \cup UNION {R[s] : s \in F[n]}
  BY <1>1, <1>2, <1>5 DEF S
<1> QED
  BY <1>1, <1>6 DEF Rounds

\* a closure is the only one
LEMMA OneClosure ==
  ASSUME NEW U, NEW R, NEW t, NEW K, NEW L, IsClosure(U, R, t, K), IsClosure(U, R, t, L)
  PROVE  K = L
BY DEF IsClosure

-----------------------------------------------------------------------------
(* What the declarations of a program in order say *)

\* the program is one that the promise is made to
ProgramInOrder == decl \in TypeGraphs /\ InOrder(decl)

LEMMA DeclFacts ==
  ASSUME ProgramInOrder, NEW t \in Structs, NEW i \in 1..Len(decl[t])
  PROVE  /\ decl[t] \in Seq(FieldDecl) /\ Len(decl[t]) \in Nat
         /\ decl[t][i] \in FieldDecl
         /\ decl[t][i].to \in Seq(Structs)
         /\ \A j \in 1..Len(decl[t][i].to) : decl[t][i].to[j] \in Structs
         /\ decl[t][i].kind = "embedded" => /\ Len(decl[t][i].to) = 1 /\ decl[t][i].to[1] \in Structs
                                            /\ decl[t][i].ok
         /\ decl[t][i].kind = "reserved" => decl[t][i].to = <<>> /\ decl[t][i].ok
         /\ decl[t][i].kind = "skip" => decl[t][i].to = <<>> /\ decl[t][i].ok
<1>1. decl \in [Structs -> Seq(FieldDecl)]
  BY GraphsAssumption DEF ProgramInOrder
<1>2. decl[t] \in Seq(FieldDecl) /\ decl[t][i] \in FieldDecl /\ Len(decl[t]) \in Nat
  BY <1>1
<1>3. /\ decl[t][i].kind = "embedded" => Len(decl[t][i].to) = 1
      /\ decl[t][i].kind \in {"skip", "reserved"} => decl[t][i].to = <<>>
      /\ decl[t][i].kind \in {"skip", "embedded"} => decl[t][i].ok
  BY GraphsAssumption DEF ProgramInOrder
<1>4. /\ \A j \in 1..Len(decl[t][i].to) : decl[t][i].to[j] \in Structs
      /\ decl[t][i].kind = "reserved" => decl[t][i].ok
  BY DEF ProgramInOrder, InOrder
<1>5. decl[t][i].to \in Seq(Types)
  BY <1>2 DEF FieldDecl
<1>6. decl[t][i].to \in Seq(Structs)
  <2> DEFINE s == decl[t][i].to
  <2>1. s = [j \in 1..Len(s) |-> s[j]] /\ Len(s) \in Nat
    BY <1>5
  <2>2. \A j \in 1..Len(s) : s[j] \in Structs
    BY <1>4
  <2> HIDE DEF s
  <2>3. s \in Seq(Structs)
    BY <2>1, <2>2
  <2> QED
    BY <2>3 DEF s
<1>7. Len(decl[t][i].to) = 1 => decl[t][i].to[1] \in Structs
  BY <1>4
<1> QED
  BY <1>2, <1>3, <1>4, <1>6, <1>7

LEMMA TimeHasNoFields ==
  ASSUME ProgramInOrder
  PROVE  decl[TimeType] = <<>> /\ TimeType \in Structs /\ Oracle!Mentions(TimeType) = {}
<1>1. decl[TimeType] = <<>> /\ TimeType \in Structs
  BY GraphsAssumption, TypesAssumption DEF ProgramInOrder
<1>2. Len(decl[TimeType]) = 0
  BY <1>1
<1>3. 1..Len(decl[TimeType]) = {}
  BY <1>2
<1> QED
  BY <1>1, <1>3 DEF Oracle!Mentions

\* the struct types that the fields of t mention
MentionedBy == [t \in Structs |-> Oracle!Mentions(t)]

LEMMA MentionsAre ==
  ASSUME ProgramInOrder, NEW t \in Structs, NEW u
  PROVE  u \in Oracle!Mentions(t)
           <=> \E i \in 1..Len(decl[t]) : \E j \in 1..Len(decl[t][i].to) : u = decl[t][i].to[j]
BY DEF Oracle!Mentions

LEMMA MentionsInside ==
  ASSUME ProgramInOrder
  PROVE  MentionedBy \in [Structs -> SUBSET Structs]
<1>1. ASSUME NEW t \in Structs, NEW u \in Oracle!Mentions(t) PROVE u \in Structs
  BY <1>1, MentionsAre, DeclFacts
<1> QED
  BY <1>1 DEF MentionedBy

LEMMA ReachIs ==
  ASSUME ProgramInOrder, NEW t \in Structs
  PROVE  IsClosure(Structs, MentionedBy, t, Oracle!Reach(t))
<1>1. IsFiniteSet(Structs)
  BY TypesAssumption
<1> DEFINE N == Cardinality(Structs)
           Def(F) == F = [n \in Nat |-> IF n = 0 THEN {t}
                                        ELSE LET S == F[n - 1] IN S \cup UNION {Oracle!Mentions(s) : s \in S}]
           G == CHOOSE F : Def(F)
<1>2. N \in Nat
  BY <1>1, FS_CardinalityType
<1>3. Oracle!Cardinality(Structs) = N
  BY DEF Oracle!Cardinality, Cardinality
<1>4. Oracle!Reach(t) = G[N]
  BY <1>3 DEF Oracle!Reach, Oracle!Closure
<1>5. \E F : Def(F)
  <2>1. PICK F : F = [n \in Nat |-> F[n]] /\ Rounds(MentionedBy, t, F)
    BY RoundsExist, MentionsInside
  <2>2. \A n \in Nat : F[n] \in SUBSET Structs
    BY <2>1, RoundsGrow, MentionsInside
  <2>3. ASSUME NEW n \in Nat
        PROVE  F[n] = IF n = 0 THEN {t}
                      ELSE LET S == F[n - 1] IN S \cup UNION {Oracle!Mentions(s) : s \in S}
    <3>1. CASE n = 0
      BY <2>1, <3>1 DEF Rounds
    <3>2. CASE n # 0
      <4>1. n - 1 \in Nat /\ (n - 1) + 1 = n
        BY <3>2
      <4>2. F[n] = F[n - 1] \cup UNION {MentionedBy[s] : s \in F[n - 1]}
        BY <2>1, <4>1 DEF Rounds
      <4>3. {MentionedBy[s] : s \in F[n - 1]} = {Oracle!Mentions(s) : s \in F[n - 1]}
        BY <2>2, <4>1 DEF MentionedBy
      <4> QED
        BY <3>2, <4>2, <4>3
    <3> QED
      BY <3>1, <3>2
  <2>4. Def(F)
    BY <2>1, <2>3
  <2> QED
    BY <2>4
<1>6. Def(G)
  BY <1>5
<1>7. Rounds(MentionedBy, t, G)
  <2> HIDE DEF G
  <2>1. G[0] = {t}
    BY <1>6
  <2>2. ASSUME NEW n \in Nat PROVE G[n + 1] = G[n] \cup UNION {Oracle!Mentions(s) : s \in G[n]}
    <3>1. n + 1 \in Nat /\ n + 1 # 0 /\ (n + 1) - 1 = n
      OBVIOUS
    <3> QED
      BY <1>6, <3>1
  <2>3. \A n \in Nat : G[n] \in SUBSET Structs
    <3> DEFINE S == {n \in Nat : G[n] \in SUBSET Structs}
    <3>1. 0 \in S
      BY <2>1
    <3>2. ASSUME NEW k \in Nat, k \in S PROVE k + 1 \in S
      <4>1. G[k] \in SUBSET Structs
        BY <3>2
      <4>2. \A s \in G[k] : Oracle!Mentions(s) \subseteq Structs
        BY <4>1, MentionsInside DEF MentionedBy
      <4>3. G[k + 1] \in SUBSET Structs
        BY <2>2, <4>1, <4>2
      <4> QED
        BY <4>3
    <3> HIDE DEF S
    <3>3. Nat \subseteq S
      BY <3>1, <3>2, SetInduction
    <3> QED
      BY <3>3 DEF S
  <2>4. ASSUME NEW n \in Nat PROVE {MentionedBy[s] : s \in G[n]} = {Oracle!Mentions(s) : s \in G[n]}
    BY <2>3 DEF MentionedBy
  <2> QED
    BY <2>1, <2>2, <2>4 DEF Rounds
<1> HIDE DEF G, N
<1>8. IsClosure(Structs, MentionedBy, t, G[N])
  BY <1>1, <1>7, MentionsInside, RoundsEnd DEF N
<1> QED
  BY <1>4, <1>8

LEMMA ReachFacts ==
  ASSUME ProgramInOrder, NEW t \in Structs
  PROVE  /\ Oracle!Reach(t) \subseteq Structs
         /\ t \in Oracle!Reach(t)
         /\ Oracle!Mentions(t) \subseteq Oracle!Reach(t)
         /\ \A u \in Oracle!Reach(t) : Oracle!Reach(u) \subseteq Oracle!Reach(t)
         /\ \A u \in Oracle!Reach(t) : Oracle!Mentions(u) \subseteq Oracle!Reach(t)
<1>1. IsClosure(Structs, MentionedBy, t, Oracle!Reach(t))
  BY ReachIs
<1>2. Oracle!Reach(t) \subseteq Structs /\ t \in Oracle!Reach(t)
  BY <1>1 DEF IsClosure
<1>3. \A u \in Oracle!Reach(t) : Oracle!Mentions(u) \subseteq Oracle!Reach(t)
  BY <1>1, <1>2 DEF IsClosure, MentionedBy
<1>4. ASSUME NEW u \in Oracle!Reach(t) PROVE Oracle!Reach(u) \subseteq Oracle!Reach(t)
  <2>1. IsClosure(Structs, MentionedBy, u, Oracle!Reach(u))
    BY <1>2, ReachIs
  <2> QED
    BY <1>1, <2>1 DEF IsClosure
<1> QED
  BY <1>2, <1>3, <1>4

\* a type is valid when all it mentions are and it is in order itself
LEMMA ValidFacts ==
  ASSUME ProgramInOrder, NEW t \in Structs
  PROVE  /\ Oracle!Valid(t) => ~Oracle!Broken(t)
         /\ \A u \in Oracle!Reach(t) : Oracle!Valid(t) => Oracle!Valid(u)
<1>1. Oracle!Valid(t) => ~Oracle!Broken(t)
  BY ReachFacts DEF Oracle!Valid
<1>2. ASSUME NEW u \in Oracle!Reach(t), Oracle!Valid(t) PROVE Oracle!Valid(u)
  BY <1>2, ReachFacts DEF Oracle!Valid
<1> QED
  BY <1>1, <1>2

\* types that lead to one another are in order, and none embeds another
LEMMA CyclesAreInOrder ==
  ASSUME ProgramInOrder, NEW t \in Structs, NEW u \in Oracle!Reach(t), t \in Oracle!Reach(u)
  PROVE  /\ t # u => Oracle!Valid(t)
         /\ \A i \in 1..Len(decl[t]) : decl[t][i].kind = "embedded" => u # decl[t][i].to[1]
<1>1. u \in Structs
  BY ReachFacts
<1>2. \A s \in Structs : O(decl)!Reach(s) = Oracle!Reach(s)
  BY DEF O!Reach, Oracle!Reach, O!Closure, Oracle!Closure, O!Mentions, Oracle!Mentions, O!Cardinality, Oracle!Cardinality
<1>3. O(decl)!Valid(t) <=> Oracle!Valid(t)
  <2>1. \A s \in Structs : O(decl)!Broken(s) <=> Oracle!Broken(s)
    BY DEF O!Broken, Oracle!Broken, O!TagClash, Oracle!TagClash, O!Leaves, Oracle!Leaves, O!LeavesTo, Oracle!LeavesTo,
           O!ReservedBy, Oracle!ReservedBy, O!At, Oracle!At, O!OwnLeaf, Oracle!OwnLeaf, O!TimeLeaf, Oracle!TimeLeaf,
           O!Cardinality, Oracle!Cardinality
  <2> QED
    BY <1>2, <2>1, ReachFacts DEF O!Valid, Oracle!Valid
<1>4. t # u => Oracle!Valid(t)
  BY <1>1, <1>2, <1>3 DEF ProgramInOrder, InOrder, CyclesInOrder
<1>5. ASSUME NEW i \in 1..Len(decl[t]), decl[t][i].kind = "embedded" PROVE u # decl[t][i].to[1]
  <2>1. i \in O(decl)!At(t, "embedded")
    BY <1>5 DEF O!At
  <2> QED
    BY <1>1, <1>2, <2>1 DEF ProgramInOrder, InOrder, NoCycleEmbeds
<1> QED
  BY <1>4, <1>5

-----------------------------------------------------------------------------
(* The fields of a message: a struct's own and those of the structs it embeds *)

Leaf == [tag : Nat, offset : Seq(Nat), to : Seq(Structs)]

\* the fields in S, of a struct that is embedded as field i
Moved(i, S) == {[e EXCEPT !.offset = <<i>> \o @] : e \in S}

OwnLeaves(t) == {Oracle!OwnLeaf(t, i) : i \in Oracle!At(t, "field")}

\* one level of embedding more than in L
Deeper(L) ==
  [t \in Structs |->
     IF t = TimeType THEN {Oracle!TimeLeaf}
     ELSE OwnLeaves(t) \cup UNION {Moved(i, L[decl[t][i].to[1]]) : i \in Oracle!At(t, "embedded")}]

NotEmbedding == [t \in Structs |-> IF t = TimeType THEN {Oracle!TimeLeaf} ELSE OwnLeaves(t)]

LEMMA LeafTypes ==
  ASSUME ProgramInOrder
  PROVE  /\ Oracle!TimeLeaf \in Leaf
         /\ \A t \in Structs : OwnLeaves(t) \subseteq Leaf
         /\ \A i \in Nat, S \in SUBSET Leaf : Moved(i, S) \subseteq Leaf
<1>1. Oracle!TimeLeaf \in Leaf
  BY DEF Oracle!TimeLeaf, Leaf
<1>2. ASSUME NEW t \in Structs, NEW i \in Oracle!At(t, "field") PROVE Oracle!OwnLeaf(t, i) \in Leaf
  <2>1. i \in 1..Len(decl[t])
    BY DEF Oracle!At
  <2>2. decl[t][i].tag \in Nat /\ decl[t][i].to \in Seq(Structs) /\ Len(decl[t]) \in Nat
    BY <2>1, DeclFacts DEF FieldDecl
  <2>3. <<i>> \in Seq(Nat)
    BY <2>1, <2>2
  <2> QED
    BY <2>2, <2>3 DEF Oracle!OwnLeaf, Leaf
<1>3. ASSUME NEW i \in Nat, NEW S \in SUBSET Leaf, NEW e \in S PROVE [e EXCEPT !.offset = <<i>> \o @] \in Leaf
  <2>1. e \in Leaf /\ e.offset \in Seq(Nat) /\ <<i>> \in Seq(Nat)
    BY DEF Leaf
  <2>2. <<i>> \o e.offset \in Seq(Nat)
    BY <2>1, ConcatProperties
  <2> QED
    BY <2>1, <2>2 DEF Leaf
<1> QED
  BY <1>1, <1>2, <1>3 DEF OwnLeaves, Moved

LEMMA EmbeddedAt ==
  ASSUME ProgramInOrder, NEW t \in Structs, NEW i \in Oracle!At(t, "embedded")
  PROVE  /\ i \in 1..Len(decl[t]) /\ i \in Nat
         /\ decl[t][i].to[1] \in Structs
         /\ decl[t][i].to[1] \in Oracle!Mentions(t)
         /\ t \notin Oracle!Reach(decl[t][i].to[1])
<1>1. i \in 1..Len(decl[t]) /\ decl[t][i].kind = "embedded"
  BY DEF Oracle!At
<1>2. decl[t][i].to[1] \in Structs /\ Len(decl[t]) \in Nat /\ Len(decl[t][i].to) = 1
  BY <1>1, DeclFacts
<1>3. decl[t][i].to[1] \in Oracle!Mentions(t)
  <2>1. 1 \in 1..Len(decl[t][i].to)
    BY <1>2
  <2> QED
    BY <1>1, <2>1 DEF Oracle!Mentions
<1>4. t \notin Oracle!Reach(decl[t][i].to[1])
  BY <1>1, <1>2, <1>3, ReachFacts, CyclesAreInOrder
<1> QED
  BY <1>1, <1>2, <1>3, <1>4

LEMMA DeeperType ==
  ASSUME ProgramInOrder, NEW L \in [Structs -> SUBSET Leaf]
  PROVE  Deeper(L) \in [Structs -> SUBSET Leaf]
<1>1. ASSUME NEW t \in Structs
      PROVE  UNION {Moved(i, L[decl[t][i].to[1]]) : i \in Oracle!At(t, "embedded")} \subseteq Leaf
  <2>1. ASSUME NEW i \in Oracle!At(t, "embedded") PROVE Moved(i, L[decl[t][i].to[1]]) \subseteq Leaf
    <3>1. L[decl[t][i].to[1]] \in SUBSET Leaf /\ i \in Nat
      BY EmbeddedAt
    <3> QED
      BY <3>1, LeafTypes
  <2> QED
    BY <2>1
<1>2. ASSUME NEW t \in Structs PROVE OwnLeaves(t) \subseteq Leaf /\ {Oracle!TimeLeaf} \subseteq Leaf
  BY LeafTypes
<1> QED
  BY <1>1, <1>2 DEF Deeper

\* LeavesTo, as the oracle defines it
LEMMA LeavesToIs ==
  ASSUME ProgramInOrder, NEW N, N = Cardinality(Structs)
  PROVE  /\ N \in Nat
         /\ \A t : Oracle!Leaves(t) = Oracle!LeavesTo[N][t]
         /\ Oracle!LeavesTo[0] = NotEmbedding
         /\ \A n \in 1..N : Oracle!LeavesTo[n] = Deeper(Oracle!LeavesTo[n - 1])
         /\ \A n \in 0..N : Oracle!LeavesTo[n] \in [Structs -> SUBSET Leaf]
<1>1. N \in Nat
  BY FS_CardinalityType, TypesAssumption
<1>2. Oracle!Cardinality(Structs) = N
  BY DEF Oracle!Cardinality, Cardinality
<1>3. \A t : Oracle!Leaves(t) = Oracle!LeavesTo[N][t]
  BY <1>2 DEF Oracle!Leaves
<1> DEFINE Body(F, n) ==
             [t \in Structs |->
                IF t = TimeType THEN {Oracle!TimeLeaf}
                ELSE {Oracle!OwnLeaf(t, i) : i \in Oracle!At(t, "field")} \cup
                     (IF n = 0 THEN {}
                      ELSE UNION {{[e EXCEPT !.offset = <<i>> \o @] : e \in F[n - 1][decl[t][i].to[1]]}
                                    : i \in Oracle!At(t, "embedded")})]
           Def(F) == F = [n \in 0..N |-> Body(F, n)]
           G == CHOOSE F : Def(F)
<1>4. Oracle!LeavesTo = G
  BY <1>2 DEF Oracle!LeavesTo
<1>5. ASSUME NEW F PROVE Body(F, 0) = NotEmbedding
  BY DEF NotEmbedding, OwnLeaves
<1>6. ASSUME NEW F, NEW n, n # 0 PROVE Body(F, n) = Deeper(F[n - 1])
  BY <1>6 DEF Deeper, OwnLeaves, Moved
<1> HIDE DEF Body
<1>7. \E F : Def(F)
  <2> DEFINE D == [L \in [Structs -> SUBSET Leaf] |-> Deeper(L)]
  <2>1. PICK R : Steps(NotEmbedding, D, R)
    BY StepsExist
  <2>2. R[0] = NotEmbedding /\ \A n \in Nat : R[n + 1] = D[R[n]]
    BY <2>1 DEF Steps
  <2>3. \A L \in [Structs -> SUBSET Leaf] : D[L] = Deeper(L)
    OBVIOUS
  <2> HIDE DEF D
  <2>4. \A n \in Nat : R[n] \in [Structs -> SUBSET Leaf]
    <3> DEFINE S == {n \in Nat : R[n] \in [Structs -> SUBSET Leaf]}
    <3>1. 0 \in S
      BY <2>2, LeafTypes DEF NotEmbedding
    <3>2. ASSUME NEW k \in Nat, k \in S PROVE k + 1 \in S
      BY <2>2, <2>3, <3>2, DeeperType
    <3> HIDE DEF S
    <3>3. Nat \subseteq S
      BY <3>1, <3>2, SetInduction
    <3> QED
      BY <3>3 DEF S
  <2> DEFINE F == [n \in 0..N |-> R[n]]
  <2>5. ASSUME NEW n \in 0..N PROVE F[n] = Body(F, n)
    <3>1. CASE n = 0
      BY <1>5, <2>2, <3>1
    <3>2. CASE n # 0
      <4>1. n - 1 \in Nat /\ n - 1 \in 0..N /\ (n - 1) + 1 = n
        BY <1>1, <3>2
      <4>2. F[n] = R[n] /\ F[n - 1] = R[n - 1]
        BY <4>1
      <4>3. R[n] = Deeper(R[n - 1])
        BY <2>2, <2>3, <2>4, <4>1
      <4> HIDE DEF F
      <4>4. Body(F, n) = Deeper(F[n - 1])
        BY <1>6, <3>2
      <4> QED
        BY <4>2, <4>3, <4>4
    <3> QED
      BY <3>1, <3>2
  <2>6. F = [n \in 0..N |-> F[n]]
    OBVIOUS
  <2> HIDE DEF F
  <2>7. Def(F)
    BY <2>5, <2>6
  <2> QED
    BY <2>7
<1>8. Def(G)
  BY <1>7
<1> HIDE DEF G
<1>9. G[0] = NotEmbedding
  BY <1>1, <1>5, <1>8
<1>10. ASSUME NEW n \in 1..N PROVE G[n] = Deeper(G[n - 1])
  <2>1. n \in 0..N /\ n # 0
    BY <1>1
  <2> QED
    BY <1>6, <1>8, <2>1
<1>11. \A n \in 0..N : G[n] \in [Structs -> SUBSET Leaf]
  <2> DEFINE S == {n \in Nat : G[n] \in [Structs -> SUBSET Leaf]}
  <2>1. 0 \in S
    BY <1>9, LeafTypes DEF NotEmbedding
  <2>2. ASSUME NEW k \in 0..(N - 1), k \in S PROVE k + 1 \in S
    <3>1. k + 1 \in 1..N /\ (k + 1) - 1 = k /\ k + 1 \in Nat
      BY <1>1
    <3>2. G[k + 1] = Deeper(G[k])
      BY <1>10, <3>1
    <3> QED
      BY <2>2, <3>1, <3>2, DeeperType
  <2> HIDE DEF S
  <2>3. 0..N \subseteq S
    BY <1>1, <2>1, <2>2, InductionUpTo
  <2> QED
    BY <2>3 DEF S
<1> QED
  BY <1>1, <1>3, <1>4, <1>9, <1>10, <1>11

\* types that lead to few others have no deep embedding
LEMMA LeavesStable ==
  ASSUME ProgramInOrder, NEW N, N = Cardinality(Structs), NEW n \in 0..(N - 1), NEW t \in Structs,
         Cardinality(Oracle!Reach(t)) <= n + 1
  PROVE  Oracle!LeavesTo[n + 1][t] = Oracle!LeavesTo[n][t]
<1> DEFINE L(k) == Oracle!LeavesTo[k]
           Few(k) == \A s \in Structs : Cardinality(Oracle!Reach(s)) <= k + 1 => L(k + 1)[s] = L(k)[s]
           S == {k \in Nat : k <= N - 1 => Few(k)}
<1>0. N \in Nat /\ L(0) = NotEmbedding /\ \A k \in 1..N : L(k) = Deeper(L(k - 1))
  BY LeavesToIs
<1> HIDE DEF L
<1>1. ASSUME NEW s \in Structs
      PROVE  IsFiniteSet(Oracle!Reach(s)) /\ Cardinality(Oracle!Reach(s)) \in Nat
  <2>1. IsFiniteSet(Oracle!Reach(s))
    BY ReachFacts, TypesAssumption, FS_Subset
  <2> QED
    BY <2>1, FS_CardinalityType
\* a struct that s embeds leads to fewer
<1>2. ASSUME NEW s \in Structs, NEW i \in Oracle!At(s, "embedded")
      PROVE  Cardinality(Oracle!Reach(decl[s][i].to[1])) + 1 <= Cardinality(Oracle!Reach(s))
  <2> DEFINE u == decl[s][i].to[1]
  <2>1. u \in Structs /\ u \in Oracle!Mentions(s) /\ s \notin Oracle!Reach(u)
    BY EmbeddedAt
  <2> HIDE DEF u
  <2>2. Oracle!Reach(u) \subseteq Oracle!Reach(s) /\ s \in Oracle!Reach(s)
    BY <2>1, ReachFacts
  <2>3. Oracle!Reach(u) \in SUBSET Oracle!Reach(s) /\ Oracle!Reach(u) # Oracle!Reach(s)
    BY <2>1, <2>2
  <2>4. Cardinality(Oracle!Reach(u)) <= Cardinality(Oracle!Reach(s)) /\ Cardinality(Oracle!Reach(u)) # Cardinality(Oracle!Reach(s))
    BY <1>1, <2>3, FS_Subset
  <2>5. Cardinality(Oracle!Reach(u)) \in Nat /\ Cardinality(Oracle!Reach(s)) \in Nat
    BY <1>1, <2>1
  <2>6. Cardinality(Oracle!Reach(u)) + 1 <= Cardinality(Oracle!Reach(s))
    BY <2>4, <2>5
  <2> QED
    BY <2>6 DEF u
<1>3. ASSUME NEW s \in Structs PROVE Cardinality(Oracle!Reach(s)) >= 1
  <2>1. {s} \in SUBSET Oracle!Reach(s)
    BY ReachFacts
  <2>2. Cardinality({s}) <= Cardinality(Oracle!Reach(s)) /\ Cardinality({s}) = 1
    BY <1>1, <2>1, FS_Subset, FS_Singleton
  <2> QED
    BY <1>1, <2>2
<1>4. ASSUME 0 <= N - 1 PROVE Few(0)
  <2> SUFFICES ASSUME NEW s \in Structs, Cardinality(Oracle!Reach(s)) <= 0 + 1 PROVE L(0 + 1)[s] = L(0)[s]
    OBVIOUS
  <2>1. ASSUME NEW i \in Oracle!At(s, "embedded") PROVE FALSE
    <3>1. decl[s][i].to[1] \in Structs
      BY EmbeddedAt
    <3>2. Cardinality(Oracle!Reach(decl[s][i].to[1])) >= 1 /\ Cardinality(Oracle!Reach(decl[s][i].to[1])) \in Nat
      BY <1>1, <1>3, <3>1
    <3>3. Cardinality(Oracle!Reach(decl[s][i].to[1])) + 1 <= Cardinality(Oracle!Reach(s)) /\ Cardinality(Oracle!Reach(s)) \in Nat
      BY <1>1, <1>2
    <3> QED
      BY <3>2, <3>3
  <2>2. Oracle!At(s, "embedded") = {}
    BY <2>1
  <2>3. 0 + 1 \in 1..N /\ (0 + 1) - 1 = 0
    BY <1>0, <1>4
  <2>4. L(0 + 1) = Deeper(L(0))
    BY <1>0, <2>3
  <2>5. UNION {Moved(i, L(0)[decl[s][i].to[1]]) : i \in Oracle!At(s, "embedded")} = {}
    BY <2>2
  <2>6. Deeper(L(0))[s] = IF s = TimeType THEN {Oracle!TimeLeaf} ELSE OwnLeaves(s)
    BY <2>5 DEF Deeper
  <2>7. NotEmbedding[s] = IF s = TimeType THEN {Oracle!TimeLeaf} ELSE OwnLeaves(s)
    BY DEF NotEmbedding
  <2> QED
    BY <1>0, <2>4, <2>6, <2>7
<1>5. ASSUME NEW k \in Nat, k <= N - 1 => Few(k), k + 1 <= N - 1 PROVE Few(k + 1)
  <2> SUFFICES ASSUME NEW s \in Structs, Cardinality(Oracle!Reach(s)) <= (k + 1) + 1
               PROVE  L((k + 1) + 1)[s] = L(k + 1)[s]
    OBVIOUS
  <2>0. Few(k)
    BY <1>0, <1>5
  <2>1. ASSUME NEW i \in Oracle!At(s, "embedded")
        PROVE  L(k + 1)[decl[s][i].to[1]] = L(k)[decl[s][i].to[1]]
    <3>1. decl[s][i].to[1] \in Structs
      BY EmbeddedAt
    <3>2. Cardinality(Oracle!Reach(decl[s][i].to[1])) + 1 <= Cardinality(Oracle!Reach(s))
      BY <1>2
    <3>3. Cardinality(Oracle!Reach(decl[s][i].to[1])) <= k + 1
      BY <1>1, <3>1, <3>2
    <3> QED
      BY <2>0, <3>1, <3>3
  <2>2. /\ (k + 1) + 1 \in 1..N /\ ((k + 1) + 1) - 1 = k + 1
        /\ k + 1 \in 1..N /\ (k + 1) - 1 = k
    BY <1>0, <1>5
  <2>3. L((k + 1) + 1) = Deeper(L(k + 1)) /\ L(k + 1) = Deeper(L(k))
    BY <1>0, <2>2
  <2>4. {Moved(i, L(k + 1)[decl[s][i].to[1]]) : i \in Oracle!At(s, "embedded")}
          = {Moved(i, L(k)[decl[s][i].to[1]]) : i \in Oracle!At(s, "embedded")}
    BY <2>1
  <2>5. Deeper(L(k + 1))[s] = Deeper(L(k))[s]
    BY <2>4 DEF Deeper
  <2> QED
    BY <2>3, <2>5
<1> HIDE DEF Few
<1>6. 0 \in S
  BY <1>4
<1>7. ASSUME NEW k \in Nat, k \in S PROVE k + 1 \in S
  BY <1>5, <1>7
<1> HIDE DEF S
<1>8. Nat \subseteq S
  BY <1>6, <1>7, SetInduction
<1>9. n \in Nat /\ n <= N - 1
  BY <1>0
<1>10. Few(n)
  BY <1>8, <1>9 DEF S
<1>11. L(n + 1)[t] = L(n)[t]
  BY <1>10 DEF Few
<1> QED
  BY <1>11 DEF L

\* what field i of t contributes to the message
FieldLeaves(t, i) ==
  IF decl[t][i].kind = "field" THEN {Oracle!OwnLeaf(t, i)}
  ELSE IF decl[t][i].kind = "embedded" THEN Moved(i, Oracle!Leaves(decl[t][i].to[1]))
  ELSE {}

\* the leaves of a struct are those of its fields
LEMMA LeavesAre ==
  ASSUME ProgramInOrder, NEW t \in Structs
  PROVE  /\ Oracle!Leaves(t) \subseteq Leaf
         /\ t = TimeType => Oracle!Leaves(t) = {Oracle!TimeLeaf}
         /\ t # TimeType => Oracle!Leaves(t) = UNION {FieldLeaves(t, i) : i \in 1..Len(decl[t])}
<1> DEFINE N == Cardinality(Structs)
           L(k) == Oracle!LeavesTo[k]
<1>0. /\ N \in Nat
      /\ \A s : Oracle!Leaves(s) = L(N)[s]
      /\ \A k \in 1..N : L(k) = Deeper(L(k - 1))
      /\ L(N) \in [Structs -> SUBSET Leaf]
  BY LeavesToIs
<1>1. ASSUME NEW s \in Structs
      PROVE  /\ IsFiniteSet(Oracle!Reach(s)) /\ Cardinality(Oracle!Reach(s)) \in Nat
             /\ Cardinality(Oracle!Reach(s)) <= N
  <2>1. Oracle!Reach(s) \in SUBSET Structs /\ IsFiniteSet(Structs)
    BY ReachFacts, TypesAssumption
  <2>2. IsFiniteSet(Oracle!Reach(s)) /\ Cardinality(Oracle!Reach(s)) <= N
    BY <2>1, FS_Subset
  <2> QED
    BY <2>2, FS_CardinalityType
<1>2. N >= 1
  <2>1. {t} \in SUBSET Structs /\ IsFiniteSet(Structs)
    BY TypesAssumption
  <2>2. Cardinality({t}) <= N /\ Cardinality({t}) = 1
    BY <2>1, FS_Subset, FS_Singleton
  <2> QED
    BY <1>0, <2>2
<1>3. ASSUME NEW i \in Oracle!At(t, "embedded")
      PROVE  L(N - 1)[decl[t][i].to[1]] = Oracle!Leaves(decl[t][i].to[1])
  <2> DEFINE u == decl[t][i].to[1]
  <2>1. u \in Structs /\ u \in Oracle!Mentions(t) /\ t \notin Oracle!Reach(u)
    BY EmbeddedAt
  <2> HIDE DEF u
  <2>2. Oracle!Reach(u) \in SUBSET Structs /\ Oracle!Reach(u) # Structs
    BY <2>1, ReachFacts
  <2>3. Cardinality(Oracle!Reach(u)) # N
    BY <2>2, TypesAssumption, FS_Subset
  <2>4. Cardinality(Oracle!Reach(u)) <= (N - 1) + 1 /\ N - 1 \in 0..(N - 1) /\ (N - 1) + 1 = N
    BY <1>0, <1>1, <1>2, <2>1, <2>3
  <2> HIDE DEF L, N
  <2>5. L((N - 1) + 1)[u] = L(N - 1)[u]
    BY <2>1, <2>4, LeavesStable DEF L, N
  <2>6. L(N)[u] = L(N - 1)[u]
    BY <2>4, <2>5
  <2>7. L(N - 1)[u] = Oracle!Leaves(u)
    BY <1>0, <2>6
  <2> QED
    BY <2>7 DEF u
<1> HIDE DEF L, N
<1>4. L(N) = Deeper(L(N - 1))
  <2>1. N \in 1..N
    BY <1>0, <1>2
  <2> QED
    BY <1>0, <2>1
<1>5. Oracle!Leaves(t) \subseteq Leaf
  BY <1>0
<1>6. ASSUME t = TimeType PROVE Oracle!Leaves(t) = {Oracle!TimeLeaf}
  BY <1>0, <1>4, <1>6 DEF Deeper
<1>7. ASSUME t # TimeType PROVE Oracle!Leaves(t) = UNION {FieldLeaves(t, i) : i \in 1..Len(decl[t])}
  <2>1. Oracle!Leaves(t)
          = OwnLeaves(t) \cup UNION {Moved(i, L(N - 1)[decl[t][i].to[1]]) : i \in Oracle!At(t, "embedded")}
    BY <1>0, <1>4, <1>7 DEF Deeper
  <2>2. {Moved(i, L(N - 1)[decl[t][i].to[1]]) : i \in Oracle!At(t, "embedded")}
          = {Moved(i, Oracle!Leaves(decl[t][i].to[1])) : i \in Oracle!At(t, "embedded")}
    BY <1>3
  <2>3. ASSUME NEW e \in OwnLeaves(t) PROVE e \in UNION {FieldLeaves(t, i) : i \in 1..Len(decl[t])}
    BY DEF OwnLeaves, Oracle!At, FieldLeaves
  <2>4. ASSUME NEW i \in Oracle!At(t, "embedded")
        PROVE  Moved(i, Oracle!Leaves(decl[t][i].to[1])) = FieldLeaves(t, i) /\ i \in 1..Len(decl[t])
    BY DEF Oracle!At, FieldLeaves
  <2>5. ASSUME NEW i \in 1..Len(decl[t]), NEW e \in FieldLeaves(t, i)
        PROVE  e \in OwnLeaves(t) \/ (i \in Oracle!At(t, "embedded") /\ e \in Moved(i, Oracle!Leaves(decl[t][i].to[1])))
    BY DEF OwnLeaves, Oracle!At, FieldLeaves
  <2>6. \A e : e \in Oracle!Leaves(t) <=> e \in UNION {FieldLeaves(t, i) : i \in 1..Len(decl[t])}
    BY <2>1, <2>2, <2>3, <2>4, <2>5
  <2> QED
    BY <2>6
<1> QED
  BY <1>5, <1>6, <1>7

-----------------------------------------------------------------------------

\* a field of the message points to nothing that the struct does not lead to
LEMMA PointersReach ==
  ASSUME ProgramInOrder, NEW t \in Structs
  PROVE  Oracle!PointsTo(t) \subseteq Oracle!Reach(t)
<1> DEFINE N == Cardinality(Structs)
           L(k) == Oracle!LeavesTo[k]
           Points(k) == \A s \in Structs : \A e \in L(k)[s] : \A j \in 1..Len(e.to) : e.to[j] \in Oracle!Reach(s)
           S == {k \in Nat : Points(k)}
<1>0. /\ N \in Nat
      /\ \A s : Oracle!Leaves(s) = L(N)[s]
      /\ L(0) = NotEmbedding
      /\ \A k \in 1..N : L(k) = Deeper(L(k - 1))
      /\ \A k \in 0..N : L(k) \in [Structs -> SUBSET Leaf]
  BY LeavesToIs
<1> HIDE DEF L, N
<1>1. ASSUME NEW s \in Structs, NEW e \in {Oracle!TimeLeaf} \cup OwnLeaves(s), NEW j \in 1..Len(e.to)
      PROVE  e.to[j] \in Oracle!Reach(s)
  <2>1. CASE e = Oracle!TimeLeaf
    <3>1. Len(e.to) = 0
      BY <2>1 DEF Oracle!TimeLeaf
    <3> QED
      BY <3>1
  <2>2. CASE e \in OwnLeaves(s)
    <3>1. PICK i \in 1..Len(decl[s]) : e = Oracle!OwnLeaf(s, i)
      BY <2>2 DEF OwnLeaves, Oracle!At
    <3>2. e.to = decl[s][i].to
      BY <3>1 DEF Oracle!OwnLeaf
    <3>3. e.to[j] \in Oracle!Mentions(s)
      BY <3>2 DEF Oracle!Mentions
    <3> QED
      BY <3>3, ReachFacts
  <2> QED
    BY <2>1, <2>2
<1>2. 0 \in S
  <2>1. ASSUME NEW s \in Structs, NEW e \in L(0)[s] PROVE e \in {Oracle!TimeLeaf} \cup OwnLeaves(s)
    BY <1>0 DEF NotEmbedding
  <2> QED
    BY <1>1, <2>1
<1>3. ASSUME NEW k \in 0..(N - 1), k \in S PROVE k + 1 \in S
  <2>1. k + 1 \in 1..N /\ (k + 1) - 1 = k /\ k \in 0..N /\ k + 1 \in Nat
    BY <1>0
  <2>2. L(k + 1) = Deeper(L(k)) /\ L(k) \in [Structs -> SUBSET Leaf]
    BY <1>0, <2>1
  <2> SUFFICES ASSUME NEW s \in Structs, NEW e \in L(k + 1)[s], NEW j \in 1..Len(e.to)
               PROVE  e.to[j] \in Oracle!Reach(s)
    BY <2>1
  <2>3. CASE e \in {Oracle!TimeLeaf} \cup OwnLeaves(s)
    BY <1>1, <2>3
  <2>4. CASE e \notin {Oracle!TimeLeaf} \cup OwnLeaves(s)
    <3>1. e \in UNION {Moved(i, L(k)[decl[s][i].to[1]]) : i \in Oracle!At(s, "embedded")}
      BY <2>2, <2>4 DEF Deeper
    <3>2. PICK i \in Oracle!At(s, "embedded") : e \in Moved(i, L(k)[decl[s][i].to[1]])
      BY <3>1
    <3> DEFINE u == decl[s][i].to[1]
    <3>3. u \in Structs /\ u \in Oracle!Mentions(s)
      BY EmbeddedAt
    <3>4. PICK x \in L(k)[u] : e = [x EXCEPT !.offset = <<i>> \o @]
      BY <3>2 DEF Moved
    <3> HIDE DEF u
    <3>5. x \in Leaf
      BY <2>2, <3>3
    <3>6. e.to = x.to
      BY <3>4, <3>5 DEF Leaf
    <3>7. e.to[j] \in Oracle!Reach(u)
      BY <1>3, <3>3, <3>6
    <3> QED
      BY <3>3, <3>7, ReachFacts
  <2> QED
    BY <2>3, <2>4
<1> HIDE DEF S
<1>4. 0..N \subseteq S
  BY <1>0, <1>2, <1>3, InductionUpTo
<1>5. Points(N)
  BY <1>0, <1>4 DEF S
<1>6. ASSUME NEW e \in Oracle!Leaves(t), NEW j \in 1..Len(e.to) PROVE e.to[j] \in Oracle!Reach(t)
  BY <1>0, <1>5
<1> QED
  BY <1>6 DEF Oracle!PointsTo

-----------------------------------------------------------------------------
(* Sequences of entries that show a set of leaves *)

\* every leaf of S is the entry of one place of ps, and every entry is one of them
Shows(ps, S) ==
  /\ \A k \in 1..Len(ps) : SeenEntry(ps[k]) \in S
  /\ \A e \in S : \E k \in 1..Len(ps) : SeenEntry(ps[k]) = e
  /\ \A j, k \in 1..Len(ps) : SeenEntry(ps[j]) = SeenEntry(ps[k]) => j = k

\* the tags go up
Ascending(ps) == \A k \in 1..Len(ps) : \A j \in 1..(k - 1) : ps[j].tag < ps[k].tag

LEMMA SeenLeaf ==
  ASSUME NEW e, SeenEntry(e) \in Leaf
  PROVE  /\ e.ready
         /\ SeenEntry(e).tag = e.tag /\ SeenEntry(e).offset = e.offset
         /\ SeenEntry(e).to = [j \in 1..Len(e.sprop) |-> objs[e.sprop[j]].type]
<1>1. ASSUME ~e.ready PROVE FALSE
  <2>1. SeenEntry(e) = [incomplete |-> e.tag]
    BY <1>1 DEF SeenEntry
  <2>2. DOMAIN SeenEntry(e) = {"incomplete"}
    BY <2>1
  <2>3. DOMAIN SeenEntry(e) = {"tag", "offset", "to"}
    BY DEF Leaf
  <2>4. "tag" \in {"incomplete"}
    BY <2>2, <2>3
  <2> QED
    BY <2>4
<1> QED
  BY <1>1 DEF SeenEntry

LEMMA ShowsNone ==
  Shows(<<>>, {})
BY DEF Shows

LEMMA ShowsConcat ==
  ASSUME NEW T, NEW ps \in Seq(T), NEW qs \in Seq(T), NEW A, NEW B, Shows(ps, A), Shows(qs, B), A \cap B = {}
  PROVE  Shows(ps \o qs, A \cup B)
<1> DEFINE m == Len(ps)
           n == Len(qs)
           s == ps \o qs
<1>1. m \in Nat /\ n \in Nat /\ Len(s) = m + n
  BY ConcatProperties
<1>2. \A k \in 1..m : s[k] = ps[k]
  BY ConcatProperties
<1>3. \A k \in 1..n : s[m + k] = qs[k]
  BY ConcatProperties
<1> HIDE DEF s
<1>4. ASSUME NEW k \in 1..Len(s)
      PROVE  \/ k \in 1..m /\ s[k] = ps[k]
             \/ k - m \in 1..n /\ s[k] = qs[k - m]
  <2>1. CASE k <= m
    BY <1>1, <1>2, <2>1
  <2>2. CASE ~(k <= m)
    <3>1. k - m \in 1..n /\ m + (k - m) = k
      BY <1>1, <2>2
    <3>2. s[m + (k - m)] = qs[k - m]
      BY <1>3, <3>1
    <3> QED
      BY <3>1, <3>2
  <2> QED
    BY <2>1, <2>2
<1>5. \A k \in 1..Len(s) : SeenEntry(s[k]) \in A \cup B
  BY <1>4 DEF Shows
<1>6. ASSUME NEW e \in A \cup B PROVE \E k \in 1..Len(s) : SeenEntry(s[k]) = e
  <2>1. CASE e \in A
    <3>1. PICK k \in 1..m : SeenEntry(ps[k]) = e
      BY <2>1 DEF Shows
    <3>2. k \in 1..Len(s) /\ s[k] = ps[k]
      BY <1>1, <1>2
    <3> QED
      BY <3>1, <3>2
  <2>2. CASE e \in B
    <3>1. PICK k \in 1..n : SeenEntry(qs[k]) = e
      BY <2>2 DEF Shows
    <3>2. m + k \in 1..Len(s) /\ s[m + k] = qs[k]
      BY <1>1, <1>3
    <3> QED
      BY <3>1, <3>2
  <2> QED
    BY <2>1, <2>2
<1>7. ASSUME NEW j \in 1..Len(s), NEW k \in 1..Len(s), SeenEntry(s[j]) = SeenEntry(s[k]) PROVE j = k
  <2>1. CASE j \in 1..m /\ s[j] = ps[j] /\ k \in 1..m /\ s[k] = ps[k]
    BY <1>7, <2>1 DEF Shows
  <2>2. CASE j - m \in 1..n /\ s[j] = qs[j - m] /\ k - m \in 1..n /\ s[k] = qs[k - m]
    <3>1. j - m = k - m
      BY <1>7, <2>2 DEF Shows
    <3> QED
      BY <1>1, <3>1
  <2>3. CASE j \in 1..m /\ s[j] = ps[j] /\ k - m \in 1..n /\ s[k] = qs[k - m]
    <3>1. SeenEntry(s[j]) \in A /\ SeenEntry(s[k]) \in B
      BY <2>3 DEF Shows
    <3> QED
      BY <1>7, <3>1
  <2>4. CASE j - m \in 1..n /\ s[j] = qs[j - m] /\ k \in 1..m /\ s[k] = ps[k]
    <3>1. SeenEntry(s[j]) \in B /\ SeenEntry(s[k]) \in A
      BY <2>4 DEF Shows
    <3> QED
      BY <1>7, <3>1
  <2> QED
    BY <1>4, <2>1, <2>2, <2>3, <2>4
<1> HIDE DEF m, n
<1>8. Shows(s, A \cup B)
  BY <1>5, <1>6, <1>7 DEF Shows
<1> QED
  BY <1>8 DEF s

LEMMA ShowsOne ==
  ASSUME NEW e
  PROVE  Shows(<<e>>, {SeenEntry(e)})
BY DEF Shows

\* entries that are moved into an outer struct show the leaves that are moved there
LEMMA ShowsMoved ==
  ASSUME TypeOK, NEW i \in Nat, NEW ps \in Seq(Entry), NEW S \in SUBSET Leaf, Shows(ps, S)
  PROVE  Shows(Merged(i, ps), Moved(i, S))
<1> DEFINE n == Len(ps)
           s == Merged(i, ps)
           Out(e) == [e EXCEPT !.offset = <<i>> \o @]
<1>1. n \in Nat /\ Len(s) = n /\ \A k \in 1..n : s[k] = Out(ps[k])
  BY DEF Merged
<1>2. ASSUME NEW k \in 1..n PROVE SeenEntry(s[k]) = Out(SeenEntry(ps[k]))
  <2> DEFINE e == ps[k]
  <2>1. e \in Entry /\ SeenEntry(e) \in Leaf
    BY DEF Shows
  <2>2. e.ready /\ SeenEntry(e).offset = e.offset
    BY <2>1, SeenLeaf
  <2>3. SeenEntry(e) = [tag |-> e.tag, offset |-> e.offset, to |-> [j \in 1..Len(e.sprop) |-> objs[e.sprop[j]].type]]
    BY <2>2 DEF SeenEntry
  <2> HIDE DEF e
  <2>4. Out(e).ready /\ Out(e).tag = e.tag /\ Out(e).offset = <<i>> \o e.offset /\ Out(e).sprop = e.sprop
    BY <2>1, <2>2 DEF Entry
  <2>5. SeenEntry(Out(e)) = [tag |-> e.tag, offset |-> <<i>> \o e.offset, to |-> [j \in 1..Len(e.sprop) |-> objs[e.sprop[j]].type]]
    BY <2>4 DEF SeenEntry
  <2>6. Out(SeenEntry(e)) = [tag |-> e.tag, offset |-> <<i>> \o e.offset, to |-> [j \in 1..Len(e.sprop) |-> objs[e.sprop[j]].type]]
    <3> DEFINE tos == [j \in 1..Len(e.sprop) |-> objs[e.sprop[j]].type]
               x == SeenEntry(e)
               tag == e.tag
               off == e.offset
    <3>1. x = [tag |-> tag, offset |-> off, to |-> tos]
      BY <2>3
    <3> HIDE DEF tos, x, tag, off
    <3>2. Out(x) = [tag |-> tag, offset |-> <<i>> \o off, to |-> tos]
      <4>1. x.offset = off
        BY <3>1
      <4> DEFINE v == <<i>> \o off
      <4>2. Out(x) = [x EXCEPT !.offset = v]
        BY <4>1
      <4> HIDE DEF v
      <4>3. [x EXCEPT !.offset = v] = [tag |-> tag, offset |-> v, to |-> tos]
        BY <3>1
      <4> QED
        BY <4>2, <4>3 DEF v
    <3> QED
      BY <3>2 DEF tos, x, tag, off
  <2>7. SeenEntry(Out(e)) = Out(SeenEntry(e))
    BY <2>5, <2>6
  <2> QED
    BY <1>1, <2>7 DEF e
<1> HIDE DEF s
<1>3. ASSUME NEW x \in Leaf, NEW y \in Leaf, Out(x) = Out(y) PROVE x = y
  <2>1. x.offset \in Seq(Nat) /\ y.offset \in Seq(Nat) /\ <<i>> \in Seq(Nat)
    BY DEF Leaf
  <2>2. <<i>> \o x.offset = <<i>> \o y.offset /\ x.tag = y.tag /\ x.to = y.to
    <3>1. Out(x).offset = <<i>> \o x.offset /\ Out(x).tag = x.tag /\ Out(x).to = x.to
      BY DEF Leaf
    <3>2. Out(y).offset = <<i>> \o y.offset /\ Out(y).tag = y.tag /\ Out(y).to = y.to
      BY DEF Leaf
    <3> QED
      BY <1>3, <3>1, <3>2
  <2>3. x.offset = y.offset
    BY <2>1, <2>2, ConcatSimplifications
  <2> QED
    BY <2>2, <2>3 DEF Leaf
<1>4. Moved(i, S) = {Out(e) : e \in S}
  BY DEF Moved
<1> HIDE DEF Out
<1>5. \A k \in 1..n : SeenEntry(ps[k]) \in S
  BY DEF Shows
<1>6. \A k \in 1..n : SeenEntry(s[k]) \in Moved(i, S)
  BY <1>2, <1>4, <1>5
<1>7. ASSUME NEW x \in Moved(i, S) PROVE \E k \in 1..n : SeenEntry(s[k]) = x
  <2>1. PICK e \in S : x = Out(e)
    BY <1>4
  <2>2. PICK k \in 1..n : SeenEntry(ps[k]) = e
    BY DEF Shows
  <2> QED
    BY <1>2, <2>1, <2>2
<1>8. ASSUME NEW j \in 1..n, NEW k \in 1..n, SeenEntry(s[j]) = SeenEntry(s[k]) PROVE j = k
  <2>1. SeenEntry(ps[j]) \in Leaf /\ SeenEntry(ps[k]) \in Leaf
    BY <1>5
  <2>2. SeenEntry(ps[j]) = SeenEntry(ps[k])
    BY <1>2, <1>3, <1>8, <2>1
  <2> QED
    BY <2>2 DEF Shows
<1> HIDE DEF n
<1>9. Shows(s, Moved(i, S))
  BY <1>1, <1>6, <1>7, <1>8 DEF Shows
<1> QED
  BY <1>9 DEF s

-----------------------------------------------------------------------------
(* Sorting *)

LEMMA OrdersCover ==
  ASSUME NEW n \in Nat, NEW f \in Orders(n), NEW j \in 1..n
  PROVE  \E k \in 1..n : f[k] = j
<1> SUFFICES ASSUME \A k \in 1..n : f[k] # j PROVE FALSE
  OBVIOUS
<1> DEFINE S == 1..n
           T == S \ {j}
<1>1. f \in [S -> T] /\ \A i, k \in S : f[i] = f[k] => i = k
  BY DEF Orders
<1>2. IsFiniteSet(S)
  BY FS_Interval
<1>3. IsFiniteSet(T) /\ Cardinality(T) = Cardinality(S) - 1
  <2> HIDE DEF S
  <2> QED
    BY <1>2, FS_RemoveElement DEF S
<1>4. Cardinality(S) \in Nat
  BY <1>2, FS_CardinalityType
<1> HIDE DEF S, T
<1>5. Cardinality(T) < Cardinality(S)
  BY <1>3, <1>4
<1>6. \E x, y \in S : x # y /\ f[x] = f[y]
  BY <1>1, <1>2, <1>3, <1>5, FS_PigeonHole
<1> QED
  BY <1>1, <1>6

LEMMA ShowsSorted ==
  ASSUME NEW ps \in Seq(Entry), NEW S, Shows(ps, S), NEW s \in SortedByTag(ps)
  PROVE  /\ s \in Seq(Entry)
         /\ Shows(s, S)
         /\ \A j \in 1..Len(s) : \A i \in 1..j : s[i].tag <= s[j].tag
         /\ \A k \in 1..Len(s) : \E j \in 1..Len(ps) : s[k] = ps[j]
<1> DEFINE n == Len(ps)
<1>0. n \in Nat
  OBVIOUS
<1>1. PICK f \in Orders(n) : s = [k \in 1..n |-> ps[f[k]]]
  BY DEF SortedByTag
<1>2. f \in [1..n -> 1..n] /\ \A i, j \in 1..n : f[i] = f[j] => i = j
  BY DEF Orders
<1>3. s \in Seq(Entry) /\ Len(s) = n
  <2>1. \A k \in 1..n : ps[f[k]] \in Entry
    BY <1>2
  <2> QED
    BY <1>0, <1>1, <2>1
<1>4. \A k \in 1..n : s[k] = ps[f[k]]
  BY <1>1
<1>5. \A j \in 1..Len(s) : \A i \in 1..j : s[i].tag <= s[j].tag
  BY DEF SortedByTag
<1> HIDE DEF n
<1>6. Shows(s, S)
  <2>1. \A k \in 1..n : SeenEntry(s[k]) \in S
    BY <1>2, <1>4 DEF Shows, n
  <2>2. ASSUME NEW e \in S PROVE \E k \in 1..n : SeenEntry(s[k]) = e
    <3>1. PICK j \in 1..n : SeenEntry(ps[j]) = e
      BY DEF Shows, n
    <3>2. PICK k \in 1..n : f[k] = j
      BY <1>0, OrdersCover
    <3> QED
      BY <1>4, <3>1, <3>2
  <2>3. ASSUME NEW j \in 1..n, NEW k \in 1..n, SeenEntry(s[j]) = SeenEntry(s[k]) PROVE j = k
    <3>1. SeenEntry(ps[f[j]]) = SeenEntry(ps[f[k]]) /\ f[j] \in 1..n /\ f[k] \in 1..n
      BY <1>2, <1>4, <2>3
    <3>2. f[j] = f[k]
      BY <3>1 DEF Shows, n
    <3> QED
      BY <1>2, <3>2
  <2> QED
    BY <1>3, <2>1, <2>2, <2>3 DEF Shows
<1>7. \A k \in 1..Len(s) : \E j \in 1..Len(ps) : s[k] = ps[j]
  BY <1>2, <1>3, <1>4 DEF n
<1> QED
  BY <1>3, <1>5, <1>6, <1>7

\* two neighbours with one tag, or none
LEMMA SortedTags ==
  ASSUME NEW s \in Seq(Entry), \A j \in 1..Len(s) : \A i \in 1..j : s[i].tag <= s[j].tag, NEW R
  PROVE  /\ ~BadTags(s, R) => Ascending(s) /\ \A k \in 1..Len(s) : s[k].tag # 0 /\ s[k].tag \notin R
         /\ BadTags(s, R) => \/ \E j, k \in 1..Len(s) : j # k /\ s[j].tag = s[k].tag
                             \/ \E k \in 1..Len(s) : s[k].tag = 0 \/ s[k].tag \in R
<1>0. Len(s) \in Nat /\ \A k \in 1..Len(s) : s[k].tag \in Nat
  <2>1. \A k \in 1..Len(s) : s[k] \in Entry
    OBVIOUS
  <2> QED
    BY <2>1 DEF Entry
<1>1. ASSUME ~BadTags(s, R) PROVE Ascending(s) /\ \A k \in 1..Len(s) : s[k].tag # 0 /\ s[k].tag \notin R
  <2>1. \A k \in 1..Len(s) : s[k].tag # PrevTag(s, k) /\ s[k].tag \notin R
    BY <1>1 DEF BadTags
  <2>2. ASSUME NEW k \in 1..Len(s), NEW j \in 1..(k - 1) PROVE s[j].tag < s[k].tag
    <3>1. k # 1 /\ k - 1 \in 1..Len(s) /\ k - 1 \in 1..k /\ j \in 1..(k - 1) /\ j \in 1..Len(s)
      BY <1>0
    <3>2. s[j].tag <= s[k - 1].tag /\ s[k - 1].tag <= s[k].tag
      BY <3>1
    <3>3. s[k].tag # s[k - 1].tag
      BY <2>1, <3>1 DEF PrevTag
    <3> QED
      BY <1>0, <3>1, <3>2, <3>3
  <2>3. ASSUME NEW k \in 1..Len(s) PROVE s[k].tag # 0
    <3>1. 1 \in 1..Len(s) /\ 1 \in 1..k
      BY <1>0
    <3>2. s[1].tag # 0
      BY <2>1, <3>1 DEF PrevTag
    <3>3. s[1].tag <= s[k].tag
      BY <3>1
    <3> QED
      BY <1>0, <3>1, <3>2, <3>3
  <2> QED
    BY <2>1, <2>2, <2>3 DEF Ascending
<1>2. ASSUME BadTags(s, R)
      PROVE  \/ \E j, k \in 1..Len(s) : j # k /\ s[j].tag = s[k].tag
             \/ \E k \in 1..Len(s) : s[k].tag = 0 \/ s[k].tag \in R
  <2>1. PICK k \in 1..Len(s) : s[k].tag = PrevTag(s, k) \/ s[k].tag \in R
    BY <1>2 DEF BadTags
  <2>2. CASE k = 1
    BY <2>1, <2>2 DEF PrevTag
  <2>3. CASE k # 1
    <3>1. k - 1 \in 1..Len(s) /\ k - 1 # k
      BY <1>0, <2>3
    <3> QED
      BY <2>1, <2>3, <3>1 DEF PrevTag
  <2> QED
    BY <2>2, <2>3
<1> QED
  BY <1>1, <1>2

\* sorted entries that show the leaves of t have bad tags when t says so
LEMMA BadTagsClash ==
  ASSUME NEW t \in Structs, NEW s \in Seq(Entry), Oracle!Leaves(t) \subseteq Leaf, Shows(s, Oracle!Leaves(t)),
         \A j \in 1..Len(s) : \A i \in 1..j : s[i].tag <= s[j].tag
  PROVE  BadTags(s, Oracle!ReservedBy(t)) <=> Oracle!TagClash(t)
<1>1. ASSUME NEW k \in 1..Len(s)
      PROVE  /\ SeenEntry(s[k]) \in Oracle!Leaves(t)
             /\ SeenEntry(s[k]).tag = s[k].tag
  BY SeenLeaf DEF Shows
<1>2. ASSUME BadTags(s, Oracle!ReservedBy(t)) PROVE Oracle!TagClash(t)
  <2>1. CASE \E j, k \in 1..Len(s) : j # k /\ s[j].tag = s[k].tag
    <3>1. PICK j \in 1..Len(s), k \in 1..Len(s) : j # k /\ s[j].tag = s[k].tag
      BY <2>1
    <3>2. SeenEntry(s[j]) # SeenEntry(s[k])
      BY <3>1 DEF Shows
    <3> QED
      BY <1>1, <3>1, <3>2 DEF Oracle!TagClash
  <2>2. CASE \E k \in 1..Len(s) : s[k].tag = 0 \/ s[k].tag \in Oracle!ReservedBy(t)
    <3>1. PICK k \in 1..Len(s) : s[k].tag = 0 \/ s[k].tag \in Oracle!ReservedBy(t)
      BY <2>2
    <3>2. SeenEntry(s[k]) \in Oracle!Leaves(t) /\ SeenEntry(s[k]).tag = s[k].tag
      BY <1>1
    <3> QED
      BY <3>1, <3>2 DEF Oracle!TagClash
  <2> QED
    BY <1>2, <2>1, <2>2, SortedTags
<1>3. ASSUME ~BadTags(s, Oracle!ReservedBy(t)) PROVE ~Oracle!TagClash(t)
  <2>1. Ascending(s) /\ \A k \in 1..Len(s) : s[k].tag # 0 /\ s[k].tag \notin Oracle!ReservedBy(t)
    BY <1>3, SortedTags
  <2>2. ASSUME NEW e \in Oracle!Leaves(t) PROVE \E k \in 1..Len(s) : SeenEntry(s[k]) = e /\ s[k].tag = e.tag
    BY <1>1 DEF Shows
  <2>3. ASSUME NEW j \in 1..Len(s), NEW k \in 1..Len(s), s[j].tag = s[k].tag PROVE j = k
    <3>0. s[j] \in Entry /\ s[k] \in Entry
      OBVIOUS
    <3>1. s[j].tag \in Nat /\ s[k].tag \in Nat /\ Len(s) \in Nat
      BY <3>0 DEF Entry
    <3>2. ~(j < k) /\ ~(k < j)
      BY <2>1, <2>3, <3>1 DEF Ascending
    <3> QED
      BY <3>1, <3>2
  <2>4. \A e, f \in Oracle!Leaves(t) : e.tag = f.tag => e = f
    BY <2>2, <2>3
  <2>5. \A e \in Oracle!Leaves(t) : e.tag # 0 /\ e.tag \notin Oracle!ReservedBy(t)
    BY <2>1, <2>2
  <2> QED
    BY <2>4, <2>5 DEF Oracle!TagClash
<1> QED
  BY <1>2, <1>3

\* s numbers the leaves of S by their tags
Numbers(s, n, S) == s \in [1..n -> S] /\ \A k \in 1..n : \A i \in 1..(k - 1) : s[i].tag < s[k].tag

LEMMA NumbersInjective ==
  ASSUME NEW n \in Nat, NEW S \in SUBSET Leaf, NEW s, Numbers(s, n, S)
  PROVE  \A j, k \in 1..n : s[j].tag = s[k].tag => j = k
<1> SUFFICES ASSUME NEW j \in 1..n, NEW k \in 1..n, s[j].tag = s[k].tag PROVE j = k
  OBVIOUS
<1>1. s[j].tag \in Nat /\ s[k].tag \in Nat
  BY DEF Numbers, Leaf
<1>2. ~(j < k) /\ ~(k < j)
  BY <1>1 DEF Numbers
<1> QED
  BY <1>2

Onto(s, n, S) == \A e \in S : \E k \in 1..n : s[k] = e

\* it leaves out none
LEMMA NumbersAll ==
  ASSUME NEW S \in SUBSET Leaf, IsFiniteSet(S), NEW n, n = Cardinality(S), NEW s, Numbers(s, n, S)
  PROVE  Onto(s, n, S)
<1>1. n \in Nat
  BY FS_CardinalityType
<1> SUFFICES ASSUME NEW e \in S, \A k \in 1..n : s[k] # e PROVE FALSE
  BY DEF Onto
<1> DEFINE T == S \ {e}
<1>2. IsFiniteSet(T) /\ Cardinality(T) = n - 1
  BY FS_RemoveElement
<1>3. IsFiniteSet(1..n) /\ Cardinality(1..n) = n
  BY <1>1, FS_Interval
<1>4. s \in [1..n -> T]
  BY DEF Numbers
<1> DEFINE I == 1..n
<1> HIDE DEF T
<1>5. \E x, y \in I : x # y /\ s[x] = s[y]
  <2>1. Cardinality(T) < Cardinality(I) /\ IsFiniteSet(I) /\ s \in [I -> T]
    BY <1>1, <1>2, <1>3, <1>4
  <2> HIDE DEF I
  <2> QED
    BY <1>2, <2>1, FS_PigeonHole
<1> QED
  BY <1>1, <1>5, NumbersInjective

\* there is only one way to number leaves
LEMMA OneNumbering ==
  ASSUME NEW S \in SUBSET Leaf, NEW n \in Nat, NEW r, NEW s, Numbers(r, n, S), Numbers(s, n, S),
         Onto(r, n, S), Onto(s, n, S)
  PROVE  r = s
<1>1. r \in [1..n -> S] /\ s \in [1..n -> S]
  BY DEF Numbers
<1> SUFFICES ASSUME r # s PROVE FALSE
  OBVIOUS
<1> DEFINE D == {k \in 1..n : r[k] # s[k]}
<1>2. D \in SUBSET Nat /\ D # {}
  <2>1. \E k \in 1..n : r[k] # s[k]
    BY <1>1
  <2> QED
    BY <2>1
<1>3. PICK m \in D : \A k \in D : m <= k
  BY <1>2, LeastNat
<1>4. m \in 1..n /\ r[m] # s[m] /\ \A k \in 1..(m - 1) : r[k] = s[k]
  <2>1. m \in 1..n /\ r[m] # s[m]
    OBVIOUS
  <2>2. ASSUME NEW k \in 1..(m - 1) PROVE r[k] = s[k]
    <3>1. k \in 1..n /\ ~(m <= k)
      BY <2>1
    <3> QED
      BY <1>3, <3>1
  <2> QED
    BY <2>1, <2>2
<1> HIDE DEF D
<1>5. r[m] \in S /\ s[m] \in S /\ r[m].tag \in Nat /\ s[m].tag \in Nat
  <2>1. r[m] \in S /\ s[m] \in S
    BY <1>1, <1>4
  <2>2. r[m] \in Leaf /\ s[m] \in Leaf
    BY <2>1
  <2> QED
    BY <2>1, <2>2 DEF Leaf
<1>6. PICK j \in 1..n : s[j] = r[m]
  BY <1>5 DEF Onto
<1>7. PICK k \in 1..n : r[k] = s[m]
  BY <1>5 DEF Onto
<1>a. \A x, y \in 1..n : r[x].tag = r[y].tag => x = y
  BY NumbersInjective
<1>b. \A x, y \in 1..n : s[x].tag = s[y].tag => x = y
  BY NumbersInjective
<1>8. j > m
  <2>1. j # m
    BY <1>4, <1>6
  <2>2. ~(j < m)
    <3> SUFFICES ASSUME j < m PROVE FALSE
      OBVIOUS
    <3>1. r[j] = s[j]
      BY <1>4
    <3>2. r[j] = r[m]
      BY <1>6, <3>1
    <3> QED
      BY <1>4, <1>a, <3>2
  <2> QED
    BY <1>4, <2>1, <2>2
<1>9. k > m
  <2>1. k # m
    BY <1>4, <1>7
  <2>2. ~(k < m)
    <3> SUFFICES ASSUME k < m PROVE FALSE
      OBVIOUS
    <3>1. r[k] = s[k]
      BY <1>4
    <3>2. s[k] = s[m]
      BY <1>7, <3>1
    <3> QED
      BY <1>4, <1>b, <3>2
  <2> QED
    BY <1>4, <2>1, <2>2
<1>10. s[m].tag < s[j].tag /\ r[m].tag < r[k].tag
  <2>1. m \in 1..(j - 1) /\ m \in 1..(k - 1)
    BY <1>4, <1>8, <1>9
  <2> QED
    BY <2>1 DEF Numbers
<1> QED
  BY <1>5, <1>6, <1>7, <1>10

\* entries in ascending order that show S are InTagOrder(S)
LEMMA InTagOrderIs ==
  ASSUME NEW s \in Seq(Entry), NEW S \in SUBSET Leaf, Shows(s, S), Ascending(s)
  PROVE  [k \in 1..Len(s) |-> SeenEntry(s[k])] = Oracle!InTagOrder(S)
<1> DEFINE n == Len(s)
           g == [k \in 1..n |-> SeenEntry(s[k])]
<1>1. n \in Nat
  OBVIOUS
<1>2. ASSUME NEW k \in 1..n PROVE g[k] \in S /\ g[k].tag = s[k].tag
  BY SeenLeaf DEF Shows
<1>3. Onto(g, n, S)
  BY DEF Shows, Onto
<1>4. Numbers(g, n, S)
  <2>1. g \in [1..n -> S]
    BY <1>2
  <2>2. ASSUME NEW k \in 1..n, NEW i \in 1..(k - 1) PROVE g[i].tag < g[k].tag
    <3>1. i \in 1..n
      BY <1>1
    <3>2. s[i].tag < s[k].tag
      BY DEF Ascending
    <3> HIDE DEF g
    <3> QED
      BY <1>2, <3>1, <3>2
  <2> HIDE DEF g, n
  <2> QED
    BY <2>1, <2>2 DEF Numbers
<1> HIDE DEF g, n
<1>5. ExistsBijection(1..n, S)
  <2>1. g \in [1..n -> S]
    BY <1>4 DEF Numbers
  <2>2. \A j, k \in 1..n : g[j] = g[k] => j = k
    BY <1>1, <1>4, NumbersInjective
  <2>3. g \in Bijection(1..n, S)
    BY <1>3, <2>1, <2>2 DEF Bijection, Injection, Surjection, IsInjective, Onto
  <2> QED
    BY <2>3 DEF ExistsBijection
<1>6. IsFiniteSet(S) /\ Cardinality(S) = n
  BY <1>1, <1>5, FS_NatBijection, FS_CountingElements
<1> DEFINE Is(s_) == s_ \in [1..Cardinality(S) -> S]
                      /\ \A j \in 1..Cardinality(S) : \A i \in 1..(j - 1) : s_[i].tag < s_[j].tag
           r == CHOOSE s_ \in [1..Cardinality(S) -> S] :
                  \A j \in 1..Cardinality(S) : \A i \in 1..(j - 1) : s_[i].tag < s_[j].tag
<1>7. Oracle!InTagOrder(S) = r
  BY DEF Oracle!InTagOrder, Oracle!Cardinality, Cardinality
<1>8. \E s_ \in [1..Cardinality(S) -> S] :
        \A j \in 1..Cardinality(S) : \A i \in 1..(j - 1) : s_[i].tag < s_[j].tag
  BY <1>4, <1>6 DEF Numbers
<1>9. Numbers(r, n, S)
  BY <1>6, <1>8 DEF Numbers
<1> HIDE DEF r
<1>10. Onto(r, n, S)
  BY <1>6, <1>9, NumbersAll
<1>11. g = r
  BY <1>1, <1>3, <1>4, <1>9, <1>10, OneNumbering
<1> QED
  BY <1>7, <1>11 DEF g, n

-----------------------------------------------------------------------------
(* The inductive invariant for the refinement *)

\* an entry and the leaves it shows, in heap h
SeenIn(h, e) ==
  IF e.ready
  THEN [tag |-> e.tag, offset |-> e.offset, to |-> [j \in 1..Len(e.sprop) |-> h[e.sprop[j]].type]]
  ELSE [incomplete |-> e.tag]

ShowsIn(h, ps, S) ==
  /\ \A k \in 1..Len(ps) : SeenIn(h, ps[k]) \in S
  /\ \A e \in S : \E k \in 1..Len(ps) : SeenIn(h, ps[k]) = e
  /\ \A j, k \in 1..Len(ps) : SeenIn(h, ps[j]) = SeenIn(h, ps[k]) => j = k

\* the entries but the last, and the last
Earlier(ps) == [k \in 1..(Len(ps) - 1) |-> ps[k]]
Latest(ps)  == ps[Len(ps)]

\* pointers of a list of entries
IsPointer(ps, q) == \E k \in 1..Len(ps) : \E j \in 1..Len(ps[k].sprop) : q = ps[k].sprop[j]

\* what the fields of t before field i contribute
Found(t, i) == UNION {FieldLeaves(t, j) : j \in 1..(i - 1)}
FoundReserved(t, i) == UNION {decl[t][j].ids : j \in {k \in 1..(i - 1) : decl[t][k].kind = "reserved"}}

CachedDone(t) == Cached(t) /\ objs[propertiesMap[t]].done

\* a finished description is the oracle's, and the types it embeds are finished
Described(t) ==
  /\ ShowsIn(objs, objs[propertiesMap[t]].props, Oracle!Leaves(t))
  /\ Ascending(objs[propertiesMap[t]].props)
  /\ objs[propertiesMap[t]].reserved = IF t = TimeType THEN {} ELSE Oracle!ReservedBy(t)
  /\ ~Oracle!Broken(t)
  /\ \A i \in Oracle!At(t, "embedded") : CachedDone(decl[t][i].to[1])

\* the entry of the field an activation is at has the pointers resolved so far
OpenEntry(f, c, e) ==
  /\ c.kind = "field"
  /\ e.tag = c.tag /\ e.offset = <<f.i>>
  /\ Len(e.sprop) <= Len(c.to)
  /\ \A n \in 1..Len(e.sprop) : objs[e.sprop[n]].type = c.to[n]

\* an activation has found what the fields before the one it is at contribute
FrameOk(f) ==
  /\ f.type \in Structs /\ f.type # TimeType
  /\ f.i <= Len(decl[f.type]) + 1
  /\ \A j \in 1..(f.i - 1) : decl[f.type][j].ok
  /\ \A j \in 1..(f.i - 1) : decl[f.type][j].kind = "embedded" => CachedDone(decl[f.type][j].to[1])
  /\ objs[f.obj].reserved = FoundReserved(f.type, f.i)
  /\ ~f.open => ShowsIn(objs, objs[f.obj].props, Found(f.type, f.i))
  /\ f.open => /\ f.i <= Len(decl[f.type]) /\ objs[f.obj].props # <<>>
               /\ OpenEntry(f, decl[f.type][f.i], Latest(objs[f.obj].props))
               /\ ShowsIn(objs, Earlier(objs[f.obj].props), Found(f.type, f.i))

\* activation f needs type t to go on with its field
Needs(f, c, n, t) ==
  \/ c.kind = "embedded" /\ ~f.open /\ t = c.to[1]
  \/ c.kind = "field" /\ f.open /\ n < Len(c.to) /\ t = c.to[n + 1]

Waits(f, t) ==
  /\ f.i <= Len(decl[f.type])
  /\ Needs(f, decl[f.type][f.i], Len(Latest(objs[f.obj].props).sprop), t)

\* getPropertiesLocked is to answer, or has answered, for type t
Wanted(t) ==
  /\ stack = <<>> => t = arg[muWriter]
  /\ stack # <<>> => \A f \in {Top} : Waits(f, t)

CacheInv ==
  /\ \A t \in Types : Cached(t) => t \in Structs /\ objs[propertiesMap[t]].type = t
  /\ CachedDone(TimeType)
DoneInv   == \A t \in Structs : CachedDone(t) => Described(t)
RisingInv == \A k \in 1..Len(stack) : \A j \in 1..(k - 1) : stack[j].obj < stack[k].obj
FramesInv == \A k \in 1..Len(stack) : \A f \in {stack[k]} : FrameOk(f)
ChainInv  == \A k \in 1..(Len(stack) - 1) : \A f \in {stack[k]}, t \in {stack[k + 1].type} : Waits(f, t)
RetInv ==
  ret # Pending =>
    \E t \in Structs : /\ Wanted(t)
                       /\ \/ ret = Error /\ ~Oracle!Valid(t)
                          \/ Cached(t) /\ ret = Answer(propertiesMap[t])

\* pointers are to what is in the map
CurrentInv ==
  \A u \in Structs : Cached(u) =>
    \A q \in Objects : IsPointer(objs[propertiesMap[u]].props, q) => propertiesMap[objs[q].type] = q

\* what is older than an activation points to nothing newer
OlderInv ==
  \A k \in 1..Len(stack) : \A u \in Structs : (Cached(u) /\ propertiesMap[u] < stack[k].obj) =>
    \A q \in Objects : IsPointer(objs[propertiesMap[u]].props, q) => q < stack[k].obj

\* an activation leads to all that is newer
NewerInv ==
  \A k \in 1..Len(stack) : \A u \in Structs : (Cached(u) /\ propertiesMap[u] >= stack[k].obj) =>
    \A t \in {stack[k].type} : u \in Oracle!Reach(t)

BuildInv ==
  /\ CacheInv /\ DoneInv /\ RisingInv /\ FramesInv /\ ChainInv /\ RetInv
  /\ CurrentInv /\ OlderInv /\ NewerInv

-----------------------------------------------------------------------------
(* What stays from one state to the next *)

LEMMA Static ==
  ASSUME [Next]_vars
  PROVE  /\ decl' = decl
         /\ ProgramInOrder => ProgramInOrder'
         /\ \A t : /\ Oracle!Reach(t)' = Oracle!Reach(t)
                   /\ Oracle!Valid(t)' = Oracle!Valid(t)
                   /\ Oracle!Broken(t)' = Oracle!Broken(t)
                   /\ Oracle!Leaves(t)' = Oracle!Leaves(t)
                   /\ Oracle!ReservedBy(t)' = Oracle!ReservedBy(t)
                   /\ Oracle!Describe(t)' = Oracle!Describe(t)
         /\ \A t, k : Oracle!At(t, k)' = Oracle!At(t, k)
         /\ \A t, i : /\ FieldLeaves(t, i)' = FieldLeaves(t, i)
                      /\ Found(t, i)' = Found(t, i)
                      /\ FoundReserved(t, i)' = FoundReserved(t, i)
<1>1. decl' = decl
  BY DEF Next, vars, Terminated, GetProperties, GetPropertiesLocked, Call, RLock, Lookup, RUnlock, AnnounceLock, Lock,
         Unlock, EnterCached, EnterNew, NumFieldPanics, EmbeddedFails, MergeEmbedded, ParseReserved,
         ParseReservedFails, SkipField, AppendEntry, ResolveType, ResolveFails, InitField, InitFieldFails,
         Finish, FinishFails, UNCHANGED_Callers
<1>2. ProgramInOrder => ProgramInOrder'
  BY <1>1 DEF ProgramInOrder
<1>3. \A t, k : Oracle!At(t, k)' = Oracle!At(t, k)
  BY <1>1 DEF Oracle!At
<1>4. \A t : Oracle!Leaves(t)' = Oracle!Leaves(t)
  BY <1>1 DEF Oracle!Leaves, Oracle!LeavesTo, Oracle!At, Oracle!OwnLeaf, Oracle!TimeLeaf, Oracle!Cardinality
<1>5. \A t : Oracle!Reach(t)' = Oracle!Reach(t)
  BY <1>1 DEF Oracle!Reach, Oracle!Closure, Oracle!Mentions, Oracle!Cardinality
<1>6. \A t : Oracle!ReservedBy(t)' = Oracle!ReservedBy(t)
  BY <1>1 DEF Oracle!ReservedBy, Oracle!At
<1>7. \A t : Oracle!Broken(t)' = Oracle!Broken(t)
  BY <1>1, <1>4, <1>6 DEF Oracle!Broken, Oracle!TagClash
<1>8. \A t : Oracle!Valid(t)' = Oracle!Valid(t)
  BY <1>5, <1>7 DEF Oracle!Valid
<1>9. \A t : Oracle!Describe(t)' = Oracle!Describe(t)
  BY <1>1 DEF Oracle!Describe, Oracle!Valid, Oracle!Broken, Oracle!TagClash, Oracle!Leaves, Oracle!LeavesTo,
              Oracle!ReservedBy, Oracle!At, Oracle!OwnLeaf, Oracle!TimeLeaf, Oracle!Cardinality, Oracle!Reach,
              Oracle!Closure, Oracle!Mentions, Oracle!PointsTo, Oracle!Description, Oracle!InTagOrder
<1>10. \A t, i : FieldLeaves(t, i)' = FieldLeaves(t, i)
  BY <1>1, <1>4 DEF FieldLeaves, Oracle!OwnLeaf, Moved
<1>11. \A t, i : Found(t, i)' = Found(t, i)
  BY <1>10 DEF Found
<1>12. \A t, i : FoundReserved(t, i)' = FoundReserved(t, i)
  BY <1>1 DEF FoundReserved
<1> QED
  BY <1>1, <1>2, <1>3, <1>4, <1>5, <1>6, <1>7, <1>8, <1>9, <1>10, <1>11, <1>12

LEMMA ShowsInIs ==
  ASSUME NEW ps, NEW S
  PROVE  Shows(ps, S) <=> ShowsIn(objs, ps, S)
BY DEF Shows, ShowsIn, SeenEntry, SeenIn

LEMMA ShowsInKept ==
  ASSUME NEW g, NEW h, NEW ps, NEW S, ShowsIn(g, ps, S),
         \A k \in 1..Len(ps) : \A j \in 1..Len(ps[k].sprop) : h[ps[k].sprop[j]].type = g[ps[k].sprop[j]].type
  PROVE  ShowsIn(h, ps, S)
<1>1. ASSUME NEW k \in 1..Len(ps) PROVE SeenIn(h, ps[k]) = SeenIn(g, ps[k])
  BY DEF SeenIn
<1> QED
  BY <1>1 DEF ShowsIn

\* an object keeps its type
LEMMA TypesKept ==
  ASSUME IInv, [Next]_vars, NEW o \in Objects
  PROVE  o \in Objects' /\ objs'[o].type = objs[o].type
<1>0. TypeOK
  BY DEF IInv
<1>1. CASE UNCHANGED objs
  BY <1>1 DEF Objects
<1>2. ASSUME NEW p \in Procs, Callers(p)
      PROVE  UNCHANGED objs
  BY <1>2 DEF Callers, Call, RLock, Lookup, RUnlock, AnnounceLock, Lock, Unlock
<1>3. ASSUME NEW p \in Procs, GetPropertiesLocked(p)
      PROVE  o \in Objects' /\ objs'[o].type = objs[o].type
  <2>1. Effect(p)
    BY <1>3, Effects
  <2>2. CASE Hit \/ Panic(p)
    BY <1>1, <2>2 DEF Hit, Panic
  <2>3. CASE Push
    BY <1>0, <2>3, PushFacts DEF Push
  <2>4. CASE Work \/ Forget \/ Keep \/ Complete
    <3>1. stack # <<>> /\ \E ob \in Object : Becomes(ob)
      BY <2>4 DEF Work, Forget, Keep, Complete
    <3> QED
      BY <1>0, <3>1, BecomesFacts
  <2> QED
    BY <2>1, <2>2, <2>3, <2>4 DEF Effect
<1> QED
  BY <1>1, <1>2, <1>3, NextCases DEF vars

LEMMA DoneKept ==
  ASSUME IInv, [Next]_vars, NEW t \in Structs, CachedDone(t)
  PROVE  /\ CachedDone(t)'
         /\ propertiesMap'[t] = propertiesMap[t]
         /\ objs'[propertiesMap[t]] = objs[propertiesMap[t]]
<1>1. t \in Types
  BY DEF Types
<1> QED
  BY <1>1, FinalStep DEF DoneIsFinal, CachedDone, Cached

\* the pointers of an object's entries are objects
LEMMA EntriesOf ==
  ASSUME TypeOK, NEW o \in Objects
  PROVE  /\ objs[o] \in Object
         /\ objs[o].props \in Seq(Entry)
         /\ \A k \in 1..Len(objs[o].props) :
              /\ objs[o].props[k] \in Entry
              /\ \A j \in 1..Len(objs[o].props[k].sprop) : objs[o].props[k].sprop[j] \in Objects
<1>1. objs \in Seq(Object) /\ o \in 1..Len(objs)
  BY DEF TypeOK, Objects
<1>2. objs[o] \in Object
  BY <1>1
<1>3. objs[o].props \in Seq(Entry)
  BY <1>2 DEF Object
<1> DEFINE ps == objs[o].props
<1>4. ASSUME NEW k \in 1..Len(ps) PROVE ps[k] \in Entry /\ \A j \in 1..Len(ps[k].sprop) : ps[k].sprop[j] \in Objects
  <2>1. ps[k] \in Entry
    BY <1>3
  <2>2. ps[k].sprop \in Seq(Objects)
    BY <2>1 DEF Entry
  <2> QED
    BY <2>1, <2>2
<1> QED
  BY <1>2, <1>3, <1>4

LEMMA DescribedKept ==
  ASSUME IInv, ProgramInOrder, [Next]_vars, NEW t \in Structs, CachedDone(t), Described(t)
  PROVE  Described(t)'
<1>0. TypeOK
  BY DEF IInv
<1>1. propertiesMap'[t] = propertiesMap[t] /\ objs'[propertiesMap[t]] = objs[propertiesMap[t]]
  BY DoneKept
<1>2. propertiesMap[t] \in Objects
  BY <1>0 DEF CachedDone, Cached, TypeOK, Types
<1> DEFINE ps == objs[propertiesMap[t]].props
<1>3. \A k \in 1..Len(ps) : \A j \in 1..Len(ps[k].sprop) : objs'[ps[k].sprop[j]].type = objs[ps[k].sprop[j]].type
  BY <1>0, <1>2, EntriesOf, TypesKept
<1>4. ShowsIn(objs', ps, Oracle!Leaves(t))
  <2>1. ShowsIn(objs, ps, Oracle!Leaves(t))
    BY DEF Described
  <2> HIDE DEF ps
  <2> QED
    BY <1>3, <2>1, ShowsInKept
<1>5. ASSUME NEW i \in Oracle!At(t, "embedded") PROVE CachedDone(decl[t][i].to[1])'
  <2>1. CachedDone(decl[t][i].to[1]) /\ decl[t][i].to[1] \in Structs
    BY EmbeddedAt DEF Described
  <2> DEFINE u == decl[t][i].to[1]
  <2>2. PICK v \in Structs : v = u
    BY <2>1
  <2>3. CachedDone(v)
    BY <2>1, <2>2 DEF CachedDone, Cached
  <2>4. CachedDone(v)'
    BY <2>3, DoneKept
  <2>5. decl' = decl
    BY Static
  <2> QED
    BY <2>2, <2>4, <2>5 DEF CachedDone, Cached
<1> QED
  BY <1>1, <1>4, <1>5, Static DEF Described, Ascending

LEMMA FrameKept ==
  ASSUME IInv, ProgramInOrder, [Next]_vars, NEW f \in Frame, FrameOk(f), objs'[f.obj] = objs[f.obj]
  PROVE  FrameOk(f)'
<1>0. TypeOK
  BY DEF IInv
<1> DEFINE ps == objs[f.obj].props
<1>1. f.obj \in Objects /\ f.i \in Nat \ {0} /\ f.type \in Structs
  BY DEF Frame, FrameOk
<1>2. /\ ps \in Seq(Entry)
      /\ \A k \in 1..Len(ps) : \A j \in 1..Len(ps[k].sprop) : objs'[ps[k].sprop[j]].type = objs[ps[k].sprop[j]].type
  BY <1>0, <1>1, EntriesOf, TypesKept
<1>3. decl' = decl /\ Found(f.type, f.i)' = Found(f.type, f.i) /\ FoundReserved(f.type, f.i)' = FoundReserved(f.type, f.i)
  BY Static
<1>4. ASSUME NEW j \in 1..(f.i - 1), decl[f.type][j].kind = "embedded" PROVE CachedDone(decl[f.type][j].to[1])'
  <2>1. CachedDone(decl[f.type][j].to[1])
    BY <1>4 DEF FrameOk
  <2>2. f.i <= Len(decl[f.type]) + 1
    BY DEF FrameOk
  <2>20. Len(decl[f.type]) \in Nat
    BY <1>1, <1>0 DEF TypeOK
  <2>21. j \in 1..Len(decl[f.type])
    BY <2>2, <1>1, <2>20
  <2>3. decl[f.type][j].to[1] \in Structs
    BY <1>1, <1>4, <2>21, DeclFacts
  <2>4. PICK v \in Structs : v = decl[f.type][j].to[1]
    BY <2>3
  <2>5. CachedDone(v)
    BY <2>1, <2>4 DEF CachedDone, Cached
  <2>6. CachedDone(v)'
    BY <2>5, DoneKept
  <2> QED
    BY <2>4, <2>6, <1>3 DEF CachedDone, Cached
<1>5. ASSUME NEW S, ShowsIn(objs, ps, S) PROVE ShowsIn(objs', ps, S)
  <2> HIDE DEF ps
  <2> QED
    BY <1>2, <1>5, ShowsInKept
<1>6. ASSUME NEW S, ShowsIn(objs, Earlier(ps), S) PROVE ShowsIn(objs', Earlier(ps), S)
  <2> DEFINE es == Earlier(ps)
  <2>1. Len(ps) \in Nat
    BY <1>2
  <2>2. \A k \in 1..Len(es) : k \in 1..Len(ps) /\ es[k] = ps[k]
    <3> HIDE DEF ps
    <3>1. CASE Len(ps) = 0
      BY <3>1 DEF Earlier
    <3>2. CASE Len(ps) # 0
      <4>1. Len(ps) - 1 \in Nat
        BY <2>1, <3>2
      <4>2. Len(es) = Len(ps) - 1
        BY <4>1 DEF Earlier
      <4> QED
        BY <4>1, <4>2, <2>1 DEF Earlier
    <3> QED
      BY <3>1, <3>2
  <2>3. \A k \in 1..Len(es) : \A j \in 1..Len(es[k].sprop) : objs'[es[k].sprop[j]].type = objs[es[k].sprop[j]].type
    <3> HIDE DEF ps, es
    <3> QED
      BY <1>2, <2>2
  <2>4. ShowsIn(objs, es, S)
    BY <1>6
  <2> HIDE DEF es
  <2> QED
    BY <2>3, <2>4, ShowsInKept DEF es
<1>7. f.open => OpenEntry(f, decl[f.type][f.i], Latest(ps))'
  <2>1. SUFFICES ASSUME f.open PROVE OpenEntry(f, decl[f.type][f.i], Latest(ps))'
    OBVIOUS
  <2>2. OpenEntry(f, decl[f.type][f.i], Latest(ps))
    BY <2>1 DEF FrameOk
  <2>3. ps # <<>>
    BY <2>1 DEF FrameOk
  <2> DEFINE e == Latest(ps)
             c == decl[f.type][f.i]
  <2>4. e = ps[Len(ps)] /\ Len(ps) \in 1..Len(ps)
    BY <1>2, <2>3 DEF Latest
  <2>5. \A n \in 1..Len(e.sprop) : objs'[e.sprop[n]].type = objs[e.sprop[n]].type
    <3> HIDE DEF ps, e
    <3> QED
      BY <1>2, <2>4
  <2>6. OpenEntry(f, c, e)
    BY <2>2
  <2>7. /\ c.kind = "field" /\ e.tag = c.tag /\ e.offset = <<f.i>> /\ Len(e.sprop) <= Len(c.to)
        /\ \A n \in 1..Len(e.sprop) : objs'[e.sprop[n]].type = c.to[n]
    <3> HIDE DEF e, c
    <3> QED
      BY <2>5, <2>6 DEF OpenEntry
  <2> QED
    BY <1>3, <2>7 DEF OpenEntry, Latest
<1> QED
  BY <1>3, <1>4, <1>5, <1>6, <1>7 DEF FrameOk

LEMMA WaitsKept ==
  ASSUME [Next]_vars, NEW f, NEW t, Waits(f, t), objs'[f.obj] = objs[f.obj]
  PROVE  Waits(f, t)'
<1>1. decl' = decl
  BY Static
<1> QED
  BY <1>1 DEF Waits

-----------------------------------------------------------------------------
(* The effects keep the invariant *)

LEMMA DoneInvStep ==
  ASSUME IInv, ProgramInOrder, DoneInv, [Next]_vars,
         \A t \in Structs : CachedDone(t)' => CachedDone(t) \/ Described(t)'
  PROVE  DoneInv'
<1>1. ASSUME NEW t \in Structs, CachedDone(t)' PROVE Described(t)'
  <2>1. CASE CachedDone(t)
    BY <2>1, DescribedKept DEF DoneInv
  <2> QED
    BY <1>1, <2>1
<1> QED
  BY <1>1 DEF DoneInv

\* the innermost activation moves on
LEMMA WorkStep ==
  ASSUME IInv, ProgramInOrder, BuildInv, [Next]_vars, stack # <<>>,
         NEW ob \in Object, Becomes(ob), ob.done = objs[Top.obj].done,
         NEW f \in Frame, f.type = Top.type, f.obj = Top.obj, SetTop(f),
         UNCHANGED propertiesMap, ret' = Pending, FrameOk(f)',
         \A q \in Objects : IsPointer(ob.props, q) => propertiesMap[objs[q].type] = q
  PROVE  BuildInv'
<1>0. /\ TypeOK /\ StackInv
      /\ CacheInv /\ DoneInv /\ RisingInv /\ FramesInv /\ ChainInv /\ CurrentInv /\ OlderInv /\ NewerInv
  BY DEF IInv, BuildInv
<1>1. /\ Len(stack) \in Nat \ {0}
      /\ Len(stack') = Len(stack)
      /\ \A k \in 1..Len(stack) : stack'[k] = IF k = Len(stack) THEN f ELSE stack[k]
  BY <1>0, SetTopFacts, TopInStack
<1>2. /\ Objects' = Objects
      /\ ob.type = objs[Top.obj].type
      /\ \A o \in Objects : objs'[o] = IF o = Top.obj THEN ob ELSE objs[o]
  BY <1>0, BecomesFacts
<1>3. /\ Top = stack[Len(stack)]
      /\ \A k \in 1..Len(stack) : stack[k] \in Frame /\ stack[k].obj \in Objects
      /\ \A j, k \in 1..Len(stack) : stack[j].obj = stack[k].obj => j = k
  BY <1>0, StackObjects
<1>4. \A k \in 1..Len(stack) : k # Len(stack) => stack'[k] = stack[k] /\ objs'[stack[k].obj] = objs[stack[k].obj]
  BY <1>1, <1>2, <1>3
<1>5. \A k \in 1..Len(stack) : stack'[k].type = stack[k].type /\ stack'[k].obj = stack[k].obj
  BY <1>1, <1>3
<1>6. \A o \in Objects : objs'[o].type = objs[o].type /\ objs'[o].done = objs[o].done
  BY <1>2
<1>7. \A t \in Types : Cached(t) => propertiesMap[t] \in Objects
  BY <1>0 DEF Cached, TypeOK
<1>8. \A t \in Structs : t \in Types
  BY DEF Types
<1>9. TimeType \in Structs
  BY TypesAssumption
<1>10. CacheInv'
  <2>1. \A t \in Types : Cached(t)' <=> Cached(t)
    BY DEF Cached
  <2>2. CachedDone(TimeType)'
    BY <1>0, <1>9, DoneKept DEF CacheInv
  <2> QED
    BY <1>0, <1>6, <1>7, <2>1, <2>2 DEF CacheInv
<1>11. DoneInv'
  <2>1. \A t \in Structs : CachedDone(t)' => CachedDone(t)
    BY <1>6, <1>7, <1>8 DEF CachedDone, Cached
  <2> QED
    BY <1>0, <2>1, DoneInvStep
<1>12. RisingInv'
  BY <1>0, <1>1, <1>5 DEF RisingInv
<1>13. FramesInv'
  <2>1. ASSUME NEW k \in 1..Len(stack), NEW g \in {stack'[k]} PROVE FrameOk(g)'
    <3>1. CASE k = Len(stack)
      BY <1>1, <2>1, <3>1
    <3>2. CASE k # Len(stack)
      <4>1. g = stack[k] /\ g \in Frame /\ objs'[g.obj] = objs[g.obj]
        BY <1>3, <1>4, <2>1, <3>2
      <4>2. FrameOk(g)
        BY <1>0, <4>1 DEF FramesInv
      <4> QED
        BY <4>1, <4>2, FrameKept
    <3> QED
      BY <3>1, <3>2
  <2> QED
    BY <1>1, <2>1 DEF FramesInv
<1>14. ChainInv'
  <2>1. ASSUME NEW k \in 1..(Len(stack) - 1), NEW g \in {stack'[k]}, NEW t \in {stack'[k + 1].type} PROVE Waits(g, t)'
    <3>1. k \in 1..Len(stack) /\ k + 1 \in 1..Len(stack) /\ k # Len(stack)
      BY <1>1
    <3>2. g = stack[k] /\ t = stack[k + 1].type /\ objs'[g.obj] = objs[g.obj]
      BY <1>4, <1>5, <2>1, <3>1
    <3>3. Waits(g, t)
      BY <1>0, <3>2 DEF ChainInv
    <3> QED
      BY <3>2, <3>3, WaitsKept
  <2> QED
    BY <1>1, <2>1 DEF ChainInv
<1>15. RetInv'
  BY DEF RetInv
<1>16. CurrentInv'
  <2>1. ASSUME NEW u \in Structs, Cached(u)', NEW q \in Objects, IsPointer(objs'[propertiesMap'[u]].props, q)
        PROVE  propertiesMap'[objs'[q].type] = q
    <3>1. Cached(u) /\ propertiesMap[u] \in Objects
      BY <1>7, <1>8, <2>1 DEF Cached
    <3>2. objs'[q].type = objs[q].type
      BY <1>6
    <3>3. CASE propertiesMap[u] = Top.obj
      BY <1>2, <2>1, <3>1, <3>2, <3>3
    <3>4. CASE propertiesMap[u] # Top.obj
      BY <1>0, <1>2, <2>1, <3>1, <3>2, <3>4 DEF CurrentInv
    <3> QED
      BY <3>3, <3>4
  <2> QED
    BY <1>2, <2>1 DEF CurrentInv, IsPointer
<1>17. \A k \in 1..Len(stack) : stack[k].obj <= Top.obj
  <2>1. ASSUME NEW k \in 1..Len(stack) PROVE stack[k].obj <= Top.obj
    <3>1. CASE k = Len(stack)
      BY <1>3, <3>1 DEF Objects
    <3>2. CASE k # Len(stack)
      <4>1. Len(stack) \in 1..Len(stack) /\ k \in 1..(Len(stack) - 1)
        BY <1>1, <3>2
      <4>2. stack[k].obj < stack[Len(stack)].obj
        BY <1>0, <4>1 DEF RisingInv
      <4> QED
        BY <1>3, <4>1, <4>2 DEF Objects
    <3> QED
      BY <3>1, <3>2
  <2> QED
    BY <2>1
<1>18. OlderInv'
  <2>1. ASSUME NEW k \in 1..Len(stack), NEW u \in Structs, Cached(u)', propertiesMap'[u] < stack'[k].obj,
               NEW q \in Objects, IsPointer(objs'[propertiesMap'[u]].props, q)
        PROVE  q < stack'[k].obj
    <3>1. Cached(u) /\ propertiesMap[u] \in Objects
      BY <1>7, <1>8, <2>1 DEF Cached
    <3>2. propertiesMap[u] < stack[k].obj /\ stack[k].obj <= Top.obj /\ stack[k].obj \in Nat /\ Top.obj \in Nat
      BY <1>3, <1>5, <1>17, <2>1, <1>1 DEF Objects
    <3>3. propertiesMap[u] # Top.obj
      BY <3>1, <3>2 DEF Objects
    <3>4. objs'[propertiesMap'[u]] = objs[propertiesMap[u]]
      BY <1>2, <3>1, <3>3
    <3> QED
      BY <1>0, <1>5, <2>1, <3>1, <3>2, <3>4 DEF OlderInv
  <2> QED
    BY <1>1, <1>2, <2>1 DEF OlderInv, IsPointer
<1>19. NewerInv'
  <2>1. ASSUME NEW k \in 1..Len(stack), NEW u \in Structs, Cached(u)', propertiesMap'[u] >= stack'[k].obj,
               NEW t \in {stack'[k].type}
        PROVE  u \in Oracle!Reach(t)'
    <3>1. Cached(u) /\ t = stack[k].type /\ propertiesMap[u] >= stack[k].obj
      BY <1>5, <2>1 DEF Cached
    <3>2. u \in Oracle!Reach(t)
      BY <1>0, <3>1 DEF NewerInv
    <3> QED
      BY <3>2, Static
  <2> QED
    BY <1>1, <2>1 DEF NewerInv
<1> QED
  BY <1>10, <1>11, <1>12, <1>13, <1>14, <1>15, <1>16, <1>18, <1>19 DEF BuildInv

\* the objects of activations go up
LEMMA TopIsNewest ==
  ASSUME TypeOK, StackInv, RisingInv, NEW k \in 1..Len(stack)
  PROVE  /\ stack # <<>> /\ Top = stack[Len(stack)]
         /\ stack[k].obj \in Nat /\ Top.obj \in Nat
         /\ stack[k].obj <= Top.obj
         /\ k # Len(stack) => stack[k].obj < Top.obj
<1>1. stack # <<>> /\ Len(stack) \in Nat
  BY DEF TypeOK
<1>2. /\ Top = stack[Len(stack)] /\ Len(stack) \in 1..Len(stack)
      /\ \A j \in 1..Len(stack) : stack[j].obj \in Objects
  BY <1>1, StackObjects
<1>3. stack[k].obj \in Nat /\ Top.obj \in Nat
  BY <1>2 DEF Objects
<1>4. ASSUME k # Len(stack) PROVE stack[k].obj < Top.obj
  <2>1. k \in 1..(Len(stack) - 1)
    BY <1>1, <1>4
  <2> QED
    BY <1>2, <2>1 DEF RisingInv
<1> QED
  BY <1>1, <1>2, <1>3, <1>4

\* the innermost activation returns
LEMMA PopStep ==
  ASSUME IInv, ProgramInOrder, BuildInv, [Next]_vars, stack # <<>>, NEW p \in Procs, pc[p] = "build",
         NEW ob \in Object, Becomes(ob), Pop, UNCHANGED <<arg, muWriter>>,
         \A u \in Types : u # Top.type => propertiesMap'[u] = propertiesMap[u],
         propertiesMap'[Top.type] \in {Nil, propertiesMap[Top.type]},
         \A t \in Structs : CachedDone(t)' => CachedDone(t) \/ Described(t)',
         \/ ret' = Error /\ ~Oracle!Valid(Top.type)
         \/ propertiesMap'[Top.type] # Nil /\ ret' = Answer(propertiesMap'[Top.type]),
         propertiesMap'[Top.type] # Nil => \A q \in Objects : IsPointer(ob.props, q) => IsPointer(Props, q),
         propertiesMap'[Top.type] = Nil =>
           \A u \in Structs : (Cached(u) /\ u # Top.type) =>
             \A q \in Objects : IsPointer(objs[propertiesMap[u]].props, q) => objs[q].type # Top.type
  PROVE  BuildInv'
<1>0. /\ TypeOK /\ StackInv /\ CallInv
      /\ CacheInv /\ DoneInv /\ RisingInv /\ FramesInv /\ ChainInv /\ CurrentInv /\ OlderInv /\ NewerInv
  BY DEF IInv, BuildInv
<1>1. /\ Len(stack) \in Nat \ {0}
      /\ Len(stack') = Len(stack) - 1
      /\ \A k \in 1..Len(stack') : stack'[k] = stack[k]
  BY <1>0, PopFacts, TopInStack
<1>2. /\ Objects' = Objects
      /\ ob.type = objs[Top.obj].type
      /\ \A o \in Objects : objs'[o] = IF o = Top.obj THEN ob ELSE objs[o]
  BY <1>0, BecomesFacts
<1>3. /\ Top = stack[Len(stack)] /\ Len(stack) \in 1..Len(stack)
      /\ \A k \in 1..Len(stack) : stack[k] \in Frame /\ stack[k].obj \in Objects
      /\ \A j, k \in 1..Len(stack) : stack[j].obj = stack[k].obj => j = k
  BY <1>0, StackObjects
<1>4. \A k \in 1..Len(stack') : /\ k \in 1..Len(stack) /\ k # Len(stack)
                                /\ stack'[k] = stack[k] /\ objs'[stack[k].obj] = objs[stack[k].obj]
  <2>1. \A k \in 1..Len(stack') : k \in 1..Len(stack) /\ k # Len(stack)
    BY <1>1
  <2> QED
    BY <1>1, <1>2, <1>3, <2>1
<1>5. Top.type \in Structs /\ propertiesMap[Top.type] = Top.obj /\ Top.obj \in Objects
  <2>1. FrameOk(Top)
    BY <1>0, <1>3 DEF FramesInv
  <2> QED
    BY <1>0, <1>3, <2>1 DEF FrameOk, StackInv
<1>6. \A o \in Objects : objs'[o].type = objs[o].type
  BY <1>2
<1>7. \A t \in Types : Cached(t) => propertiesMap[t] \in Objects
  BY <1>0 DEF Cached, TypeOK
<1>8. \A t \in Structs : t \in Types
  BY DEF Types
<1>9. \A t \in Types : Cached(t)' => Cached(t) /\ propertiesMap'[t] = propertiesMap[t]
  BY DEF Cached
<1>91. TimeType \in Structs
  BY TypesAssumption
<1>10. CacheInv'
  <2>1. CachedDone(TimeType)'
    BY <1>0, <1>91, DoneKept DEF CacheInv
  <2>2. ASSUME NEW t \in Types, Cached(t)' PROVE t \in Structs /\ objs'[propertiesMap'[t]].type = t
    <3>1. Cached(t) /\ propertiesMap'[t] = propertiesMap[t] /\ propertiesMap[t] \in Objects
      BY <1>7, <1>9, <2>2
    <3> QED
      BY <1>0, <1>6, <3>1 DEF CacheInv
  <2> QED
    BY <2>1, <2>2 DEF CacheInv
<1>11. DoneInv'
  BY <1>0, DoneInvStep
<1>12. RisingInv'
  <2>1. ASSUME NEW k \in 1..Len(stack'), NEW j \in 1..(k - 1) PROVE stack'[j].obj < stack'[k].obj
    <3>1. j \in 1..Len(stack')
      BY <1>1
    <3> QED
      BY <1>0, <1>4, <3>1 DEF RisingInv
  <2> QED
    BY <2>1 DEF RisingInv
<1>13. FramesInv'
  <2>1. ASSUME NEW k \in 1..Len(stack'), NEW g \in {stack'[k]} PROVE FrameOk(g)'
    <3>1. g = stack[k] /\ g \in Frame /\ objs'[g.obj] = objs[g.obj] /\ k \in 1..Len(stack)
      BY <1>3, <1>4, <2>1
    <3>2. FrameOk(g)
      BY <1>0, <3>1 DEF FramesInv
    <3> QED
      BY <3>1, <3>2, FrameKept
  <2> QED
    BY <2>1 DEF FramesInv
<1>14. ChainInv'
  <2>1. ASSUME NEW k \in 1..(Len(stack') - 1), NEW g \in {stack'[k]}, NEW t \in {stack'[k + 1].type} PROVE Waits(g, t)'
    <3>1. k \in 1..Len(stack') /\ k + 1 \in 1..Len(stack') /\ k \in 1..(Len(stack) - 1)
      BY <1>1
    <3>2. g = stack[k] /\ t = stack[k + 1].type /\ objs'[g.obj] = objs[g.obj]
      BY <1>4, <2>1, <3>1
    <3>3. Waits(g, t)
      BY <1>0, <3>1, <3>2 DEF ChainInv
    <3> QED
      BY <3>2, <3>3, WaitsKept
  <2> QED
    BY <1>1, <2>1 DEF ChainInv
<1>15. RetInv'
  <2>0. PICK w \in Structs : w = Top.type
    BY <1>5
  <2>1. stack' = <<>> => w = arg[muWriter]
    <3>1. stack' = <<>> => Len(stack) = 1
      BY <1>1
    <3> QED
      BY <1>0, <1>3, <2>0, <3>1 DEF CallInv
  <2>2. ASSUME stack' # <<>>, NEW f \in {Top'} PROVE Waits(f, w)'
    <3>1. Len(stack') \in 1..Len(stack') /\ Len(stack') \in 1..(Len(stack) - 1) /\ Len(stack') + 1 = Len(stack)
      <4>1. Len(stack') # 0
        <5>1. stack' \in Seq(Frame)
          BY <1>0, PopFacts
        <5> QED
          BY <2>2, <5>1
      <4> QED
        BY <1>1, <4>1
    <3>2. f = stack[Len(stack')] /\ objs'[f.obj] = objs[f.obj]
      BY <1>4, <2>2, <3>1 DEF Top
    <3>3. Waits(f, w)
      BY <1>0, <1>3, <2>0, <3>1, <3>2 DEF ChainInv
    <3> QED
      BY <3>2, <3>3, WaitsKept
  <2>3. Wanted(w)'
    BY <2>1, <2>2 DEF Wanted
  <2>4. (ret' = Error /\ ~Oracle!Valid(w)') \/ (Cached(w)' /\ ret' = Answer(propertiesMap'[w]))
    BY <2>0, Static DEF Cached
  <2> QED
    BY <2>3, <2>4 DEF RetInv, Error, Answer
<1>16. CurrentInv'
  <2>1. ASSUME NEW u \in Structs, Cached(u)', NEW q \in Objects, IsPointer(objs'[propertiesMap'[u]].props, q)
        PROVE  propertiesMap'[objs'[q].type] = q
    <3>1. Cached(u) /\ propertiesMap'[u] = propertiesMap[u] /\ propertiesMap[u] \in Objects
      BY <1>7, <1>8, <1>9, <2>1
    <3>2. objs'[q].type = objs[q].type /\ objs[q].type \in Types
      BY <1>0, <1>6, EntriesOf DEF Object
    <3>3. IsPointer(objs[propertiesMap[u]].props, q)
      <4>1. CASE propertiesMap[u] = Top.obj
        <5>1. u = Top.type
          BY <1>0, <1>5, <1>8, <3>1, <4>1, StackObjects DEF CacheInv, Cached, Objects
        <5>2. IsPointer(ob.props, q) /\ propertiesMap'[Top.type] # Nil
          BY <1>2, <2>1, <3>1, <4>1, <5>1 DEF Cached
        <5> QED
          BY <4>1, <5>2 DEF Props
      <4>2. CASE propertiesMap[u] # Top.obj
        BY <1>2, <2>1, <3>1, <4>2
      <4> QED
        BY <4>1, <4>2
    <3>4. propertiesMap[objs[q].type] = q
      BY <1>0, <3>1, <3>3 DEF CurrentInv
    <3>5. CASE objs[q].type # Top.type
      BY <3>2, <3>4, <3>5
    <3>6. CASE objs[q].type = Top.type
      <4>1. propertiesMap'[Top.type] # Nil
        BY <2>1, <3>1, <3>3, <3>6 DEF Cached
      <4> QED
        BY <3>2, <3>4, <3>6, <4>1
    <3> QED
      BY <3>5, <3>6
  <2> QED
    BY <1>2, <2>1 DEF CurrentInv, IsPointer
<1>18. OlderInv'
  <2>1. ASSUME NEW k \in 1..Len(stack'), NEW u \in Structs, Cached(u)', propertiesMap'[u] < stack'[k].obj,
               NEW q \in Objects, IsPointer(objs'[propertiesMap'[u]].props, q)
        PROVE  q < stack'[k].obj
    <3>1. Cached(u) /\ propertiesMap'[u] = propertiesMap[u] /\ propertiesMap[u] \in Objects
      BY <1>7, <1>8, <1>9, <2>1
    <3>2. propertiesMap[u] < stack[k].obj /\ stack[k].obj <= Top.obj /\ stack[k].obj \in Nat /\ Top.obj \in Nat
      BY <1>0, <1>4, <2>1, <3>1, TopIsNewest
    <3>3. propertiesMap[u] # Top.obj
      BY <3>1, <3>2 DEF Objects
    <3>4. objs'[propertiesMap'[u]] = objs[propertiesMap[u]]
      BY <1>2, <3>1, <3>3
    <3> QED
      BY <1>0, <1>4, <2>1, <3>1, <3>2, <3>4 DEF OlderInv
  <2> QED
    BY <1>2, <2>1 DEF OlderInv, IsPointer
<1>19. NewerInv'
  <2>1. ASSUME NEW k \in 1..Len(stack'), NEW u \in Structs, Cached(u)', propertiesMap'[u] >= stack'[k].obj,
               NEW t \in {stack'[k].type}
        PROVE  u \in Oracle!Reach(t)'
    <3>1. Cached(u) /\ k \in 1..Len(stack) /\ t = stack[k].type /\ propertiesMap[u] >= stack[k].obj
      BY <1>4, <1>8, <1>9, <2>1
    <3>2. u \in Oracle!Reach(t)
      BY <1>0, <3>1 DEF NewerInv
    <3> QED
      BY <3>2, Static
  <2> QED
    BY <2>1 DEF NewerInv
<1> QED
  BY <1>10, <1>11, <1>12, <1>13, <1>14, <1>15, <1>16, <1>18, <1>19 DEF BuildInv

\* nothing is built
LEMMA SameHeapStep ==
  ASSUME IInv, ProgramInOrder, BuildInv, [Next]_vars, UNCHANGED <<propertiesMap, objs, stack>>, RetInv'
  PROVE  BuildInv'
<1>0. /\ TypeOK /\ StackInv
      /\ CacheInv /\ DoneInv /\ RisingInv /\ FramesInv /\ ChainInv /\ CurrentInv /\ OlderInv /\ NewerInv
  BY DEF IInv, BuildInv
<1>1. \A t : Cached(t)' <=> Cached(t)
  BY DEF Cached
<1>2. \A t : CachedDone(t)' <=> CachedDone(t)
  BY <1>1 DEF CachedDone
<1>3. CacheInv'
  BY <1>0, <1>1, <1>2 DEF CacheInv
<1>4. DoneInv'
  BY <1>0, <1>2, DoneInvStep
<1>5. RisingInv' /\ Objects' = Objects
  BY <1>0 DEF RisingInv, Objects
<1>6. FramesInv'
  <2>1. ASSUME NEW k \in 1..Len(stack), NEW g \in {stack[k]} PROVE FrameOk(g)'
    BY <1>0, StackObjects, FrameKept DEF FramesInv
  <2> QED
    BY <2>1 DEF FramesInv
<1>7. \A f, t : Waits(f, t) => Waits(f, t)'
  BY WaitsKept
<1>8. ChainInv'
  BY <1>0, <1>7 DEF ChainInv
<1>9. CurrentInv' /\ OlderInv'
  <2>1. UNCHANGED <<propertiesMap, objs, stack>>
    OBVIOUS
  <2>2. CurrentInv'
    <3>1. CurrentInv
      BY <1>0
    <3> QED
      BY <2>1, <3>1 DEF CurrentInv, IsPointer, Cached, Objects
  <2>3. OlderInv'
    <3>1. OlderInv
      BY <1>0
    <3> QED
      BY <2>1, <3>1 DEF OlderInv, IsPointer, Cached, Objects
  <2> QED
    BY <2>2, <2>3
<1>10. NewerInv'
  BY <1>0, <1>1, Static DEF NewerInv
<1> QED
  BY <1>3, <1>4, <1>5, <1>6, <1>8, <1>9, <1>10 DEF BuildInv

\* what is asked for is in the map
LEMMA HitStep ==
  ASSUME IInv, ProgramInOrder, BuildInv, [Next]_vars, UNCHANGED <<propertiesMap, objs, stack, arg, muWriter>>,
         ret' = Pending \/ \E t \in Structs : Wanted(t) /\ Cached(t) /\ ret' = Answer(propertiesMap[t])
  PROVE  BuildInv'
<1>1. \A f, t : Waits(f, t) => Waits(f, t)'
  BY WaitsKept
<1>2. RetInv'
  <2>1. ASSUME NEW t \in Structs, Wanted(t) PROVE Wanted(t)'
    BY <1>1, <2>1 DEF Wanted, Top
  <2> QED
    BY <2>1 DEF RetInv, Cached
<1> QED
  BY <1>2, SameHeapStep

LEMMA WaitsMentions ==
  ASSUME TypeOK, ProgramInOrder, NEW f \in Frame, FrameOk(f), NEW t, Waits(f, t)
  PROVE  t \in Oracle!Mentions(f.type) /\ t \in Structs
<1>0. f.type \in Structs /\ f.obj \in Objects
  BY DEF FrameOk, Frame
<1>1. f.i \in Nat \ {0} /\ Len(decl[f.type]) \in Nat /\ f.i <= Len(decl[f.type])
  BY <1>0 DEF Frame, TypeOK, Waits
<1>2. f.i \in 1..Len(decl[f.type])
  BY <1>1
<1> DEFINE c == decl[f.type][f.i]
           n == Len(Latest(objs[f.obj].props).sprop)
<1>3. Needs(f, c, n, t)
  BY DEF Waits
<1>4. c.to \in Seq(Structs) /\ (c.kind = "embedded" => Len(c.to) = 1)
  BY <1>0, <1>2, DeclFacts
<1>41. f.open => n \in Nat
  <2> DEFINE ps == objs[f.obj].props
  <2>1. ps \in Seq(Entry)
    BY <1>0, EntriesOf
  <2>2. f.open => ps # <<>>
    BY DEF FrameOk
  <2> HIDE DEF ps
  <2>3. f.open => ps[Len(ps)] \in Entry
    BY <2>1, <2>2
  <2>4. f.open => Len(ps[Len(ps)].sprop) \in Nat
    BY <2>3 DEF Entry
  <2> QED
    BY <2>4 DEF ps, Latest
<1>5. \E j \in 1..Len(c.to) : t = c.to[j]
  <2> HIDE DEF c, n
  <2>1. CASE c.kind = "embedded" /\ t = c.to[1]
    BY <1>4, <2>1
  <2>2. CASE f.open /\ n < Len(c.to) /\ t = c.to[n + 1]
    <3>1. n \in Nat /\ Len(c.to) \in Nat
      BY <1>4, <1>41, <2>2
    <3>2. n + 1 \in 1..Len(c.to)
      BY <2>2, <3>1
    <3> QED
      BY <2>2, <3>2
  <2> QED
    BY <1>3, <2>1, <2>2 DEF Needs
<1>6. t \in Structs
  BY <1>4, <1>5
<1>7. t \in Oracle!Mentions(f.type)
  BY <1>2, <1>5 DEF Oracle!Mentions
<1> QED
  BY <1>6, <1>7

\* a new description is entered
LEMMA PushStep ==
  ASSUME IInv, ProgramInOrder, BuildInv, [Next]_vars, UNCHANGED <<arg, muWriter>>, ret' = Pending,
         NEW t \in Structs, ~Cached(t), Wanted(t),
         objs' = Append(objs, NewObject(t)),
         propertiesMap' = [propertiesMap EXCEPT ![t] = Len(objs) + 1],
         stack' = Append(stack, [type |-> t, obj |-> Len(objs) + 1, i |-> 1, open |-> FALSE])
  PROVE  BuildInv'
<1>a. PICK n, s : n = Len(objs) + 1 /\ s = Len(stack) + 1
  OBVIOUS
<1>b. PICK fr : fr = [type |-> t, obj |-> n, i |-> 1, open |-> FALSE]
  OBVIOUS
<1>0. /\ TypeOK /\ StackInv
      /\ CacheInv /\ DoneInv /\ RisingInv /\ FramesInv /\ ChainInv /\ CurrentInv /\ OlderInv /\ NewerInv
  BY DEF IInv, BuildInv
<1>1. t \in Types /\ \A u \in Structs : u \in Types
  BY DEF Types
<1>2. /\ Len(objs) \in Nat /\ Len(stack) \in Nat
      /\ Objects \subseteq Objects' /\ n \in Objects'
      /\ \A o \in Objects : objs'[o] = objs[o]
      /\ objs'[n] = NewObject(t)
      /\ Len(stack') = s
      /\ \A k \in 1..Len(stack) : stack'[k] = stack[k]
      /\ stack'[s] = fr
  <2>1. stack \in Seq(Frame)
    BY <1>0 DEF TypeOK
  <2>2. Len(stack) \in Nat
    BY <2>1
  <2> QED
    BY <1>0, <1>1, <1>a, <1>b, <2>2, PushFacts
<1>21. Objects' = Objects \cup {n} /\ n \notin Objects /\ \A o \in Objects : o < n
  <2>1. Len(objs') = n
    BY <1>0, <1>1, <1>a, PushFacts
  <2> QED
    BY <1>2, <1>a, <2>1 DEF Objects
<1>3. propertiesMap'[t] = n /\ \A u \in Types : u # t => propertiesMap'[u] = propertiesMap[u]
  BY <1>0, <1>1, <1>a DEF TypeOK
<1>4. \A u \in Types : Cached(u) => propertiesMap[u] \in Objects /\ u # t
  BY <1>0 DEF Cached, TypeOK
<1>5. \A u \in Types : Cached(u)' => (u = t /\ propertiesMap'[u] = n) \/ (u # t /\ Cached(u) /\ propertiesMap'[u] = propertiesMap[u] /\ propertiesMap[u] \in Objects)
  BY <1>3, <1>4 DEF Cached
<1>6. NewObject(t).type = t /\ NewObject(t).props = <<>> /\ NewObject(t).reserved = {} /\ ~NewObject(t).done
  BY DEF NewObject
<1>61. fr.type = t /\ fr.obj = n /\ fr.i = 1 /\ fr.open = FALSE
  BY <1>b
<1>7. \A k \in 1..Len(stack) : stack[k] \in Frame /\ stack[k].obj \in Objects /\ stack[k].type \in Structs
  <2>1. \A k \in 1..Len(stack) : stack[k] \in Frame /\ stack[k].obj \in Objects
    BY <1>0, StackObjects
  <2>2. \A k \in 1..Len(stack) : stack[k].type \in Structs
    BY <1>0 DEF FramesInv, FrameOk
  <2> QED
    BY <2>1, <2>2
<1>71. \A k \in 1..Len(stack') : k \in 1..Len(stack) \/ k = s
  BY <1>2, <1>a
<1>8. TimeType \in Structs /\ CachedDone(TimeType) /\ t # TimeType
  BY <1>0, TypesAssumption DEF CacheInv, CachedDone
<1>10. CacheInv'
  <2>1. CachedDone(TimeType)'
    BY <1>8, DoneKept
  <2>2. ASSUME NEW u \in Types, Cached(u)' PROVE u \in Structs /\ objs'[propertiesMap'[u]].type = u
    <3>1. CASE u = t
      BY <1>2, <1>3, <1>6, <3>1
    <3>2. CASE u # t
      <4>1. Cached(u) /\ propertiesMap'[u] = propertiesMap[u] /\ propertiesMap[u] \in Objects
        BY <1>5, <2>2, <3>2
      <4>2. u \in Structs /\ objs[propertiesMap[u]].type = u
        BY <1>0, <4>1 DEF CacheInv
      <4> QED
        BY <1>2, <4>1, <4>2
    <3> QED
      BY <3>1, <3>2
  <2> QED
    BY <2>1, <2>2 DEF CacheInv
<1>11. DoneInv'
  <2>1. ASSUME NEW u \in Structs, CachedDone(u)' PROVE CachedDone(u)
    <3>1. Cached(u)' /\ objs'[propertiesMap'[u]].done
      BY <2>1 DEF CachedDone
    <3>2. u # t
      BY <1>2, <1>3, <1>6, <3>1
    <3> QED
      BY <1>1, <1>2, <1>5, <3>1, <3>2 DEF CachedDone
  <2> QED
    BY <1>0, <2>1, DoneInvStep
<1>12. RisingInv'
  <2>1. ASSUME NEW k \in 1..Len(stack'), NEW j \in 1..(k - 1) PROVE stack'[j].obj < stack'[k].obj
    <3>1. j \in 1..Len(stack)
      BY <1>2, <1>a
    <3>2. CASE k \in 1..Len(stack)
      BY <1>0, <1>2, <3>1, <3>2 DEF RisingInv
    <3>3. CASE k = s
      BY <1>2, <1>21, <1>61, <1>7, <3>1, <3>3
    <3> QED
      BY <1>71, <3>2, <3>3
  <2> QED
    BY <2>1 DEF RisingInv
<1>13. FramesInv'
  <2>1. FrameOk(fr)'
    <3>1. objs'[n].props = <<>> /\ objs'[n].reserved = {}
      BY <1>2, <1>6
    <3>2. Found(fr.type, fr.i)' = {} /\ FoundReserved(fr.type, fr.i)' = {}
      BY <1>61 DEF Found, FoundReserved
    <3>3. ShowsIn(objs', <<>>, {})
      BY DEF ShowsIn
    <3>4. Len(decl[t]) \in Nat /\ decl' = decl
      BY <1>0, Static DEF TypeOK
    <3>5. fr.type \in Structs /\ fr.type # TimeType /\ fr.i <= Len(decl'[fr.type]) + 1 /\ ~fr.open
      BY <1>61, <1>8, <3>4
    <3>6. \A j \in 1..(fr.i - 1) : FALSE
      BY <1>61
    <3>7. ShowsIn(objs', objs'[fr.obj].props, Found(fr.type, fr.i)') /\ objs'[fr.obj].reserved = FoundReserved(fr.type, fr.i)'
      BY <1>61, <3>1, <3>2, <3>3
    <3> QED
      BY <3>5, <3>6, <3>7 DEF FrameOk
  <2>2. ASSUME NEW k \in 1..Len(stack'), NEW g \in {stack'[k]} PROVE FrameOk(g)'
    <3>1. CASE k \in 1..Len(stack)
      <4>1. g = stack[k] /\ g \in Frame /\ objs'[g.obj] = objs[g.obj]
        BY <1>2, <1>7, <2>2, <3>1
      <4>2. FrameOk(g)
        BY <1>0, <3>1, <4>1 DEF FramesInv
      <4> QED
        BY <4>1, <4>2, FrameKept
    <3>2. CASE k = s
      BY <1>2, <2>1, <2>2, <3>2
    <3> QED
      BY <1>71, <3>1, <3>2
  <2> QED
    BY <2>2 DEF FramesInv
<1>14. ChainInv'
  <2>1. ASSUME NEW k \in 1..(Len(stack') - 1), NEW g \in {stack'[k]}, NEW u \in {stack'[k + 1].type} PROVE Waits(g, u)'
    <3>1. k \in 1..Len(stack) /\ (k = Len(stack) \/ k \in 1..(Len(stack) - 1))
      BY <1>2, <1>a
    <3>2. g = stack[k] /\ objs'[g.obj] = objs[g.obj]
      BY <1>2, <1>7, <2>1, <3>1
    <3>3. Waits(g, u)
      <4>1. CASE k = Len(stack)
        <5>1. u = t /\ stack # <<>> /\ g = Top
          BY <1>2, <1>a, <1>61, <2>1, <3>1, <3>2, <4>1 DEF Top
        <5> QED
          BY <5>1 DEF Wanted
      <4>2. CASE k \in 1..(Len(stack) - 1)
        <5>1. u = stack[k + 1].type
          BY <1>2, <2>1, <4>2
        <5> QED
          BY <1>0, <3>2, <4>2, <5>1 DEF ChainInv
      <4> QED
        BY <3>1, <4>1, <4>2
    <3> QED
      BY <3>2, <3>3, WaitsKept
  <2> QED
    BY <2>1 DEF ChainInv
<1>15. RetInv'
  BY DEF RetInv
<1>16. ASSUME NEW u \in Structs, u # t, Cached(u)', NEW q \in Objects', IsPointer(objs'[propertiesMap'[u]].props, q)
       PROVE  q \in Objects /\ IsPointer(objs[propertiesMap[u]].props, q)
  <2>1. Cached(u) /\ propertiesMap'[u] = propertiesMap[u] /\ propertiesMap[u] \in Objects
    BY <1>1, <1>5, <1>16
  <2>2. IsPointer(objs[propertiesMap[u]].props, q)
    BY <1>2, <1>16, <2>1
  <2>3. q \in Objects
    BY <1>0, <2>1, <2>2, EntriesOf DEF IsPointer
  <2> QED
    BY <2>2, <2>3
<1>17. \A q : ~IsPointer(objs'[n].props, q)
  BY <1>2, <1>6 DEF IsPointer
<1>18. CurrentInv'
  <2>1. ASSUME NEW u \in Structs, Cached(u)', NEW q \in Objects', IsPointer(objs'[propertiesMap'[u]].props, q)
        PROVE  propertiesMap'[objs'[q].type] = q
    <3>1. u # t
      BY <1>3, <1>17, <2>1
    <3>2. Cached(u) /\ q \in Objects /\ IsPointer(objs[propertiesMap[u]].props, q)
      BY <1>1, <1>5, <1>16, <2>1, <3>1
    <3>3. propertiesMap[objs[q].type] = q /\ objs'[q] = objs[q] /\ objs[q].type \in Types
      BY <1>0, <1>2, <3>2, EntriesOf DEF CurrentInv, Object
    <3>4. objs[q].type # t
      BY <3>2, <3>3 DEF Cached, Objects, Nil
    <3> QED
      BY <1>3, <3>3, <3>4
  <2> QED
    BY <2>1 DEF CurrentInv, IsPointer
<1>19. OlderInv'
  <2>1. ASSUME NEW k \in 1..Len(stack'), NEW u \in Structs, Cached(u)', propertiesMap'[u] < stack'[k].obj,
               NEW q \in Objects', IsPointer(objs'[propertiesMap'[u]].props, q)
        PROVE  q < stack'[k].obj
    <3>1. u # t
      BY <1>3, <1>17, <2>1
    <3>2. Cached(u) /\ q \in Objects /\ IsPointer(objs[propertiesMap[u]].props, q) /\ propertiesMap'[u] = propertiesMap[u]
      BY <1>1, <1>5, <1>16, <2>1, <3>1
    <3>3. CASE k = s
      BY <1>2, <1>21, <1>61, <3>2, <3>3
    <3>4. CASE k \in 1..Len(stack)
      BY <1>0, <1>2, <2>1, <3>2, <3>4 DEF OlderInv
    <3> QED
      BY <1>71, <3>3, <3>4
  <2> QED
    BY <2>1 DEF OlderInv, IsPointer
<1>20. \A k \in 1..Len(stack) : \A v \in {stack[k].type} : t \in Oracle!Reach(v)
  <2>1. ASSUME stack # <<>> PROVE t \in Oracle!Mentions(Top.type) /\ Len(stack) \in 1..Len(stack) /\ Top = stack[Len(stack)]
    <3>1. Len(stack) \in 1..Len(stack) /\ Top = stack[Len(stack)]
      BY <1>0, <2>1, StackObjects
    <3>2. Top \in Frame /\ FrameOk(Top) /\ Waits(Top, t)
      BY <1>0, <1>7, <2>1, <3>1 DEF Wanted, FramesInv
    <3> QED
      BY <1>0, <3>1, <3>2, WaitsMentions
  <2>2. ASSUME NEW k \in 1..Len(stack), NEW v \in {stack[k].type} PROVE t \in Oracle!Reach(v)
    <3>1. stack # <<>>
      BY <1>2
    <3>2. PICK w \in Structs : w = Top.type
      BY <1>7, <2>1, <3>1
    <3>3. v \in Structs
      BY <1>7, <2>2
    <3>4. w \in Oracle!Reach(v)
      <4>1. Cached(w) /\ propertiesMap[w] = Top.obj
        BY <1>0, <1>1, <2>1, <3>1, <3>2, <1>7 DEF StackInv, Cached, Objects, Nil
      <4>2. propertiesMap[w] >= stack[k].obj
        BY <1>0, <4>1, TopIsNewest
      <4> QED
        BY <1>0, <2>2, <4>1, <4>2 DEF NewerInv
    <3>5. t \in Oracle!Mentions(w)
      BY <2>1, <3>1, <3>2
    <3> QED
      BY <3>3, <3>4, <3>5, ReachFacts
  <2> QED
    BY <2>2
<1>22. NewerInv'
  <2>1. ASSUME NEW k \in 1..Len(stack'), NEW u \in Structs, Cached(u)', propertiesMap'[u] >= stack'[k].obj,
               NEW v \in {stack'[k].type}
        PROVE  u \in Oracle!Reach(v)'
    <3>1. CASE k = s
      <4>1. v = t /\ stack'[k].obj = n
        BY <1>2, <1>61, <2>1, <3>1
      <4>2. u = t
        BY <1>1, <1>5, <1>21, <2>1, <4>1, <1>2, <1>a DEF Objects
      <4> QED
        BY <4>1, <4>2, ReachFacts, Static
    <3>2. CASE k \in 1..Len(stack)
      <4>1. v = stack[k].type /\ stack'[k] = stack[k]
        BY <1>2, <2>1, <3>2
      <4>2. CASE u = t
        BY <1>20, <3>2, <4>1, <4>2, Static
      <4>3. CASE u # t
        <5>1. u \in Oracle!Reach(v)
          BY <1>0, <1>1, <1>5, <2>1, <3>2, <4>1, <4>3 DEF NewerInv
        <5> QED
          BY <5>1, Static
      <4> QED
        BY <4>2, <4>3
    <3> QED
      BY <1>71, <3>1, <3>2
  <2> QED
    BY <2>1 DEF NewerInv
<1> QED
  BY <1>10, <1>11, <1>12, <1>13, <1>14, <1>15, <1>18, <1>19, <1>22 DEF BuildInv

-----------------------------------------------------------------------------
(* The fields found so far *)

\* the leaves a field contributes begin at that field
LEMMA LeavesOfField ==
  ASSUME ProgramInOrder, NEW t \in Structs, NEW i \in 1..Len(decl[t]), NEW e \in FieldLeaves(t, i)
  PROVE  e \in Leaf /\ e.offset[1] = i
<1>1. i \in Nat /\ decl[t][i] \in FieldDecl
  BY DeclFacts
<1>2. CASE decl[t][i].kind = "field"
  <2>1. e = Oracle!OwnLeaf(t, i)
    BY <1>2 DEF FieldLeaves
  <2>2. e = [tag |-> decl[t][i].tag, offset |-> <<i>>, to |-> decl[t][i].to]
    BY <2>1 DEF Oracle!OwnLeaf
  <2>3. decl[t][i].tag \in Nat /\ decl[t][i].to \in Seq(Structs) /\ <<i>> \in Seq(Nat)
    <3>1. decl[t][i].to \in Seq(Structs)
      BY DeclFacts
    <3>2. decl[t][i].tag \in Nat
      BY <1>1 DEF FieldDecl
    <3> QED
      BY <1>1, <3>1, <3>2
  <2> QED
    BY <2>2, <2>3 DEF Leaf
<1>3. CASE decl[t][i].kind # "field"
  <2>1. decl[t][i].kind = "embedded" /\ e \in Moved(i, Oracle!Leaves(decl[t][i].to[1]))
    BY <1>3 DEF FieldLeaves
  <2>2. decl[t][i].to[1] \in Structs
    BY <2>1, DeclFacts
  <2>3. Oracle!Leaves(decl[t][i].to[1]) \subseteq Leaf
    BY <2>2, LeavesAre
  <2>4. PICK x \in Leaf : e = [x EXCEPT !.offset = <<i>> \o @]
    BY <2>1, <2>3 DEF Moved
  <2>5. x.offset \in Seq(Nat) /\ <<i>> \in Seq(Nat) /\ x.tag \in Nat /\ x.to \in Seq(Structs)
    BY <1>1, <2>4 DEF Leaf
  <2>6. <<i>> \o x.offset \in Seq(Nat) /\ (<<i>> \o x.offset)[1] = i
    BY <1>1, <2>5
  <2>7. e = [tag |-> x.tag, offset |-> <<i>> \o x.offset, to |-> x.to]
    BY <2>4 DEF Leaf
  <2> QED
    BY <2>5, <2>6, <2>7 DEF Leaf
<1> QED
  BY <1>2, <1>3

LEMMA FoundNext ==
  ASSUME ProgramInOrder, NEW t \in Structs, NEW i \in 1..Len(decl[t])
  PROVE  /\ Found(t, i) \subseteq Leaf /\ FieldLeaves(t, i) \subseteq Leaf
         /\ Found(t, i) \cap FieldLeaves(t, i) = {}
         /\ Found(t, i + 1) = Found(t, i) \cup FieldLeaves(t, i)
         /\ FoundReserved(t, i + 1) = FoundReserved(t, i) \cup (IF decl[t][i].kind = "reserved" THEN decl[t][i].ids ELSE {})
<1>1. i \in Nat /\ 1..((i + 1) - 1) = (1..(i - 1)) \cup {i} /\ \A j \in 1..(i - 1) : j \in 1..Len(decl[t]) /\ j # i
  <2>1. Len(decl[t]) \in Nat
    BY DeclFacts
  <2> QED
    BY <2>1
<1>2. \A j \in 1..i : \A e \in FieldLeaves(t, j) : e \in Leaf /\ e.offset[1] = j
  <2>1. \A j \in 1..i : j \in 1..Len(decl[t])
    BY <1>1
  <2> QED
    BY <2>1, LeavesOfField
<1>3. Found(t, i + 1) = Found(t, i) \cup FieldLeaves(t, i)
  BY <1>1 DEF Found
<1>4. Found(t, i) \subseteq Leaf /\ FieldLeaves(t, i) \subseteq Leaf
  BY <1>1, <1>2 DEF Found
<1>5. Found(t, i) \cap FieldLeaves(t, i) = {}
  <2>1. ASSUME NEW e \in Found(t, i), e \in FieldLeaves(t, i) PROVE FALSE
    <3>1. PICK j \in 1..(i - 1) : e \in FieldLeaves(t, j)
      BY DEF Found
    <3>2. e.offset[1] = j /\ e.offset[1] = i /\ j # i
      BY <1>1, <1>2, <2>1, <3>1
    <3> QED
      BY <3>2
  <2> QED
    BY <2>1
<1>6. FoundReserved(t, i + 1) = FoundReserved(t, i) \cup (IF decl[t][i].kind = "reserved" THEN decl[t][i].ids ELSE {})
  <2> DEFINE A == {k \in 1..(i - 1) : decl[t][k].kind = "reserved"}
             B == {k \in 1..((i + 1) - 1) : decl[t][k].kind = "reserved"}
  <2>1. B = A \cup (IF decl[t][i].kind = "reserved" THEN {i} ELSE {})
    BY <1>1
  <2>2. FoundReserved(t, i) = UNION {decl[t][j].ids : j \in A} /\ FoundReserved(t, i + 1) = UNION {decl[t][j].ids : j \in B}
    BY DEF FoundReserved
  <2> HIDE DEF A, B
  <2> QED
    BY <2>1, <2>2
<1> QED
  BY <1>3, <1>4, <1>5, <1>6

LEMMA FoundAll ==
  ASSUME ProgramInOrder, NEW t \in Structs, t # TimeType
  PROVE  /\ Found(t, Len(decl[t]) + 1) = Oracle!Leaves(t)
         /\ FoundReserved(t, Len(decl[t]) + 1) = Oracle!ReservedBy(t)
<1>1. Len(decl[t]) \in Nat
  BY GraphsAssumption DEF ProgramInOrder
<1>2. (Len(decl[t]) + 1) - 1 = Len(decl[t])
  BY <1>1
<1>3. Found(t, Len(decl[t]) + 1) = Oracle!Leaves(t)
  BY <1>2, LeavesAre DEF Found
<1> QED
  BY <1>2, <1>3 DEF FoundReserved, Oracle!ReservedBy, Oracle!At

-----------------------------------------------------------------------------
(* The innermost activation *)

All == IInv /\ CompleteInv /\ ProgramInOrder /\ BuildInv

LEMMA TopFacts ==
  ASSUME All, stack # <<>>
  PROVE  /\ TypeOK
         /\ Top \in Frame /\ FrameOk(Top)
         /\ Top.type \in Structs /\ Top.type \in Types /\ Top.type # TimeType
         /\ Top.obj \in Objects /\ objs[Top.obj] \in Object /\ Props \in Seq(Entry) /\ Props = objs[Top.obj].props
         /\ propertiesMap[Top.type] = Top.obj /\ ~objs[Top.obj].done /\ objs[Top.obj].type = Top.type
         /\ Cached(Top.type)
         /\ Top.i \in Nat \ {0} /\ Len(decl[Top.type]) \in Nat
         /\ Top.i <= Len(decl[Top.type]) + 1
         /\ \A k, b : AtField(k, b) => Top.i \in 1..Len(decl[Top.type]) /\ Top.open = b
                                       /\ Cur.kind = k /\ Cur = decl[Top.type][Top.i]
<1>1. TypeOK /\ StackInv /\ FramesInv
  BY DEF All, IInv, BuildInv
<1>2. /\ Len(stack) \in 1..Len(stack) /\ Top = stack[Len(stack)]
      /\ Top \in Frame /\ Top.obj \in Objects /\ objs[Top.obj] \in Object /\ Props \in Seq(Entry)
  BY <1>1, TopInStack DEF Top
<1>3. FrameOk(Top)
  BY <1>1, <1>2 DEF FramesInv
<1>4. /\ Top.type \in Structs /\ Top.type # TimeType /\ Top.type \in Types
      /\ Top.i <= Len(decl[Top.type]) + 1
  BY <1>3 DEF FrameOk, Types
<1>5. Top.i \in Nat \ {0} /\ Len(decl[Top.type]) \in Nat
  BY <1>1, <1>2, <1>4 DEF Frame, TypeOK
<1>6. propertiesMap[Top.type] = Top.obj /\ ~objs[Top.obj].done /\ objs[Top.obj].type = Top.type
  BY <1>1, <1>2 DEF StackInv
<1>7. Cached(Top.type)
  BY <1>2, <1>6 DEF Cached, Objects, Nil
<1>8. \A k, b : AtField(k, b) => Top.i \in 1..Len(decl[Top.type]) /\ Top.open = b
                                 /\ Cur.kind = k /\ Cur = decl[Top.type][Top.i]
  BY <1>5 DEF AtField, Cur
<1> QED
  BY <1>1, <1>2, <1>3, <1>4, <1>5, <1>6, <1>7, <1>8 DEF Props

LEMMA TopWaits ==
  ASSUME All, stack # <<>>, NEW t, Waits(Top, t)
  PROVE  t \in Structs /\ t \in Oracle!Mentions(Top.type) /\ t \in Oracle!Reach(Top.type)
<1>1. TypeOK /\ Top \in Frame /\ FrameOk(Top) /\ ProgramInOrder /\ Top.type \in Structs
  BY TopFacts DEF All
<1>2. t \in Structs /\ t \in Oracle!Mentions(Top.type)
  BY <1>1, WaitsMentions
<1> QED
  BY <1>1, <1>2, ReachFacts

\* the next field, when the entries show what was found with this one
LEMMA NextFieldStep ==
  ASSUME All, [Next]_vars, stack # <<>>, Top.i <= Len(decl[Top.type]), Cur.ok,
         Cur.kind = "embedded" => CachedDone(Cur.to[1]),
         NEW ob \in Object, Becomes(ob), ob.done = objs[Top.obj].done,
         ob.reserved = FoundReserved(Top.type, Top.i + 1),
         ShowsIn(objs, ob.props, Found(Top.type, Top.i + 1)),
         NextField, UNCHANGED propertiesMap, ret' = Pending,
         \A q \in Objects : IsPointer(ob.props, q) => propertiesMap[objs[q].type] = q
  PROVE  BuildInv'
<1>1. PICK t \in Structs, i \in 1..Len(decl[Top.type]) : t = Top.type /\ i = Top.i
  BY TopFacts
<1>2. PICK f : f = [type |-> t, obj |-> Top.obj, i |-> i + 1, open |-> FALSE]
  OBVIOUS
<1>3. f \in Frame /\ f.type = Top.type /\ f.obj = Top.obj /\ SetTop(f) /\ f.type = t /\ f.i = i + 1 /\ f.open = FALSE
  <2>1. i + 1 \in Nat \ {0}
    BY <1>1
  <2> QED
    BY <1>1, <1>2, <2>1, TopFacts DEF Frame, NextField, GoField
<1>4. IInv /\ ProgramInOrder /\ BuildInv /\ TypeOK
  BY DEF All, IInv
<1>5. /\ decl' = decl /\ FoundReserved(t, i + 1)' = FoundReserved(t, i + 1) /\ Found(t, i + 1)' = Found(t, i + 1)
  BY Static
<1>6. Len(decl[t]) \in Nat /\ i \in 1..Len(decl[t])
  BY <1>1, TopFacts
<1>7. FrameOk(Top) /\ Top.obj \in Objects /\ objs \in Seq(Object)
  BY <1>4, TopFacts DEF TypeOK
<1>8. objs'[f.obj] = ob
  BY <1>3, <1>7 DEF Becomes, Objects
<1>9. ASSUME NEW j \in 1..((i + 1) - 1)
      PROVE  decl[t][j].ok /\ (decl[t][j].kind = "embedded" => CachedDone(decl[t][j].to[1]) /\ decl[t][j].to[1] \in Structs)
  <2>1. CASE j = i
    BY <1>1, <1>4, <2>1, <1>6, DeclFacts DEF Cur
  <2>2. CASE j # i
    <3>1. j \in 1..(i - 1) /\ j \in 1..Len(decl[t])
      BY <1>6, <2>2
    <3>2. decl[t][j].kind = "embedded" => decl[t][j].to[1] \in Structs
      BY <1>4, <3>1, DeclFacts
    <3> QED
      BY <1>1, <1>7, <3>1, <3>2 DEF FrameOk
  <2> QED
    BY <2>1, <2>2
<1>10. ASSUME NEW u \in Structs, CachedDone(u) PROVE CachedDone(u)'
  BY <1>4, <1>10, DoneKept
<1>11. ASSUME NEW j \in 1..((i + 1) - 1), decl[t][j].kind = "embedded" PROVE CachedDone(decl[t][j].to[1])'
  <2>1. PICK u \in Structs : u = decl[t][j].to[1]
    BY <1>9, <1>11
  <2>2. CachedDone(u)
    BY <1>9, <1>11, <2>1 DEF CachedDone, Cached
  <2>3. CachedDone(u)'
    BY <1>10, <2>2
  <2> QED
    BY <1>5, <2>1, <2>3 DEF CachedDone, Cached
<1>12. ShowsIn(objs', ob.props, Found(t, i + 1))
  <2>1. \A k \in 1..Len(ob.props) : \A j \in 1..Len(ob.props[k].sprop) : ob.props[k].sprop[j] \in Objects
    <3>1. ob.props \in Seq(Entry)
      BY DEF Object
    <3>2. \A k \in 1..Len(ob.props) : ob.props[k] \in Entry
      BY <3>1
    <3>3. \A k \in 1..Len(ob.props) : ob.props[k].sprop \in Seq(Objects)
      BY <3>2 DEF Entry
    <3> QED
      BY <3>3
  <2>2. \A o \in Objects : objs'[o].type = objs[o].type
    BY <1>4, TypesKept
  <2>3. ShowsIn(objs, ob.props, Found(t, i + 1))
    BY <1>1
  <2> QED
    BY <2>1, <2>2, <2>3, ShowsInKept
<1>13. FrameOk(f)'
  <2>1. f.type \in Structs /\ f.type # TimeType /\ f.i <= Len(decl'[f.type]) + 1 /\ ~f.open
    BY <1>1, <1>3, <1>5, <1>6, TopFacts
  <2>2. \A j \in 1..(f.i - 1) : decl'[f.type][j].ok
    BY <1>3, <1>5, <1>9
  <2>3. \A j \in 1..(f.i - 1) : decl'[f.type][j].kind = "embedded" => CachedDone(decl[f.type][j].to[1])'
    BY <1>3, <1>5, <1>11 DEF CachedDone, Cached
  <2>4. Found(f.type, f.i)' = Found(t, i + 1) /\ FoundReserved(f.type, f.i)' = FoundReserved(t, i + 1)
    BY <1>3, Static
  <2>5. objs'[f.obj].reserved = FoundReserved(f.type, f.i)' /\ ShowsIn(objs', objs'[f.obj].props, Found(f.type, f.i)')
    BY <1>1, <1>8, <1>12, <2>4
  <2> QED
    BY <2>1, <2>2, <2>3, <2>5 DEF FrameOk
<1> QED
  BY <1>3, <1>4, <1>13, WorkStep

-----------------------------------------------------------------------------
(* Every step of getPropertiesLocked keeps the invariant *)

LEMMA EnteringWanted ==
  ASSUME All, NEW p \in Procs, Building(p), NEW t \in Types, Entering(t)
  PROVE  Wanted(t) /\ t \in Structs
<1>0. TypeOK /\ LockInv /\ muWriter = p
  BY DEF All, IInv, LockInv, Building
<1>1. CASE stack = <<>>
  <2>1. t = arg[muWriter]
    BY <1>1 DEF Entering, AtField
  <2> QED
    BY <1>0, <1>1, <2>1 DEF Wanted, TypeOK
<1>2. CASE stack # <<>>
  <2>1. Waits(Top, t)
    <3>1. CASE AtField("embedded", FALSE) /\ t = Cur.to[1]
      BY <3>1 DEF AtField, Waits, Needs, Cur
    <3>2. CASE AtField("field", TRUE) /\ Len(Resolved) < Len(Cur.to) /\ t = Cur.to[Len(Resolved) + 1]
      BY <3>2 DEF AtField, Waits, Needs, Cur, Resolved, LastProp, Props, Latest
    <3> QED
      BY <1>2, <3>1, <3>2 DEF Entering
  <2> QED
    BY <1>2, <2>1, TopWaits DEF Wanted
<1> QED
  BY <1>1, <1>2

LEMMA EnterCachedStep ==
  ASSUME All, [Next]_vars, NEW p \in Procs, EnterCached(p)
  PROVE  BuildInv'
<1>1. PICK t \in Types : Entering(t) /\ Cached(t) /\ ret' = Answer(propertiesMap[t])
  BY DEF EnterCached
<1>2. Building(p) /\ UNCHANGED <<propertiesMap, objs, stack, arg, muWriter>>
  BY DEF EnterCached, UNCHANGED_Callers
<1>3. Wanted(t) /\ t \in Structs
  BY <1>1, <1>2, EnteringWanted
<1> QED
  BY <1>1, <1>2, <1>3, HitStep DEF All

LEMMA EnterNewStep ==
  ASSUME All, [Next]_vars, NEW p \in Procs, EnterNew(p)
  PROVE  BuildInv'
<1>1. PICK t \in Types :
        /\ Entering(t)
        /\ ~Cached(t)
        /\ objs' = Append(objs, NewObject(t))
        /\ propertiesMap' = [propertiesMap EXCEPT ![t] = Len(objs) + 1]
        /\ stack' = Append(stack, [type |-> t, obj |-> Len(objs) + 1, i |-> 1, open |-> FALSE])
  BY DEF EnterNew
<1>2. Building(p) /\ UNCHANGED <<ret, arg, muWriter>>
  BY DEF EnterNew, UNCHANGED_Callers
<1>3. Wanted(t) /\ t \in Structs /\ ret' = Pending
  BY <1>1, <1>2, EnteringWanted DEF Entering
<1> QED
  BY <1>1, <1>2, <1>3, PushStep DEF All

\* with an answer, the type that was wanted is in the map or has an error
LEMMA Answered ==
  ASSUME All, stack # <<>>, ret # Pending
  PROVE  \E t \in Structs : /\ Waits(Top, t)
                            /\ t \in Oracle!Reach(Top.type)
                            /\ ret = Error => ~Oracle!Valid(t)
                            /\ ret # Error => Cached(t) /\ ret = Answer(propertiesMap[t]) /\ ret.obj = propertiesMap[t]
                                              /\ ret.obj \in Objects
<1>1. TypeOK /\ RetInv
  BY DEF All, IInv, BuildInv
<1>2. PICK t \in Structs : /\ Wanted(t)
                           /\ \/ ret = Error /\ ~Oracle!Valid(t)
                              \/ Cached(t) /\ ret = Answer(propertiesMap[t])
  BY <1>1 DEF RetInv
<1>3. Waits(Top, t)
  BY <1>2 DEF Wanted
<1>4. Cached(t) => propertiesMap[t] \in Objects /\ propertiesMap[t] # Nil
  BY <1>1 DEF Cached, TypeOK, Types
<1>5. Cached(t) /\ ret = Answer(propertiesMap[t]) => ret # Error /\ ret.obj = propertiesMap[t]
  BY <1>4, AnswersAreAnswers DEF Error
<1> QED
  BY <1>2, <1>3, <1>4, <1>5, TopWaits

\* an error return of a type that has an error
LEMMA ForgetStep ==
  ASSUME All, [Next]_vars, NEW p \in Procs, Building(p), stack # <<>>,
         NEW ob \in Object, Becomes(ob), ob.done = objs[Top.obj].done, FailAndForget, UNCHANGED <<arg, muWriter>>,
         ~Oracle!Valid(Top.type)
  PROVE  BuildInv'
<1>0. /\ IInv /\ ProgramInOrder /\ BuildInv /\ TypeOK /\ StackInv /\ IncompleteOnStack /\ CompleteInv
      /\ CacheInv /\ DoneInv /\ RisingInv /\ OlderInv /\ NewerInv /\ CurrentInv
  BY DEF All, IInv, CompleteInv, BuildInv
<1>1. PICK t \in Structs : t = Top.type
  BY TopFacts
<1>2. /\ propertiesMap[t] = Top.obj /\ Cached(t) /\ t \in Types /\ ~objs[Top.obj].done
      /\ Top.obj \in Objects
  BY <1>1, TopFacts
<1>3. propertiesMap' = [propertiesMap EXCEPT ![t] = Nil] /\ Pop /\ ret' = Error
  BY <1>1 DEF FailAndForget
<1>4. propertiesMap'[t] = Nil /\ \A u \in Types : u # t => propertiesMap'[u] = propertiesMap[u]
  BY <1>0, <1>2, <1>3 DEF TypeOK
<1>5. \A o \in Objects : o # Top.obj => objs'[o] = objs[o]
  BY <1>0, BecomesFacts
<1>6. \A u \in Structs : u \in Types
  BY DEF Types
<1>7. ASSUME NEW u \in Structs, CachedDone(u)' PROVE CachedDone(u)
  <2>1. Cached(u)' /\ objs'[propertiesMap'[u]].done
    BY <1>7 DEF CachedDone
  <2>2. u # t /\ Cached(u) /\ propertiesMap'[u] = propertiesMap[u] /\ propertiesMap[u] \in Objects
    BY <1>0, <1>4, <1>6, <2>1 DEF Cached, TypeOK
  <2>3. propertiesMap[u] # Top.obj
    BY <1>0, <1>2, <1>6, <2>2 DEF CacheInv
  <2> QED
    BY <1>5, <2>1, <2>2, <2>3 DEF CachedDone
<1>8. ASSUME NEW u \in Structs, Cached(u), u # t, NEW q \in Objects, IsPointer(objs[propertiesMap[u]].props, q),
             objs[q].type = t
      PROVE  FALSE
  <2>1. q = Top.obj
    BY <1>0, <1>2, <1>8 DEF CurrentInv
  <2>2. propertiesMap[u] \in Objects /\ propertiesMap[u] # Top.obj
    <3>1. propertiesMap[u] \in Objects
      BY <1>0, <1>6, <1>8 DEF TypeOK, Cached
    <3>2. objs[propertiesMap[u]].type = u /\ objs[propertiesMap[t]].type = t
      BY <1>0, <1>2, <1>6, <1>8 DEF CacheInv
    <3> QED
      BY <1>2, <1>8, <3>1, <3>2
  <2>3. Len(stack) \in 1..Len(stack) /\ Top = stack[Len(stack)]
    BY <1>0, StackObjects
  <2>4. ~(propertiesMap[u] < Top.obj)
    <3>1. ASSUME propertiesMap[u] < Top.obj PROVE FALSE
      <4>1. q < Top.obj
        BY <1>0, <1>8, <2>3, <3>1 DEF OlderInv
      <4> QED
        BY <2>1, <4>1, <1>2 DEF Objects
    <3> QED
      BY <3>1
  <2>5. propertiesMap[u] > Top.obj
    BY <1>2, <2>2, <2>4 DEF Objects
  <2>6. u \in Oracle!Reach(t)
    BY <1>0, <1>1, <1>2, <1>8, <2>2, <2>3, <2>5 DEF NewerInv, Objects
  <2>7. CachedDone(u)
    <3>1. ASSUME NEW k \in 1..Len(stack), stack[k].type = u PROVE FALSE
      <4>1. stack[k].obj = propertiesMap[u] /\ stack[k].obj <= Top.obj
        BY <1>0, <3>1, TopIsNewest DEF StackInv
      <4> QED
        BY <1>2, <2>2, <2>5, <4>1 DEF Objects
    <3> QED
      BY <1>0, <1>6, <1>8, <3>1 DEF IncompleteOnStack, CachedDone
  <2>8. ShowsIn(objs, objs[propertiesMap[u]].props, Oracle!Leaves(u))
    BY <1>0, <2>7 DEF DoneInv, Described
  <2>9. t \in Oracle!PointsTo(u)
    <3>1. PICK k \in 1..Len(objs[propertiesMap[u]].props) :
            \E j \in 1..Len(objs[propertiesMap[u]].props[k].sprop) : q = objs[propertiesMap[u]].props[k].sprop[j]
      BY <1>8 DEF IsPointer
    <3>2. PICK e : e = objs[propertiesMap[u]].props[k]
      OBVIOUS
    <3>3. PICK j \in 1..Len(e.sprop) : q = e.sprop[j]
      BY <3>1, <3>2
    <3>4. SeenEntry(e) \in Oracle!Leaves(u)
      BY <2>8, <3>2 DEF ShowsIn, SeenIn, SeenEntry
    <3>5. SeenEntry(e) \in Leaf
      BY <1>0, <3>4, LeavesAre
    <3>6. SeenEntry(e).to = [n \in 1..Len(e.sprop) |-> objs[e.sprop[n]].type]
      BY <3>5, SeenLeaf
    <3>7. e.sprop \in Seq(Objects)
      <4>1. e \in Entry
        BY <1>0, <2>2, <3>2, EntriesOf
      <4> QED
        BY <4>1 DEF Entry
    <3>8. SeenEntry(e).to[j] = t /\ j \in 1..Len(SeenEntry(e).to)
      BY <1>8, <3>3, <3>6, <3>7
    <3> QED
      BY <3>4, <3>8 DEF Oracle!PointsTo
  <2>10. t \in Oracle!Reach(u)
    BY <1>0, <2>9, PointersReach
  <2>11. Oracle!Valid(t)
    BY <1>0, <1>8, <2>6, <2>10, CyclesAreInOrder
  <2> QED
    BY <1>1, <2>11
<1>9. pc[p] = "build"
  BY DEF Building
<1> QED
  BY <1>0, <1>1, <1>3, <1>4, <1>7, <1>8, <1>9, PopStep

LEMMA BrokenInvalid ==
  ASSUME ProgramInOrder, NEW t \in Structs, Oracle!Broken(t)
  PROVE  ~Oracle!Valid(t)
BY ValidFacts

\* a type that needs one with an error has an error
LEMMA NeededFails ==
  ASSUME All, stack # <<>>, ret = Error
  PROVE  ~Oracle!Valid(Top.type)
<1>1. ret # Pending
  BY AnswersAreAnswers DEF Error
<1>2. PICK t \in Structs : t \in Oracle!Reach(Top.type) /\ ~Oracle!Valid(t)
  BY <1>1, Answered
<1>3. PICK u \in Structs : u = Top.type
  BY TopFacts
<1>4. Oracle!Valid(u) => Oracle!Valid(t)
  BY <1>2, <1>3, ValidFacts DEF All
<1> QED
  BY <1>2, <1>3, <1>4

LEMMA NeededFailsStep ==
  ASSUME All, [Next]_vars, NEW p \in Procs, EmbeddedFails(p) \/ ResolveFails(p)
  PROVE  BuildInv'
<1>1. Building(p) /\ stack # <<>> /\ ret = Error /\ FailAndForget /\ UNCHANGED <<objs, arg, muWriter>>
  BY DEF EmbeddedFails, ResolveFails, AtField, UNCHANGED_Callers
<1>2. TypeOK
  BY DEF All, IInv
<1>3. ~Oracle!Valid(Top.type)
  BY <1>1, NeededFails
<1> QED
  BY <1>1, <1>2, <1>3, UnchangedObjsFacts, ForgetStep

LEMMA InitFieldFailsStep ==
  ASSUME All, [Next]_vars, NEW p \in Procs, InitFieldFails(p)
  PROVE  BuildInv'
<1>1. Building(p) /\ stack # <<>> /\ AtField("field", TRUE) /\ ~Cur.ok /\ FailAndForget /\ UNCHANGED <<objs, arg, muWriter>>
  BY DEF InitFieldFails, AtField, UNCHANGED_Callers
<1>2. TypeOK /\ ProgramInOrder
  BY DEF All, IInv
<1>3. PICK t \in Structs : t = Top.type /\ t # TimeType /\ \E i \in 1..Len(decl[t]) : ~decl[t][i].ok
  BY <1>1, TopFacts
<1>4. ~Oracle!Valid(t)
  BY <1>2, <1>3, BrokenInvalid DEF Oracle!Broken
<1> QED
  BY <1>1, <1>2, <1>3, <1>4, UnchangedObjsFacts, ForgetStep

\* at the end the entries are the oracle's leaves, and sorted they have bad tags if tags clash
LEMMA EndFacts ==
  ASSUME All, AtEnd, NEW s \in SortedByTag(Props)
  PROVE  /\ s \in Seq(Entry)
         /\ ShowsIn(objs, s, Oracle!Leaves(Top.type))
         /\ objs[Top.obj].reserved = Oracle!ReservedBy(Top.type)
         /\ BadTags(s, objs[Top.obj].reserved) <=> Oracle!TagClash(Top.type)
         /\ ~BadTags(s, objs[Top.obj].reserved) => Ascending(s)
         /\ \A q \in Objects : IsPointer(s, q) => IsPointer(Props, q)
         /\ \A j \in 1..Len(decl[Top.type]) : decl[Top.type][j].ok
         /\ \A j \in 1..Len(decl[Top.type]) : decl[Top.type][j].kind = "embedded" => CachedDone(decl[Top.type][j].to[1])
<1>0. stack # <<>> /\ Top.i > Len(decl[Top.type]) /\ ProgramInOrder
  BY DEF All, AtEnd
<1>1. PICK t \in Structs : t = Top.type /\ t # TimeType
  BY <1>0, TopFacts
<1>2. Len(decl[t]) \in Nat /\ Top.i = Len(decl[t]) + 1 /\ FrameOk(Top)
  BY <1>0, <1>1, TopFacts
<1>3. Found(t, Len(decl[t]) + 1) = Oracle!Leaves(t) /\ FoundReserved(t, Len(decl[t]) + 1) = Oracle!ReservedBy(t)
  BY <1>0, <1>1, FoundAll
<1>4. ~Top.open
  BY <1>1, <1>2 DEF FrameOk
<1>5. ShowsIn(objs, Props, Oracle!Leaves(t)) /\ objs[Top.obj].reserved = Oracle!ReservedBy(t)
  BY <1>1, <1>2, <1>3, <1>4 DEF FrameOk, Props
<1>6. Props \in Seq(Entry)
  BY <1>0, TopFacts
<1>7. PICK ps \in Seq(Entry) : ps = Props
  BY <1>6
<1>8. Shows(ps, Oracle!Leaves(t)) /\ s \in SortedByTag(ps)
  BY <1>5, <1>7, ShowsInIs
<1>9. /\ s \in Seq(Entry) /\ Shows(s, Oracle!Leaves(t))
      /\ \A j \in 1..Len(s) : \A i \in 1..j : s[i].tag <= s[j].tag
      /\ \A k \in 1..Len(s) : \E j \in 1..Len(ps) : s[k] = ps[j]
  BY <1>8, ShowsSorted
<1>10. BadTags(s, Oracle!ReservedBy(t)) <=> Oracle!TagClash(t)
  BY <1>0, <1>9, BadTagsClash, LeavesAre
<1>11. ~BadTags(s, Oracle!ReservedBy(t)) => Ascending(s)
  BY <1>9, SortedTags
<1>12. ShowsIn(objs, s, Oracle!Leaves(t))
  BY <1>9, ShowsInIs
<1>13. \A q \in Objects : IsPointer(s, q) => IsPointer(ps, q)
  BY <1>9 DEF IsPointer
<1>14. 1..(Top.i - 1) = 1..Len(decl[t])
  BY <1>2
<1>15. /\ \A j \in 1..Len(decl[t]) : decl[t][j].ok
       /\ \A j \in 1..Len(decl[t]) : decl[t][j].kind = "embedded" => CachedDone(decl[t][j].to[1])
  BY <1>1, <1>2, <1>14 DEF FrameOk
<1> QED
  BY <1>1, <1>5, <1>7, <1>9, <1>10, <1>11, <1>12, <1>13, <1>15

LEMMA FinishFailsStep ==
  ASSUME All, [Next]_vars, NEW p \in Procs, FinishFails(p)
  PROVE  BuildInv'
<1>1. Building(p) /\ stack # <<>> /\ AtEnd /\ FailAndForget /\ UNCHANGED <<arg, muWriter>>
  BY DEF FinishFails, AtEnd, UNCHANGED_Callers
<1>2. PICK s \in SortedByTag(Props) : BadTags(s, objs[Top.obj].reserved) /\ SetProps(s)
  BY DEF FinishFails, SetProps
<1>3. TypeOK /\ ProgramInOrder
  BY DEF All, IInv
<1>4. s \in Seq(Entry) /\ Oracle!TagClash(Top.type)
  BY <1>1, <1>2, EndFacts
<1>5. PICK t \in Structs : t = Top.type /\ t # TimeType
  BY <1>1, TopFacts
<1>6. ~Oracle!Valid(t)
  BY <1>3, <1>4, <1>5, BrokenInvalid DEF Oracle!Broken
<1>7. PICK ob \in Object : Becomes(ob) /\ ob.done = objs[Top.obj].done
  BY <1>1, <1>2, <1>3, <1>4, SetPropsFacts
<1> QED
  BY <1>1, <1>5, <1>6, <1>7, ForgetStep

LEMMA FinishStep ==
  ASSUME All, [Next]_vars, NEW p \in Procs, Finish(p)
  PROVE  BuildInv'
<1>1. Building(p) /\ pc[p] = "build" /\ stack # <<>> /\ AtEnd /\ Pop /\ ret' = Answer(Top.obj)
      /\ UNCHANGED <<propertiesMap, arg, muWriter>>
  BY DEF Finish, AtEnd, UNCHANGED_Callers, Building
<1>2. PICK s \in SortedByTag(Props) :
        /\ ~BadTags(s, objs[Top.obj].reserved)
        /\ objs' = [objs EXCEPT ![Top.obj].props = s, ![Top.obj].done = TRUE]
  BY DEF Finish
<1>3. TypeOK /\ ProgramInOrder /\ IInv /\ BuildInv /\ CacheInv
  BY DEF All, IInv, BuildInv
<1>4. PICK t \in Structs : t = Top.type /\ t # TimeType /\ propertiesMap[t] = Top.obj /\ Top.obj \in Objects /\ Top.obj # Nil
  BY <1>1, TopFacts DEF Objects, Nil
<1>5. /\ s \in Seq(Entry)
      /\ ShowsIn(objs, s, Oracle!Leaves(t))
      /\ objs[Top.obj].reserved = Oracle!ReservedBy(t)
      /\ ~Oracle!TagClash(t)
      /\ Ascending(s)
      /\ \A q \in Objects : IsPointer(s, q) => IsPointer(Props, q)
      /\ \A j \in 1..Len(decl[t]) : decl[t][j].ok
      /\ \A j \in 1..Len(decl[t]) : decl[t][j].kind = "embedded" => CachedDone(decl[t][j].to[1])
  BY <1>1, <1>2, <1>4, EndFacts
<1>6. PICK ob : ob = [objs[Top.obj] EXCEPT !.props = s, !.done = TRUE]
  OBVIOUS
<1>7. ob \in Object /\ ob.type = objs[Top.obj].type /\ ob.done /\ ob.props = s /\ ob.reserved = objs[Top.obj].reserved
  BY <1>1, <1>5, <1>6, TopFacts DEF Object
<1>8. objs' = [objs EXCEPT ![Top.obj] = ob]
  BY <1>1, <1>2, <1>3, <1>6, TopInStack DEF TypeOK, Object
<1>9. Becomes(ob)
  BY <1>7, <1>8 DEF Becomes
<1>10. \A o \in Objects : objs'[o] = IF o = Top.obj THEN ob ELSE objs[o]
  BY <1>1, <1>3, <1>7, <1>9, BecomesFacts
<1>11. Described(t)'
  <2>1. propertiesMap'[t] = Top.obj /\ objs'[propertiesMap'[t]] = ob
    BY <1>1, <1>4, <1>10
  <2>2. ShowsIn(objs', s, Oracle!Leaves(t))
    <3>1. \A k \in 1..Len(s) : \A j \in 1..Len(s[k].sprop) : s[k].sprop[j] \in Objects
      <4>1. \A k \in 1..Len(s) : s[k] \in Entry
        BY <1>5
      <4>2. \A k \in 1..Len(s) : s[k].sprop \in Seq(Objects)
        BY <4>1 DEF Entry
      <4> QED
        BY <4>2
    <3>2. \A o \in Objects : objs'[o].type = objs[o].type
      BY <1>7, <1>10
    <3> QED
      BY <1>5, <3>1, <3>2, ShowsInKept
  <2>3. ~Oracle!Broken(t)
    BY <1>5 DEF Oracle!Broken
  <2>4. ASSUME NEW i \in Oracle!At(t, "embedded")' PROVE CachedDone(decl[t][i].to[1])'
    <3>1. decl' = decl /\ i \in Oracle!At(t, "embedded")
      BY <2>4, Static
    <3>2. i \in 1..Len(decl[t]) /\ decl[t][i].kind = "embedded"
      BY <3>1 DEF Oracle!At
    <3>3. PICK u \in Structs : u = decl[t][i].to[1]
      BY <1>3, <3>2, DeclFacts
    <3>4. CachedDone(u)
      BY <1>5, <3>2, <3>3 DEF CachedDone, Cached
    <3>5. CachedDone(u)'
      BY <1>3, <3>4, DoneKept
    <3> QED
      BY <3>1, <3>3, <3>5 DEF CachedDone, Cached
  <2> QED
    BY <1>4, <1>5, <1>7, <2>1, <2>2, <2>3, <2>4, Static DEF Described, Ascending
<1>12. ASSUME NEW u \in Structs, CachedDone(u)' PROVE CachedDone(u) \/ Described(u)'
  <2>1. Cached(u) /\ propertiesMap[u] \in Objects /\ objs'[propertiesMap[u]].done
    BY <1>1, <1>3, <1>12 DEF CachedDone, Cached, TypeOK, Types
  <2>2. CASE u = t
    BY <1>11, <2>2
  <2>3. CASE u # t
    <3>1. propertiesMap[u] # Top.obj
      <4>1. u \in Types /\ t \in Types /\ Cached(t)
        BY <1>4 DEF Types, Cached
      <4> QED
        BY <1>3, <1>4, <2>1, <2>3, <4>1 DEF CacheInv
    <3> QED
      BY <1>10, <2>1, <3>1 DEF CachedDone
  <2> QED
    BY <2>2, <2>3
<1>13. \A u \in Types : u # Top.type => propertiesMap'[u] = propertiesMap[u]
  BY <1>1
<1>14. propertiesMap'[Top.type] = Top.obj /\ propertiesMap'[Top.type] # Nil
  BY <1>1, <1>4
<1> QED
  BY <1>1, <1>3, <1>5, <1>7, <1>9, <1>12, <1>13, <1>14, PopStep

\* with nothing wanted, nothing has been answered
LEMMA NothingWanted ==
  ASSUME All, stack # <<>>, \A t : ~Waits(Top, t)
  PROVE  ret = Pending
BY Answered

LEMMA CurrentPointers ==
  ASSUME All, stack # <<>>, NEW q \in Objects, IsPointer(Props, q)
  PROVE  propertiesMap[objs[q].type] = q
<1>1. PICK t \in Structs : t = Top.type /\ Cached(t) /\ propertiesMap[t] = Top.obj /\ Props = objs[Top.obj].props
  BY TopFacts
<1>2. CurrentInv
  BY DEF All, BuildInv
<1> QED
  BY <1>1, <1>2 DEF CurrentInv

\* what an activation that is between fields has
LEMMA ClosedFacts ==
  ASSUME All, NEW k, AtField(k, FALSE)
  PROVE  /\ stack # <<>> /\ ~Top.open /\ ProgramInOrder /\ TypeOK
         /\ Cur.kind = k /\ Cur = decl[Top.type][Top.i]
         /\ Top.type \in Structs /\ Top.i \in 1..Len(decl[Top.type]) /\ Top.i \in Nat /\ Top.i <= Len(decl[Top.type])
         /\ ShowsIn(objs, Props, Found(Top.type, Top.i))
         /\ objs[Top.obj].reserved = FoundReserved(Top.type, Top.i)
         /\ Found(Top.type, Top.i + 1) = Found(Top.type, Top.i) \cup FieldLeaves(Top.type, Top.i)
         /\ Found(Top.type, Top.i) \cap FieldLeaves(Top.type, Top.i) = {}
         /\ FieldLeaves(Top.type, Top.i) \subseteq Leaf
         /\ k = "reserved" => FoundReserved(Top.type, Top.i + 1) = FoundReserved(Top.type, Top.i) \cup Cur.ids
         /\ k # "reserved" => FoundReserved(Top.type, Top.i + 1) = FoundReserved(Top.type, Top.i)
<1>1. stack # <<>> /\ ProgramInOrder
  BY DEF AtField, All
<1>2. /\ Top.type \in Structs /\ FrameOk(Top) /\ Props = objs[Top.obj].props /\ TypeOK
      /\ Top.i \in 1..Len(decl[Top.type]) /\ ~Top.open /\ Cur.kind = k /\ Cur = decl[Top.type][Top.i]
      /\ Len(decl[Top.type]) \in Nat
  BY <1>1, TopFacts
<1>3. PICK t \in Structs : t = Top.type
  BY <1>2
<1>4. PICK i \in 1..Len(decl[t]) : i = Top.i
  BY <1>2, <1>3
<1>5. /\ Found(t, i) \subseteq Leaf /\ FieldLeaves(t, i) \subseteq Leaf
      /\ Found(t, i) \cap FieldLeaves(t, i) = {}
      /\ Found(t, i + 1) = Found(t, i) \cup FieldLeaves(t, i)
      /\ FoundReserved(t, i + 1) = FoundReserved(t, i) \cup (IF decl[t][i].kind = "reserved" THEN decl[t][i].ids ELSE {})
  BY <1>1, FoundNext
<1>6. ShowsIn(objs, Props, Found(t, i)) /\ objs[Top.obj].reserved = FoundReserved(t, i)
  BY <1>2, <1>3, <1>4 DEF FrameOk
<1>7. i \in Nat /\ i <= Len(decl[t])
  BY <1>2, <1>3, <1>4
<1> QED
  BY <1>1, <1>2, <1>3, <1>4, <1>5, <1>6, <1>7

LEMMA ParseReservedStep ==
  ASSUME All, [Next]_vars, NEW p \in Procs, ParseReserved(p)
  PROVE  BuildInv'
<1>1. AtField("reserved", FALSE) /\ Cur.ok /\ NextField /\ UNCHANGED <<propertiesMap, ret>>
      /\ SetReserved(objs[Top.obj].reserved \cup Cur.ids)
  BY DEF ParseReserved
<1>2. /\ stack # <<>> /\ ~Top.open /\ ProgramInOrder /\ TypeOK
      /\ Cur.kind = "reserved" /\ Cur = decl[Top.type][Top.i]
      /\ Top.i <= Len(decl[Top.type])
      /\ ShowsIn(objs, Props, Found(Top.type, Top.i))
      /\ objs[Top.obj].reserved = FoundReserved(Top.type, Top.i)
      /\ Found(Top.type, Top.i + 1) = Found(Top.type, Top.i) \cup FieldLeaves(Top.type, Top.i)
      /\ FoundReserved(Top.type, Top.i + 1) = FoundReserved(Top.type, Top.i) \cup Cur.ids
  BY <1>1, ClosedFacts
<1>3. FieldLeaves(Top.type, Top.i) = {}
  BY <1>2 DEF FieldLeaves
<1>4. objs[Top.obj].reserved \cup Cur.ids \in SUBSET Nat
  BY <1>1, <1>2, CurFacts, TopInStack DEF FieldDecl, Object
<1>5. PICK ob : ob = [objs[Top.obj] EXCEPT !.reserved = objs[Top.obj].reserved \cup Cur.ids]
  OBVIOUS
<1>6. ob \in Object /\ ob.done = objs[Top.obj].done /\ Becomes(ob) /\ ob.props = Props
      /\ ob.reserved = objs[Top.obj].reserved \cup Cur.ids
  <2>1. PICK S \in SUBSET Nat : S = objs[Top.obj].reserved \cup Cur.ids
    BY <1>4
  <2>2. ob = [objs[Top.obj] EXCEPT !.reserved = S]
    BY <1>5, <2>1
  <2>3. objs[Top.obj] \in Object
    BY <1>2, TopFacts
  <2>4. ob \in Object /\ ob.done = objs[Top.obj].done /\ ob.type = objs[Top.obj].type /\ ob.props = Props /\ ob.reserved = S
    BY <2>2, <2>3 DEF Object, Props
  <2>5. objs' = [objs EXCEPT ![Top.obj] = ob]
    BY <1>1, <2>1, <2>2 DEF SetReserved
  <2> QED
    BY <2>1, <2>4, <2>5 DEF Becomes
<1>7. ret' = Pending
  <2>1. \A t : ~Waits(Top, t)
    BY <1>2 DEF Waits, Needs
  <2> QED
    BY <1>1, <1>2, <2>1, NothingWanted
<1>8. Found(Top.type, Top.i + 1) = Found(Top.type, Top.i)
  BY <1>2, <1>3
<1>9. \A q \in Objects : IsPointer(ob.props, q) => propertiesMap[objs[q].type] = q
  BY <1>2, <1>6, CurrentPointers
<1> QED
  BY <1>1, <1>2, <1>6, <1>7, <1>8, <1>9, NextFieldStep

LEMMA SkipFieldStep ==
  ASSUME All, [Next]_vars, NEW p \in Procs, SkipField(p)
  PROVE  BuildInv'
<1>1. AtField("skip", FALSE) /\ NextField /\ UNCHANGED <<propertiesMap, objs, ret>>
  BY DEF SkipField
<1>2. /\ stack # <<>> /\ ~Top.open /\ ProgramInOrder /\ TypeOK
      /\ Cur.kind = "skip" /\ Cur = decl[Top.type][Top.i]
      /\ Top.type \in Structs /\ Top.i \in 1..Len(decl[Top.type]) /\ Top.i <= Len(decl[Top.type])
      /\ ShowsIn(objs, Props, Found(Top.type, Top.i))
      /\ objs[Top.obj].reserved = FoundReserved(Top.type, Top.i)
      /\ Found(Top.type, Top.i + 1) = Found(Top.type, Top.i) \cup FieldLeaves(Top.type, Top.i)
      /\ FoundReserved(Top.type, Top.i + 1) = FoundReserved(Top.type, Top.i)
  <2>1. PICK k : k = "skip"
    OBVIOUS
  <2>2. AtField(k, FALSE) /\ k # "reserved"
    BY <1>1, <2>1
  <2>3. Cur.kind = "skip" <=> Cur.kind = k
    BY <2>1
  <2> QED
    BY <2>2, <2>3, ClosedFacts
<1>3. FieldLeaves(Top.type, Top.i) = {}
  BY <1>2 DEF FieldLeaves
<1>4. Cur.ok
  BY <1>2, DeclFacts
<1>5. PICK ob : ob = objs[Top.obj]
  OBVIOUS
<1>6. ob \in Object /\ ob.done = objs[Top.obj].done /\ Becomes(ob) /\ ob.props = Props
      /\ ob.reserved = objs[Top.obj].reserved
  <2>1. objs \in Seq(Object) /\ Top.obj \in 1..Len(objs) /\ ob \in Object
    BY <1>2, <1>5, TopFacts DEF TypeOK, Objects
  <2> QED
    BY <1>1, <1>5, <2>1 DEF Becomes, Props
<1>7. ret' = Pending
  <2>1. \A t : ~Waits(Top, t)
    BY <1>2 DEF Waits, Needs
  <2> QED
    BY <1>1, <1>2, <2>1, NothingWanted
<1>8. Found(Top.type, Top.i + 1) = Found(Top.type, Top.i)
  BY <1>2, <1>3
<1>9. \A q \in Objects : IsPointer(ob.props, q) => propertiesMap[objs[q].type] = q
  BY <1>2, <1>6, CurrentPointers
<1> QED
  BY <1>1, <1>2, <1>4, <1>6, <1>7, <1>8, <1>9, NextFieldStep

\* the embedded type is finished: it cannot lead back to the one that embeds it
LEMMA EmbeddedIsDone ==
  ASSUME All, AtField("embedded", FALSE), ret \notin {Pending, Error}
  PROVE  /\ Cur.to[1] \in Structs
         /\ CachedDone(Cur.to[1])
         /\ ret.obj = propertiesMap[Cur.to[1]] /\ ret.obj \in Objects
<1>1. stack # <<>> /\ ProgramInOrder /\ TypeOK /\ StackInv /\ RisingInv /\ NewerInv /\ IncompleteOnStack
  BY DEF AtField, All, IInv, CompleteInv, BuildInv
<1>2. /\ Top.type \in Structs /\ Top.i \in 1..Len(decl[Top.type]) /\ Cur.kind = "embedded" /\ Cur = decl[Top.type][Top.i]
      /\ ~Top.open
  BY <1>1, TopFacts
<1>3. PICK w \in Structs : Waits(Top, w) /\ Cached(w) /\ ret.obj = propertiesMap[w] /\ ret.obj \in Objects
  BY <1>1, Answered
<1>4. w = Cur.to[1]
  BY <1>2, <1>3 DEF Waits, Needs
<1>5. PICK t \in Structs : t = Top.type
  BY <1>2
<1>6. t \notin Oracle!Reach(w)
  <2>1. Top.i \in Oracle!At(t, "embedded")
    BY <1>2, <1>5 DEF Oracle!At
  <2> QED
    BY <1>1, <1>2, <1>4, <1>5, <2>1, EmbeddedAt
<1>7. ASSUME NEW k \in 1..Len(stack), stack[k].type = w PROVE FALSE
  <2>1. stack[k].obj <= Top.obj /\ stack[k].obj \in Nat /\ Top.obj \in Nat
    BY <1>1, TopIsNewest
  <2>2. Cached(t) /\ propertiesMap[t] = Top.obj
    BY <1>1, <1>5, TopFacts
  <2>3. t \in Oracle!Reach(w)
    BY <1>1, <1>7, <2>1, <2>2 DEF NewerInv
  <2> QED
    BY <1>6, <2>3
<1>8. CachedDone(w)
  BY <1>1, <1>3, <1>7 DEF IncompleteOnStack, CachedDone, Types
<1> QED
  BY <1>3, <1>4, <1>8 DEF CachedDone, Cached

LEMMA MergeEmbeddedStep ==
  ASSUME All, [Next]_vars, NEW p \in Procs, MergeEmbedded(p)
  PROVE  BuildInv'
<1>1. AtField("embedded", FALSE) /\ NextField /\ ret \notin {Pending, Error} /\ ret' = Pending /\ UNCHANGED propertiesMap
      /\ SetProps(Props \o Merged(Top.i, objs[ret.obj].props))
  BY DEF MergeEmbedded
<1>2. /\ stack # <<>> /\ ProgramInOrder /\ TypeOK
      /\ Cur.kind = "embedded" /\ Cur = decl[Top.type][Top.i]
      /\ Top.type \in Structs /\ Top.i \in 1..Len(decl[Top.type]) /\ Top.i \in Nat /\ Top.i <= Len(decl[Top.type])
      /\ ShowsIn(objs, Props, Found(Top.type, Top.i))
      /\ objs[Top.obj].reserved = FoundReserved(Top.type, Top.i)
      /\ Found(Top.type, Top.i + 1) = Found(Top.type, Top.i) \cup FieldLeaves(Top.type, Top.i)
      /\ Found(Top.type, Top.i) \cap FieldLeaves(Top.type, Top.i) = {}
      /\ FoundReserved(Top.type, Top.i + 1) = FoundReserved(Top.type, Top.i)
  <2>1. PICK k : k = "embedded"
    OBVIOUS
  <2>2. AtField(k, FALSE) /\ k # "reserved"
    BY <1>1, <2>1
  <2>3. Cur.kind = "embedded" <=> Cur.kind = k
    BY <2>1
  <2> QED
    BY <2>2, <2>3, ClosedFacts
<1>3. PICK w \in Structs : w = Cur.to[1] /\ ret.obj = propertiesMap[w] /\ ret.obj \in Objects /\ CachedDone(Cur.to[1])
  BY <1>1, EmbeddedIsDone
<1>4. CachedDone(w) /\ DoneInv /\ CurrentInv
  BY <1>3 DEF CachedDone, Cached, All, BuildInv
<1>5. PICK inner : inner = objs[ret.obj].props
  OBVIOUS
<1>6. inner \in Seq(Entry)
  BY <1>2, <1>3, <1>5, EntriesOf
<1>7. Shows(inner, Oracle!Leaves(w)) /\ Oracle!Leaves(w) \subseteq Leaf
  BY <1>2, <1>3, <1>4, <1>5, ShowsInIs, LeavesAre DEF DoneInv, Described
<1>8. PICK ps \in Seq(Entry) : ps = Props
  BY <1>2, TopFacts
<1>9. PICK qs : qs = Merged(Top.i, inner)
  OBVIOUS
<1>10. qs \in Seq(Entry) /\ Shows(qs, Moved(Top.i, Oracle!Leaves(w)))
  BY <1>2, <1>6, <1>7, <1>9, MergedType, ShowsMoved
<1>11. FieldLeaves(Top.type, Top.i) = Moved(Top.i, Oracle!Leaves(w))
  BY <1>2, <1>3 DEF FieldLeaves
<1>12. Shows(ps, Found(Top.type, Top.i))
  BY <1>2, <1>8, ShowsInIs
<1>13. Shows(ps \o qs, Found(Top.type, Top.i + 1))
  BY <1>2, <1>10, <1>11, <1>12, ShowsConcat
<1>14. ShowsIn(objs, ps \o qs, Found(Top.type, Top.i + 1))
  BY <1>13, ShowsInIs
<1>15. PICK both \in Seq(Entry) : both = ps \o qs
  BY <1>10, ConcatProperties
<1>16. PICK ob : ob = [objs[Top.obj] EXCEPT !.props = both]
  OBVIOUS
<1>17. ob \in Object /\ ob.done = objs[Top.obj].done /\ Becomes(ob) /\ ob.props = both /\ ob.reserved = objs[Top.obj].reserved
  <2>1. objs[Top.obj] \in Object
    BY <1>2, TopFacts
  <2>2. ob \in Object /\ ob.done = objs[Top.obj].done /\ ob.type = objs[Top.obj].type /\ ob.props = both /\ ob.reserved = objs[Top.obj].reserved
    BY <1>16, <2>1 DEF Object
  <2>3. objs' = [objs EXCEPT ![Top.obj] = ob]
    BY <1>1, <1>5, <1>8, <1>9, <1>15, <1>16 DEF SetProps
  <2> QED
    BY <2>2, <2>3 DEF Becomes
<1>18. ASSUME NEW q \in Objects, IsPointer(both, q) PROVE propertiesMap[objs[q].type] = q
  <2>1. PICK k \in 1..Len(both) : \E j \in 1..Len(both[k].sprop) : q = both[k].sprop[j]
    BY <1>18 DEF IsPointer
  <2>2. Len(both) = Len(ps) + Len(qs) /\ Len(ps) \in Nat /\ Len(qs) \in Nat /\ Len(qs) = Len(inner)
        /\ (k \in 1..Len(ps) => both[k] = ps[k])
        /\ (k \notin 1..Len(ps) => both[k] = qs[k - Len(ps)])
    BY <1>6, <1>8, <1>9, <1>10, <1>15, ConcatProperties DEF Merged
  <2>3. CASE k \in 1..Len(ps)
    <3>1. IsPointer(Props, q)
      BY <1>8, <2>1, <2>2, <2>3 DEF IsPointer
    <3> QED
      BY <1>2, <3>1, CurrentPointers
  <2>4. CASE k \notin 1..Len(ps)
    <3>1. PICK m \in 1..Len(inner) : m = k - Len(ps)
      BY <2>2, <2>4
    <3>2. both[k].sprop = inner[m].sprop
      <4>1. inner[m] \in Entry
        BY <1>6
      <4>2. both[k] = [inner[m] EXCEPT !.offset = <<Top.i>> \o @]
        BY <1>9, <2>2, <2>4, <3>1 DEF Merged
      <4> QED
        BY <4>1, <4>2 DEF Entry
    <3>3. IsPointer(objs[propertiesMap[w]].props, q)
      BY <1>3, <1>5, <2>1, <3>2 DEF IsPointer
    <3> QED
      BY <1>4, <3>3 DEF CurrentInv, CachedDone
  <2> QED
    BY <2>3, <2>4
<1>19. Cur.ok
  BY <1>2, DeclFacts
<1> QED
  BY <1>1, <1>2, <1>3, <1>14, <1>15, <1>17, <1>18, <1>19, NextFieldStep

-----------------------------------------------------------------------------
(* The entry of the field being filled in is the last one *)

LEMMA Appended ==
  ASSUME NEW T, NEW ps \in Seq(T), NEW e \in T
  PROVE  /\ Append(ps, e) \in Seq(T) /\ Append(ps, e) # <<>>
         /\ Earlier(Append(ps, e)) = ps
         /\ Latest(Append(ps, e)) = e
         /\ Append(ps, e) = ps \o <<e>>
<1>1. /\ Append(ps, e) \in Seq(T) /\ Len(Append(ps, e)) = Len(ps) + 1 /\ Len(ps) \in Nat
      /\ \A k \in 1..Len(ps) : Append(ps, e)[k] = ps[k]
      /\ Append(ps, e)[Len(ps) + 1] = e
  OBVIOUS
<1>2. PICK qs : qs = Append(ps, e)
  OBVIOUS
<1>3. PICK n \in Nat : n = Len(ps)
  BY <1>1
<1>4. Earlier(qs) = [k \in 1..n |-> qs[k]]
  <2>1. Len(qs) - 1 = n
    BY <1>1, <1>2, <1>3
  <2> QED
    BY <2>1 DEF Earlier
<1>5. ps = [k \in 1..n |-> ps[k]]
  BY <1>3
<1>6. Earlier(qs) = ps
  BY <1>1, <1>2, <1>3, <1>4, <1>5
<1>7. Latest(qs) = e
  BY <1>1, <1>2 DEF Latest
<1>8. qs # <<>>
  BY <1>1, <1>2
<1>9. Append(ps, e) = ps \o <<e>>
  OBVIOUS
<1> QED
  BY <1>1, <1>2, <1>6, <1>7, <1>8, <1>9

LEMMA Replaced ==
  ASSUME NEW T, NEW ps \in Seq(T), ps # <<>>, NEW e \in T
  PROVE  /\ Earlier(ps) \in Seq(T) /\ Latest(ps) \in T
         /\ [ps EXCEPT ![Len(ps)] = e] = Append(Earlier(ps), e)
         /\ \A k \in 1..Len(Earlier(ps)) : k \in 1..Len(ps) /\ Earlier(ps)[k] = ps[k]
<1>1. PICK m \in Nat : Len(ps) = m + 1
  <2>1. Len(ps) \in Nat \ {0}
    OBVIOUS
  <2>2. Len(ps) - 1 \in Nat /\ Len(ps) = (Len(ps) - 1) + 1
    BY <2>1
  <2> QED
    BY <2>2
<1>2. Earlier(ps) = [k \in 1..m |-> ps[k]]
  <2>1. Len(ps) - 1 = m
    BY <1>1
  <2> QED
    BY <2>1 DEF Earlier
<1>3. \A k \in 1..m : k \in 1..Len(ps) /\ ps[k] \in T /\ k # m + 1
  BY <1>1
<1>4. PICK es : es = Earlier(ps)
  OBVIOUS
<1>5. es \in Seq(T) /\ Len(es) = m /\ \A k \in 1..m : es[k] = ps[k]
  BY <1>2, <1>3, <1>4
<1>6. Latest(ps) \in T
  BY <1>1 DEF Latest
<1>7. [ps EXCEPT ![m + 1] = e] = Append(es, e)
  <2>1. PICK qs : qs = [ps EXCEPT ![m + 1] = e]
    OBVIOUS
  <2>2. qs \in Seq(T) /\ Len(qs) = m + 1 /\ qs[m + 1] = e /\ \A k \in 1..m : qs[k] = ps[k]
    BY <1>1, <1>3, <2>1
  <2>3. Append(es, e) \in Seq(T) /\ Len(Append(es, e)) = m + 1 /\ Append(es, e)[m + 1] = e
        /\ \A k \in 1..m : Append(es, e)[k] = ps[k]
    BY <1>5
  <2>4. PICK rs : rs = Append(es, e)
    OBVIOUS
  <2>5. \A k \in 1..(m + 1) : k \in 1..m \/ k = m + 1
    OBVIOUS
  <2>6. qs = rs
    BY <2>2, <2>3, <2>4, <2>5
  <2> QED
    BY <2>1, <2>4, <2>6
<1> QED
  BY <1>1, <1>3, <1>4, <1>5, <1>6, <1>7

\* a field goes on, its entry the last one
LEMMA OpenFieldStep ==
  ASSUME All, [Next]_vars, stack # <<>>, Top.i <= Len(decl[Top.type]),
         NEW ob \in Object, Becomes(ob), ob.done = objs[Top.obj].done, ob.reserved = objs[Top.obj].reserved,
         NEW es \in Seq(Entry), NEW e \in Entry, ob.props = Append(es, e),
         ShowsIn(objs, es, Found(Top.type, Top.i)), OpenEntry(Top, Cur, e),
         GoField(Top.i, TRUE), UNCHANGED propertiesMap, ret' = Pending,
         \A q \in Objects : IsPointer(ob.props, q) => propertiesMap[objs[q].type] = q
  PROVE  BuildInv'
<1>1. PICK t \in Structs, i \in 1..Len(decl[Top.type]) : t = Top.type /\ i = Top.i
  BY TopFacts
<1>2. PICK f : f = [type |-> t, obj |-> Top.obj, i |-> i, open |-> TRUE]
  OBVIOUS
<1>3. f \in Frame /\ f.type = Top.type /\ f.obj = Top.obj /\ SetTop(f) /\ f.type = t /\ f.i = i /\ f.open = TRUE
  BY <1>1, <1>2, TopFacts DEF Frame, GoField
<1>4. IInv /\ ProgramInOrder /\ BuildInv /\ TypeOK
  BY DEF All, IInv
<1>5. decl' = decl /\ FoundReserved(t, i)' = FoundReserved(t, i) /\ Found(t, i)' = Found(t, i)
  BY Static
<1>6. Len(decl[t]) \in Nat /\ i \in 1..Len(decl[t])
  BY <1>1, TopFacts
<1>7. FrameOk(Top) /\ Top.obj \in Objects /\ objs \in Seq(Object)
  BY <1>4, TopFacts DEF TypeOK
<1>8. objs'[f.obj] = ob
  BY <1>3, <1>7 DEF Becomes, Objects
<1>9. ASSUME NEW j \in 1..(i - 1)
      PROVE  decl[t][j].ok /\ (decl[t][j].kind = "embedded" => CachedDone(decl[t][j].to[1]) /\ decl[t][j].to[1] \in Structs)
  <2>1. j \in 1..Len(decl[t])
    BY <1>6
  <2>2. decl[t][j].kind = "embedded" => decl[t][j].to[1] \in Structs
    BY <1>4, <2>1, DeclFacts
  <2> QED
    BY <1>1, <1>7, <2>2 DEF FrameOk
<1>10. ASSUME NEW j \in 1..(i - 1), decl[t][j].kind = "embedded" PROVE CachedDone(decl[t][j].to[1])'
  <2>1. PICK u \in Structs : u = decl[t][j].to[1]
    BY <1>9, <1>10
  <2>2. CachedDone(u)
    BY <1>9, <1>10, <2>1 DEF CachedDone, Cached
  <2>3. CachedDone(u)'
    BY <1>4, <2>2, DoneKept
  <2> QED
    BY <1>5, <2>1, <2>3 DEF CachedDone, Cached
<1>11. \A o \in Objects : objs'[o].type = objs[o].type
  BY <1>4, TypesKept
<1>12. ShowsIn(objs', es, Found(t, i))
  <2>1. \A k \in 1..Len(es) : \A j \in 1..Len(es[k].sprop) : es[k].sprop[j] \in Objects
    <3>1. \A k \in 1..Len(es) : es[k] \in Entry
      OBVIOUS
    <3>2. \A k \in 1..Len(es) : es[k].sprop \in Seq(Objects)
      BY <3>1 DEF Entry
    <3> QED
      BY <3>2
  <2>2. ShowsIn(objs, es, Found(t, i))
    BY <1>1
  <2> QED
    BY <1>11, <2>1, <2>2, ShowsInKept
<1>13. Earlier(ob.props) = es /\ Latest(ob.props) = e /\ ob.props # <<>>
  <2>1. PICK T : T = Entry
    OBVIOUS
  <2>2. Earlier(Append(es, e)) = es /\ Latest(Append(es, e)) = e /\ Append(es, e) # <<>>
    BY <2>1, Appended
  <2> QED
    BY <2>2
<1>14. OpenEntry(f, decl[f.type][f.i], e)'
  <2>1. e.sprop \in Seq(Objects)
    BY DEF Entry
  <2>2. \A n \in 1..Len(e.sprop) : objs'[e.sprop[n]].type = objs[e.sprop[n]].type
    BY <1>11, <2>1
  <2>3. PICK c : c = Cur
    OBVIOUS
  <2>4. c.kind = "field" /\ e.tag = c.tag /\ e.offset = <<f.i>> /\ Len(e.sprop) <= Len(c.to)
        /\ \A n \in 1..Len(e.sprop) : objs'[e.sprop[n]].type = c.to[n]
    BY <1>1, <1>3, <2>2, <2>3 DEF OpenEntry
  <2>5. c = decl'[f.type][f.i]
    BY <1>1, <1>3, <1>5, <2>3 DEF Cur
  <2> QED
    BY <2>4, <2>5 DEF OpenEntry
<1>15. FrameOk(f)'
  <2>1. f.type \in Structs /\ f.type # TimeType /\ f.i <= Len(decl'[f.type]) /\ f.i <= Len(decl'[f.type]) + 1 /\ f.open
    BY <1>1, <1>3, <1>5, <1>6, TopFacts
  <2>2. \A j \in 1..(f.i - 1) : decl'[f.type][j].ok
    BY <1>3, <1>5, <1>9
  <2>3. \A j \in 1..(f.i - 1) : decl'[f.type][j].kind = "embedded" => CachedDone(decl[f.type][j].to[1])'
    BY <1>3, <1>5, <1>10 DEF CachedDone, Cached
  <2>4. Found(f.type, f.i)' = Found(t, i) /\ FoundReserved(f.type, f.i)' = FoundReserved(t, i)
    BY <1>3, Static
  <2>5. objs'[f.obj].reserved = FoundReserved(f.type, f.i)'
    BY <1>1, <1>7, <1>8, <2>4 DEF FrameOk
  <2>6. ShowsIn(objs', Earlier(objs'[f.obj].props), Found(f.type, f.i)') /\ objs'[f.obj].props # <<>>
    BY <1>8, <1>12, <1>13, <2>4
  <2>7. OpenEntry(f, decl[f.type][f.i], Latest(objs[f.obj].props))'
    <3>1. Latest(objs'[f.obj].props) = e
      BY <1>8, <1>13
    <3> QED
      BY <1>14, <3>1 DEF OpenEntry, Latest
  <2> QED
    BY <2>1, <2>2, <2>3, <2>5, <2>6, <2>7 DEF FrameOk
<1> QED
  BY <1>3, <1>4, <1>15, WorkStep

LEMMA AppendEntryStep ==
  ASSUME All, [Next]_vars, NEW p \in Procs, AppendEntry(p)
  PROVE  BuildInv'
<1>1. AtField("field", FALSE) /\ GoField(Top.i, TRUE) /\ UNCHANGED <<propertiesMap, ret>>
      /\ SetProps(Append(Props, NewEntry))
  BY DEF AppendEntry
<1>2. /\ stack # <<>> /\ ~Top.open /\ ProgramInOrder /\ TypeOK
      /\ Cur.kind = "field" /\ Cur = decl[Top.type][Top.i]
      /\ Top.type \in Structs /\ Top.i \in Nat /\ Top.i <= Len(decl[Top.type])
      /\ ShowsIn(objs, Props, Found(Top.type, Top.i))
  <2>1. PICK k : k = "field"
    OBVIOUS
  <2>2. AtField(k, FALSE)
    BY <1>1, <2>1
  <2>3. Cur.kind = "field" <=> Cur.kind = k
    BY <2>1
  <2> QED
    BY <2>2, <2>3, ClosedFacts
<1>3. PICK es \in Seq(Entry) : es = Props /\ Props = objs[Top.obj].props
  BY <1>2, TopFacts
<1>4. Cur \in FieldDecl
  BY <1>1, <1>2, CurFacts
<1>5. PICK e : e = NewEntry
  OBVIOUS
<1>6. e \in Entry /\ e.tag = Cur.tag /\ e.offset = <<Top.i>> /\ e.sprop = <<>>
  <2>1. Cur.tag \in Nat /\ <<Top.i>> \in Seq(Nat) /\ <<>> \in Seq(Objects)
    BY <1>2, <1>4 DEF FieldDecl
  <2>2. e = [tag |-> Cur.tag, offset |-> <<Top.i>>, ready |-> FALSE, sprop |-> <<>>]
    BY <1>5 DEF NewEntry
  <2> QED
    BY <2>1, <2>2 DEF Entry
<1>7. OpenEntry(Top, Cur, e)
  <2>1. Cur.to \in Seq(Types)
    BY <1>4 DEF FieldDecl
  <2>2. Len(e.sprop) = 0 /\ Len(Cur.to) \in Nat
    BY <1>6, <2>1
  <2> QED
    BY <1>2, <1>6, <2>2 DEF OpenEntry
<1>8. PICK both \in Seq(Entry) : both = Append(es, e)
  <2>1. Append(es, e) \in Seq(Entry)
    <3>1. PICK T : T = Entry
      OBVIOUS
    <3> QED
      BY <1>6, <3>1, Appended
  <2> QED
    BY <2>1
<1>9. PICK ob : ob = [objs[Top.obj] EXCEPT !.props = both]
  OBVIOUS
<1>10. ob \in Object /\ ob.done = objs[Top.obj].done /\ Becomes(ob) /\ ob.props = both /\ ob.reserved = objs[Top.obj].reserved
  <2>1. objs[Top.obj] \in Object
    BY <1>2, TopFacts
  <2>2. ob \in Object /\ ob.done = objs[Top.obj].done /\ ob.type = objs[Top.obj].type /\ ob.props = both /\ ob.reserved = objs[Top.obj].reserved
    BY <1>9, <2>1 DEF Object
  <2>3. objs' = [objs EXCEPT ![Top.obj] = ob]
    BY <1>1, <1>3, <1>5, <1>8, <1>9 DEF SetProps
  <2> QED
    BY <2>2, <2>3 DEF Becomes
<1>11. ASSUME NEW q \in Objects, IsPointer(both, q) PROVE propertiesMap[objs[q].type] = q
  <2>1. PICK k \in 1..Len(both), j \in Nat : j \in 1..Len(both[k].sprop) /\ q = both[k].sprop[j]
    BY <1>11 DEF IsPointer
  <2>2. k \in 1..Len(es) /\ both[k] = es[k]
    <3>1. Len(both) = Len(es) + 1 /\ Len(es) \in Nat /\ both[Len(es) + 1] = e /\ \A m \in 1..Len(es) : both[m] = es[m]
      BY <1>6, <1>8
    <3>2. k # Len(es) + 1
      BY <1>6, <2>1, <3>1
    <3> QED
      BY <3>1, <3>2
  <2>3. IsPointer(Props, q)
    BY <1>3, <2>1, <2>2 DEF IsPointer
  <2> QED
    BY <1>2, <2>3, CurrentPointers
<1>12. ret' = Pending
  <2>1. \A t : ~Waits(Top, t)
    BY <1>2 DEF Waits, Needs
  <2> QED
    BY <1>1, <1>2, <2>1, NothingWanted
<1> QED
  BY <1>1, <1>2, <1>3, <1>6, <1>7, <1>8, <1>10, <1>11, <1>12, OpenFieldStep

\* what an activation that is filling in the entry of its field has
LEMMA OpenFacts ==
  ASSUME All, AtField("field", TRUE)
  PROVE  /\ stack # <<>> /\ Top.open /\ ProgramInOrder /\ TypeOK
         /\ Cur.kind = "field" /\ Cur = decl[Top.type][Top.i] /\ Cur \in FieldDecl
         /\ Top.type \in Structs /\ Top.i \in 1..Len(decl[Top.type]) /\ Top.i \in Nat /\ Top.i <= Len(decl[Top.type])
         /\ Props \in Seq(Entry) /\ Props = objs[Top.obj].props /\ Props # <<>>
         /\ LastProp = Latest(Props) /\ LastProp \in Entry
         /\ Earlier(Props) \in Seq(Entry)
         /\ OpenEntry(Top, Cur, LastProp)
         /\ ShowsIn(objs, Earlier(Props), Found(Top.type, Top.i))
         /\ \A e \in Entry : [Props EXCEPT ![Len(Props)] = e] = Append(Earlier(Props), e)
         /\ \A q \in Objects : IsPointer(Earlier(Props), q) \/ IsPointer(<<LastProp>>, q) => propertiesMap[objs[q].type] = q
<1>1. stack # <<>> /\ ProgramInOrder
  BY DEF AtField, All
<1>2. /\ Top.type \in Structs /\ FrameOk(Top) /\ Props = objs[Top.obj].props /\ Props \in Seq(Entry) /\ TypeOK
      /\ Top.i \in 1..Len(decl[Top.type]) /\ Top.open /\ Cur.kind = "field" /\ Cur = decl[Top.type][Top.i]
      /\ Len(decl[Top.type]) \in Nat
  BY <1>1, TopFacts
<1>3. Cur \in FieldDecl
  BY <1>2, CurFacts
<1>4. Props # <<>> /\ OpenEntry(Top, Cur, Latest(Props)) /\ ShowsIn(objs, Earlier(Props), Found(Top.type, Top.i))
  BY <1>2 DEF FrameOk
<1>5. Top.i \in Nat /\ Top.i <= Len(decl[Top.type])
  BY <1>2
<1>6. LastProp = Latest(Props)
  BY DEF LastProp, Latest
<1>7. PICK T : T = Entry
  OBVIOUS
<1>8. PICK ps \in Seq(T) : ps = Props
  BY <1>2, <1>7
<1>9. /\ Earlier(ps) \in Seq(T) /\ Latest(ps) \in T
      /\ \A k \in 1..Len(Earlier(ps)) : k \in 1..Len(ps) /\ Earlier(ps)[k] = ps[k]
      /\ \A e \in T : [ps EXCEPT ![Len(ps)] = e] = Append(Earlier(ps), e)
  <2>1. ps # <<>>
    BY <1>4, <1>8
  <2>2. Earlier(ps) \in Seq(T) /\ Latest(ps) \in T /\ \A k \in 1..Len(Earlier(ps)) : k \in 1..Len(ps) /\ Earlier(ps)[k] = ps[k]
    <3>1. PICK e : e \in T
      <4>1. Latest(ps) \in T
        BY <2>1 DEF Latest
      <4> QED
        BY <4>1
    <3> QED
      BY <2>1, <3>1, Replaced
  <2>3. ASSUME NEW e \in T PROVE [ps EXCEPT ![Len(ps)] = e] = Append(Earlier(ps), e)
    BY <2>1, Replaced
  <2> QED
    BY <2>2, <2>3
<1>10. ASSUME NEW q \in Objects, IsPointer(Earlier(Props), q) \/ IsPointer(<<LastProp>>, q) PROVE propertiesMap[objs[q].type] = q
  <2>1. IsPointer(Props, q)
    <3>1. CASE IsPointer(Earlier(Props), q)
      <4>1. PICK k \in 1..Len(Earlier(ps)) : \E j \in 1..Len(Earlier(ps)[k].sprop) : q = Earlier(ps)[k].sprop[j]
        BY <1>8, <3>1 DEF IsPointer
      <4> QED
        BY <1>8, <1>9, <4>1 DEF IsPointer
    <3>2. CASE IsPointer(<<LastProp>>, q)
      <4>1. PICK k \in 1..Len(<<LastProp>>) : \E j \in 1..Len(<<LastProp>>[k].sprop) : q = <<LastProp>>[k].sprop[j]
        BY <3>2 DEF IsPointer
      <4>2. <<LastProp>>[k] = LastProp
        BY <4>1
      <4>3. Len(Props) \in 1..Len(Props) /\ Props[Len(Props)] = LastProp
        BY <1>2, <1>4 DEF LastProp
      <4> QED
        BY <4>1, <4>2, <4>3 DEF IsPointer
    <3> QED
      BY <1>10, <3>1, <3>2
  <2> QED
    BY <1>1, <2>1, CurrentPointers
<1> QED
  BY <1>1, <1>2, <1>3, <1>4, <1>5, <1>6, <1>7, <1>8, <1>9, <1>10

\* the pointers of a list and of one more entry
LEMMA PointersAppended ==
  ASSUME NEW T, NEW ps \in Seq(T), NEW e \in T, NEW q, IsPointer(Append(ps, e), q)
  PROVE  IsPointer(ps, q) \/ \E j \in 1..Len(e.sprop) : q = e.sprop[j]
<1>1. PICK both : both = Append(ps, e)
  OBVIOUS
<1>2. Len(both) = Len(ps) + 1 /\ Len(ps) \in Nat /\ both[Len(ps) + 1] = e /\ \A k \in 1..Len(ps) : both[k] = ps[k]
  BY <1>1
<1>3. PICK k \in 1..Len(both) : \E j \in 1..Len(both[k].sprop) : q = both[k].sprop[j]
  BY <1>1 DEF IsPointer
<1>4. CASE k \in 1..Len(ps)
  BY <1>2, <1>3, <1>4 DEF IsPointer
<1>5. CASE k = Len(ps) + 1
  BY <1>2, <1>3, <1>5
<1> QED
  BY <1>2, <1>4, <1>5

LEMMA ResolveTypeStep ==
  ASSUME All, [Next]_vars, NEW p \in Procs, ResolveType(p)
  PROVE  BuildInv'
<1>1. AtField("field", TRUE) /\ ret \notin {Pending, Error} /\ ret' = Pending /\ UNCHANGED <<propertiesMap, stack>>
      /\ SetLastProp([LastProp EXCEPT !.sprop = Append(@, ret.obj)])
  BY DEF ResolveType
<1>2. /\ stack # <<>> /\ Top.open /\ TypeOK
      /\ Cur.kind = "field" /\ Cur = decl[Top.type][Top.i] /\ Cur \in FieldDecl
      /\ Top.type \in Structs /\ Top.i \in 1..Len(decl[Top.type]) /\ Top.i \in Nat /\ Top.i <= Len(decl[Top.type])
      /\ Props \in Seq(Entry) /\ Props = objs[Top.obj].props /\ Props # <<>>
      /\ LastProp = Latest(Props) /\ LastProp \in Entry
      /\ OpenEntry(Top, Cur, LastProp)
      /\ ShowsIn(objs, Earlier(Props), Found(Top.type, Top.i))
      /\ \A e \in Entry : [Props EXCEPT ![Len(Props)] = e] = Append(Earlier(Props), e)
      /\ \A q \in Objects : IsPointer(Earlier(Props), q) \/ IsPointer(<<LastProp>>, q) => propertiesMap[objs[q].type] = q
  BY <1>1, OpenFacts
<1>3. PICK w \in Structs : Waits(Top, w) /\ Cached(w) /\ ret.obj = propertiesMap[w] /\ ret.obj \in Objects
  BY <1>1, <1>2, Answered
<1>4. PICK last \in Entry : last = LastProp
  BY <1>2
<1>5. PICK n \in Nat : n = Len(last.sprop)
  <2>1. last.sprop \in Seq(Objects)
    BY DEF Entry
  <2> QED
    BY <2>1
<1>6. n < Len(Cur.to) /\ w = Cur.to[n + 1]
  BY <1>2, <1>3, <1>4, <1>5 DEF Waits, Needs
<1>7. PICK o \in Objects : o = ret.obj
  BY <1>3
<1>8. objs[o].type = w /\ propertiesMap[w] = o
  <2>1. CacheInv /\ w \in Types
    BY DEF All, BuildInv, Types
  <2> QED
    BY <1>3, <1>7, <2>1 DEF CacheInv
<1>9. PICK e : e = [last EXCEPT !.sprop = Append(@, o)]
  OBVIOUS
<1>10. PICK sp \in Seq(Objects) : sp = last.sprop
  BY DEF Entry
<1>11. e.sprop = Append(sp, o) /\ Append(sp, o) \in Seq(Objects) /\ e \in Entry /\ e.tag = last.tag /\ e.offset = last.offset
  <2>1. PICK more : more = Append(sp, o)
    OBVIOUS
  <2>2. more \in Seq(Objects)
    BY <2>1
  <2>3. e = [last EXCEPT !.sprop = more]
    BY <1>9, <1>10, <2>1
  <2>4. e \in Entry /\ e.sprop = more /\ e.tag = last.tag /\ e.offset = last.offset
    BY <2>2, <2>3 DEF Entry
  <2> QED
    BY <2>1, <2>2, <2>4
<1>12. Len(e.sprop) = n + 1 /\ e.sprop[n + 1] = o /\ \A m \in 1..n : e.sprop[m] = sp[m]
  BY <1>5, <1>10, <1>11
<1>13. OpenEntry(Top, Cur, e)
  <2>1. PICK c : c = Cur
    OBVIOUS
  <2>2. c.kind = "field" /\ last.tag = c.tag /\ last.offset = <<Top.i>>
        /\ \A m \in 1..n : objs[sp[m]].type = c.to[m]
    BY <1>2, <1>4, <1>5, <1>10, <2>1 DEF OpenEntry
  <2>3. Len(c.to) \in Nat
    <3>1. c.to \in Seq(Types)
      BY <1>2, <2>1 DEF FieldDecl
    <3> QED
      BY <3>1
  <2>4. n + 1 <= Len(c.to)
    BY <1>6, <2>1, <2>3
  <2>5. \A m \in 1..(n + 1) : objs[e.sprop[m]].type = c.to[m]
    <3>1. ASSUME NEW m \in 1..(n + 1) PROVE objs[e.sprop[m]].type = c.to[m]
      <4>1. CASE m \in 1..n
        BY <1>12, <2>2, <4>1
      <4>2. CASE m = n + 1
        BY <1>6, <1>8, <1>12, <2>1, <4>2
      <4> QED
        BY <4>1, <4>2
    <3> QED
      BY <3>1
  <2>6. Len(e.sprop) <= Len(c.to) /\ \A m \in 1..Len(e.sprop) : objs[e.sprop[m]].type = c.to[m]
    BY <1>12, <2>4, <2>5
  <2> QED
    BY <1>11, <2>1, <2>2, <2>6 DEF OpenEntry
<1>14. PICK es \in Seq(Entry) : es = Earlier(Props)
  BY <1>1, OpenFacts
<1>15. PICK both \in Seq(Entry) : both = Append(es, e)
  <2>1. PICK T : T = Entry
    OBVIOUS
  <2>2. Append(es, e) \in Seq(Entry)
    BY <1>11, <2>1, Appended
  <2> QED
    BY <2>2
<1>16. PICK ob : ob = [objs[Top.obj] EXCEPT !.props = both]
  OBVIOUS
<1>17. ob \in Object /\ ob.done = objs[Top.obj].done /\ Becomes(ob) /\ ob.props = both /\ ob.reserved = objs[Top.obj].reserved
  <2>1. objs[Top.obj] \in Object
    BY <1>2, TopFacts
  <2>2. ob \in Object /\ ob.done = objs[Top.obj].done /\ ob.type = objs[Top.obj].type /\ ob.props = both /\ ob.reserved = objs[Top.obj].reserved
    BY <1>16, <2>1 DEF Object
  <2>3. both = [Props EXCEPT ![Len(Props)] = e]
    BY <1>2, <1>11, <1>14, <1>15
  <2>4. SetProps(both)
    BY <1>1, <1>4, <1>7, <1>9, <2>3 DEF SetLastProp
  <2>5. objs' = [objs EXCEPT ![Top.obj] = ob]
    BY <1>16, <2>4 DEF SetProps
  <2> QED
    BY <2>2, <2>5 DEF Becomes
<1>18. ASSUME NEW q \in Objects, IsPointer(both, q) PROVE propertiesMap[objs[q].type] = q
  <2>1. PICK T : T = Entry
    OBVIOUS
  <2>2. IsPointer(es, q) \/ \E j \in 1..Len(e.sprop) : q = e.sprop[j]
    <3>1. es \in Seq(T) /\ e \in T /\ IsPointer(Append(es, e), q)
      BY <1>11, <1>15, <1>18, <2>1
    <3> QED
      BY <3>1, PointersAppended
  <2>3. CASE IsPointer(es, q)
    BY <1>2, <1>14, <2>3
  <2>4. ASSUME NEW j \in 1..Len(e.sprop), q = e.sprop[j] PROVE propertiesMap[objs[q].type] = q
    <3>1. CASE j \in 1..n
      <4>1. q = last.sprop[j] /\ j \in 1..Len(last.sprop)
        BY <1>5, <1>10, <1>12, <2>4, <3>1
      <4>2. IsPointer(<<LastProp>>, q)
        <5>1. <<last>>[1] = last /\ 1 \in 1..Len(<<last>>)
          OBVIOUS
        <5> QED
          BY <1>4, <4>1, <5>1 DEF IsPointer
      <4> QED
        BY <1>2, <4>2
    <3>2. CASE j = n + 1
      BY <1>8, <1>12, <2>4, <3>2
    <3> QED
      BY <1>12, <3>1, <3>2
  <2> QED
    BY <2>2, <2>3, <2>4
<1>19. GoField(Top.i, TRUE)
  <2>1. Top \in Frame /\ Len(stack) \in 1..Len(stack) /\ stack \in Seq(Frame)
    BY <1>2, TopInStack DEF TypeOK
  <2>2. Top = [type |-> Top.type, obj |-> Top.obj, i |-> Top.i, open |-> TRUE]
    <3>1. PICK f \in Frame : f = Top
      BY <2>1
    <3>2. f = [type |-> f.type, obj |-> f.obj, i |-> f.i, open |-> TRUE]
      BY <1>2, <3>1 DEF Frame
    <3> QED
      BY <3>1, <3>2
  <2>3. [stack EXCEPT ![Len(stack)] = Top] = stack
    <3>1. PICK s \in Seq(Frame) : s = stack
      BY <2>1
    <3>2. PICK f : f = s[Len(s)]
      OBVIOUS
    <3>3. [s EXCEPT ![Len(s)] = f] = s
      BY <3>2
    <3> QED
      BY <3>1, <3>2, <3>3 DEF Top
  <2> QED
    BY <1>1, <2>2, <2>3 DEF GoField, SetTop
<1>20. /\ stack # <<>> /\ Top.i <= Len(decl[Top.type]) /\ UNCHANGED propertiesMap /\ ret' = Pending
       /\ ob.props = Append(es, e) /\ ShowsIn(objs, es, Found(Top.type, Top.i))
       /\ \A q \in Objects : IsPointer(ob.props, q) => propertiesMap[objs[q].type] = q
  BY <1>1, <1>2, <1>14, <1>15, <1>17, <1>18
<1> QED
  BY <1>11, <1>13, <1>17, <1>19, <1>20, OpenFieldStep

LEMMA InitFieldStep ==
  ASSUME All, [Next]_vars, NEW p \in Procs, InitField(p)
  PROVE  BuildInv'
<1>1. AtField("field", TRUE) /\ ret = Pending /\ Visited /\ Cur.ok /\ NextField /\ UNCHANGED <<propertiesMap, ret>>
      /\ SetLastProp([LastProp EXCEPT !.ready = TRUE])
  BY DEF InitField
<1>2. /\ stack # <<>> /\ ProgramInOrder /\ TypeOK
      /\ Cur.kind = "field" /\ Cur = decl[Top.type][Top.i] /\ Cur \in FieldDecl
      /\ Top.type \in Structs /\ Top.i \in 1..Len(decl[Top.type]) /\ Top.i \in Nat /\ Top.i <= Len(decl[Top.type])
      /\ Props \in Seq(Entry) /\ Props = objs[Top.obj].props /\ Props # <<>>
      /\ LastProp = Latest(Props) /\ LastProp \in Entry
      /\ OpenEntry(Top, Cur, LastProp)
      /\ ShowsIn(objs, Earlier(Props), Found(Top.type, Top.i))
      /\ \A e \in Entry : [Props EXCEPT ![Len(Props)] = e] = Append(Earlier(Props), e)
      /\ \A q \in Objects : IsPointer(Earlier(Props), q) \/ IsPointer(<<LastProp>>, q) => propertiesMap[objs[q].type] = q
  BY <1>1, OpenFacts
<1>3. PICK t \in Structs, i \in 1..Len(decl[Top.type]) : t = Top.type /\ i = Top.i
  BY <1>2
<1>4. FrameOk(Top) /\ Len(decl[t]) \in Nat
  BY <1>2, <1>3, TopFacts
<1>5. /\ Found(t, i) \cap FieldLeaves(t, i) = {}
      /\ Found(t, i + 1) = Found(t, i) \cup FieldLeaves(t, i)
      /\ FoundReserved(t, i + 1) = FoundReserved(t, i) \cup (IF decl[t][i].kind = "reserved" THEN decl[t][i].ids ELSE {})
  BY <1>2, <1>3, FoundNext
<1>6. FieldLeaves(t, i) = {Oracle!OwnLeaf(t, i)} /\ decl[t][i].kind = "field"
  BY <1>2, <1>3 DEF FieldLeaves
<1>7. objs[Top.obj].reserved = FoundReserved(Top.type, Top.i + 1)
  <2>1. FoundReserved(t, i + 1) = FoundReserved(t, i)
    BY <1>5, <1>6
  <2> QED
    BY <1>3, <1>4, <2>1 DEF FrameOk
<1>8. PICK last \in Entry : last = LastProp
  BY <1>2
<1>9. PICK e : e = [last EXCEPT !.ready = TRUE]
  OBVIOUS
<1>10. e \in Entry /\ e.ready /\ e.tag = last.tag /\ e.offset = last.offset /\ e.sprop = last.sprop
  BY <1>9 DEF Entry
<1>11. SeenEntry(e) = Oracle!OwnLeaf(t, i)
  <2>1. PICK c : c = Cur
    OBVIOUS
  <2>2. last.tag = c.tag /\ last.offset = <<Top.i>> /\ \A m \in 1..Len(last.sprop) : objs[last.sprop[m]].type = c.to[m]
    BY <1>2, <1>8, <2>1 DEF OpenEntry
  <2>3. Len(last.sprop) = Len(c.to)
    BY <1>1, <1>8, <2>1 DEF Visited, Resolved
  <2>4. c.to \in Seq(Types)
    BY <1>2, <2>1 DEF FieldDecl
  <2>5. [m \in 1..Len(e.sprop) |-> objs[e.sprop[m]].type] = c.to
    <3>1. PICK s \in Seq(Types) : s = c.to
      BY <2>4
    <3>2. s = [m \in 1..Len(s) |-> s[m]]
      OBVIOUS
    <3>3. [m \in 1..Len(e.sprop) |-> objs[e.sprop[m]].type] = [m \in 1..Len(s) |-> s[m]]
      BY <1>10, <2>2, <2>3, <3>1
    <3> QED
      BY <3>1, <3>2, <3>3
  <2>6. SeenEntry(e) = [tag |-> c.tag, offset |-> <<i>>, to |-> c.to]
    BY <1>3, <1>10, <2>2, <2>5 DEF SeenEntry
  <2>7. c = decl[t][i]
    BY <1>2, <1>3, <2>1
  <2> QED
    BY <2>6, <2>7 DEF Oracle!OwnLeaf
<1>12. PICK es \in Seq(Entry) : es = Earlier(Props)
  BY <1>1, OpenFacts
<1>13. PICK both \in Seq(Entry) : both = Append(es, e) /\ both = es \o <<e>>
  <2>1. PICK T : T = Entry
    OBVIOUS
  <2>2. Append(es, e) \in Seq(Entry) /\ Append(es, e) = es \o <<e>>
    BY <1>10, <2>1, Appended
  <2> QED
    BY <2>2
<1>14. ShowsIn(objs, both, Found(Top.type, Top.i + 1))
  <2>1. Shows(es, Found(t, i))
    BY <1>2, <1>3, <1>12, ShowsInIs
  <2>2. Shows(<<e>>, FieldLeaves(t, i))
    BY <1>6, <1>11, ShowsOne
  <2>3. PICK T : T = Entry
    OBVIOUS
  <2>4. <<e>> \in Seq(T) /\ es \in Seq(T)
    BY <1>10, <2>3
  <2>5. Shows(es \o <<e>>, Found(t, i) \cup FieldLeaves(t, i))
    BY <1>5, <2>1, <2>2, <2>4, ShowsConcat
  <2> QED
    BY <1>3, <1>5, <1>13, <2>5, ShowsInIs
<1>15. PICK ob : ob = [objs[Top.obj] EXCEPT !.props = both]
  OBVIOUS
<1>16. ob \in Object /\ ob.done = objs[Top.obj].done /\ Becomes(ob) /\ ob.props = both /\ ob.reserved = objs[Top.obj].reserved
  <2>1. objs[Top.obj] \in Object
    BY <1>2, TopFacts
  <2>2. ob \in Object /\ ob.done = objs[Top.obj].done /\ ob.type = objs[Top.obj].type /\ ob.props = both /\ ob.reserved = objs[Top.obj].reserved
    BY <1>15, <2>1 DEF Object
  <2>3. both = [Props EXCEPT ![Len(Props)] = e]
    BY <1>2, <1>10, <1>12, <1>13
  <2>4. SetProps(both)
    BY <1>1, <1>8, <1>9, <2>3 DEF SetLastProp
  <2>5. objs' = [objs EXCEPT ![Top.obj] = ob]
    BY <1>15, <2>4 DEF SetProps
  <2> QED
    BY <2>2, <2>5 DEF Becomes
<1>17. ASSUME NEW q \in Objects, IsPointer(both, q) PROVE propertiesMap[objs[q].type] = q
  <2>1. PICK T : T = Entry
    OBVIOUS
  <2>2. IsPointer(es, q) \/ \E j \in 1..Len(e.sprop) : q = e.sprop[j]
    <3>1. es \in Seq(T) /\ e \in T /\ IsPointer(Append(es, e), q)
      BY <1>10, <1>13, <1>17, <2>1
    <3> QED
      BY <3>1, PointersAppended
  <2>3. CASE IsPointer(es, q)
    BY <1>2, <1>12, <2>3
  <2>4. ASSUME NEW j \in 1..Len(e.sprop), q = e.sprop[j] PROVE propertiesMap[objs[q].type] = q
    <3>1. IsPointer(<<LastProp>>, q)
      <4>1. <<last>>[1] = last /\ 1 \in 1..Len(<<last>>)
        OBVIOUS
      <4> QED
        BY <1>8, <1>10, <2>4, <4>1 DEF IsPointer
    <3> QED
      BY <1>2, <3>1
  <2> QED
    BY <2>2, <2>3, <2>4
<1>18. ret' = Pending /\ Cur.kind # "embedded"
  BY <1>1, <1>2
<1> QED
  BY <1>1, <1>2, <1>7, <1>14, <1>16, <1>17, <1>18, NextFieldStep

-----------------------------------------------------------------------------
(* BuildInv is kept by every step, and holds in every initial state *)

LEMMA LockedStep ==
  ASSUME All, [Next]_vars, NEW p \in Procs, GetPropertiesLocked(p)
  PROVE  BuildInv'
<1>1. ASSUME ParseReservedFails(p) PROVE FALSE
  <2>1. PICK k : k = "reserved"
    OBVIOUS
  <2>2. AtField(k, FALSE) /\ ~Cur.ok
    BY <1>1, <2>1 DEF ParseReservedFails
  <2>3. ProgramInOrder /\ Cur.kind = k /\ Cur = decl[Top.type][Top.i] /\ Top.type \in Structs /\ Top.i \in 1..Len(decl[Top.type])
    BY <2>2, ClosedFacts
  <2> QED
    BY <2>1, <2>2, <2>3, DeclFacts
<1>2. ASSUME NumFieldPanics(p) PROVE FALSE
  <2>1. stack # <<>> /\ Top.type \in NonStructs
    BY <1>2 DEF NumFieldPanics
  <2> QED
    BY <2>1, TopFacts, TypesAssumption
<1> QED
  BY <1>1, <1>2, EnterCachedStep, EnterNewStep, NeededFailsStep, MergeEmbeddedStep, ParseReservedStep, SkipFieldStep,
     AppendEntryStep, ResolveTypeStep, InitFieldStep, InitFieldFailsStep, FinishStep, FinishFailsStep DEF GetPropertiesLocked

LEMMA CallersStep ==
  ASSUME All, [Next]_vars, UNCHANGED vars \/ \E p \in Procs : Callers(p)
  PROVE  BuildInv'
<1>0. IInv /\ ProgramInOrder /\ BuildInv /\ TypeOK /\ LockInv /\ QuietInv /\ RetInv
  BY DEF All, IInv, BuildInv
<1>1. UNCHANGED <<propertiesMap, objs, stack>> /\ ret' \in {ret, Pending}
  BY DEF Callers, Call, RLock, Lookup, RUnlock, AnnounceLock, Lock, Unlock, vars
<1>2. ASSUME ret' # Pending PROVE arg'[muWriter'] = arg[muWriter]
  <2>1. ret # Pending /\ ret' = ret
    BY <1>1, <1>2
  <2>2. PICK q \in Procs : pc[q] \in {"build", "panicked"}
    BY <1>0, <2>1 DEF QuietInv, NobodyBuilds
  <2>3. muWriter = q /\ q # NoProc
    BY <1>0, <2>2, ProcsAssumption DEF LockInv
  <2>4. CASE UNCHANGED vars
    BY <2>4 DEF vars
  <2>5. ASSUME NEW p \in Procs, Callers(p) PROVE arg'[muWriter'] = arg[muWriter]
    <3>1. CASE Call(p)
      <4>1. pc[p] = "idle" /\ muWriter' = muWriter /\ \E t \in Structs : arg' = [arg EXCEPT ![p] = t]
        BY <3>1 DEF Call
      <4>2. p # q
        BY <2>2, <4>1
      <4> QED
        BY <1>0, <2>3, <4>1, <4>2 DEF TypeOK
    <3>2. CASE AnnounceLock(p)
      BY <2>3, <3>2 DEF AnnounceLock
    <3>3. CASE RLock(p) \/ Lookup(p) \/ RUnlock(p) \/ Lock(p)
      BY <3>3 DEF RLock, Lookup, RUnlock, Lock
    <3>4. CASE Unlock(p)
      BY <1>2, <3>4 DEF Unlock
    <3> QED
      BY <2>5, <3>1, <3>2, <3>3, <3>4 DEF Callers
  <2> QED
    BY <2>4, <2>5
<1>3. RetInv'
  <2>1. \A f, t : Waits(f, t) => Waits(f, t)'
    BY <1>1, WaitsKept
  <2>2. ASSUME NEW t \in Structs, Wanted(t), ret' # Pending PROVE Wanted(t)'
    BY <1>1, <1>2, <2>1, <2>2 DEF Wanted, Top
  <2>3. \A t : Oracle!Valid(t)' = Oracle!Valid(t)
    BY Static
  <2> QED
    BY <1>0, <1>1, <2>2, <2>3 DEF RetInv, Cached
<1> QED
  BY <1>0, <1>1, <1>3, SameHeapStep

LEMMA BuildStep ==
  ASSUME All, [Next]_vars
  PROVE  BuildInv'
BY NextCases, CallersStep, LockedStep

LEMMA InitBuild ==
  ASSUME Init, InOrder(decl)
  PROVE  ProgramInOrder /\ CompleteInv /\ BuildInv
<1>1. ProgramInOrder
  BY DEF Init, ProgramInOrder
<1>2. ReservedParse(decl)
  BY DEF InOrder, ReservedParse
<1>3. /\ TimeType \in Structs
      /\ \A t \in Types : Cached(t) <=> t = TimeType
      /\ propertiesMap[TimeType] = 1
      /\ objs[1] = TimeObject /\ stack = <<>> /\ Objects = {1}
  <2>1. TimeType \in Structs /\ TimeType \in Types
    BY TypesAssumption DEF Types
  <2>2. 1..Len(<<TimeObject>>) = {1} /\ <<TimeObject>>[1] = TimeObject
    OBVIOUS
  <2> QED
    BY <2>1, <2>2 DEF Init, Cached, Nil, Objects
<1>4. CachedDone(TimeType) /\ objs[1].props = <<TimeEntry>> /\ objs[1].type = TimeType /\ objs[1].reserved = {}
  BY <1>3 DEF CachedDone, TimeObject, Types
<1>5. \A t \in Structs : CachedDone(t) <=> t = TimeType
  BY <1>3, <1>4 DEF CachedDone, Types
<1>6. Described(TimeType)
  <2>1. ShowsIn(objs, <<TimeEntry>>, Oracle!Leaves(TimeType))
    <3>1. Oracle!Leaves(TimeType) = {Oracle!TimeLeaf}
      BY <1>1, <1>3, LeavesAre
    <3>2. SeenEntry(TimeEntry) = Oracle!TimeLeaf
      <4>1. Len(TimeEntry.sprop) = 0 /\ TimeEntry.ready /\ TimeEntry.tag = 0 /\ TimeEntry.offset = <<>>
        BY DEF TimeEntry
      <4>2. [j \in 1..Len(TimeEntry.sprop) |-> objs[TimeEntry.sprop[j]].type] = <<>>
        BY <4>1
      <4> QED
        BY <4>1, <4>2 DEF SeenEntry, Oracle!TimeLeaf
    <3>3. Shows(<<TimeEntry>>, {SeenEntry(TimeEntry)})
      BY ShowsOne
    <3> QED
      BY <3>1, <3>2, <3>3, ShowsInIs
  <2>2. Ascending(<<TimeEntry>>)
    BY DEF Ascending
  <2>3. ~Oracle!Broken(TimeType)
    BY DEF Oracle!Broken
  <2>4. Oracle!At(TimeType, "embedded") = {}
    BY <1>1, TimeHasNoFields DEF Oracle!At
  <2> QED
    BY <1>3, <1>4, <2>1, <2>2, <2>3, <2>4 DEF Described
<1>7. ASSUME NEW q PROVE ~IsPointer(<<TimeEntry>>, q)
  <2>1. \A k \in 1..Len(<<TimeEntry>>) : <<TimeEntry>>[k] = TimeEntry
    OBVIOUS
  <2>2. Len(TimeEntry.sprop) = 0
    BY DEF TimeEntry
  <2> QED
    BY <2>1, <2>2 DEF IsPointer
<1>8. CacheInv
  BY <1>3, <1>4 DEF CacheInv
<1>9. DoneInv
  BY <1>5, <1>6 DEF DoneInv
<1>10. RisingInv /\ FramesInv /\ ChainInv /\ OlderInv /\ NewerInv
  <2>1. Len(stack) = 0
    BY <1>3
  <2> QED
    BY <2>1 DEF RisingInv, FramesInv, ChainInv, OlderInv, NewerInv
<1>11. RetInv
  BY DEF Init, RetInv
<1>12. CurrentInv
  BY <1>3, <1>4, <1>7 DEF CurrentInv, Types
<1>13. CompleteInv
  BY <1>2, <1>3, <1>4 DEF CompleteInv, IncompleteOnStack, CachedDone
<1> QED
  BY <1>1, <1>8, <1>9, <1>10, <1>11, <1>12, <1>13 DEF BuildInv

-----------------------------------------------------------------------------
(* What a caller sees of a description all of which is finished *)

PointersBy == [t \in Structs |-> Oracle!PointsTo(t)]
PointedBy  == [q \in Objects |-> PointedTo(q)]

\* the closure the oracle takes over the pointers
LEMMA PointsIs ==
  ASSUME ProgramInOrder, NEW t \in Structs
  PROVE  IsClosure(Structs, PointersBy, t, Oracle!Closure(t, Oracle!PointsTo))
<1>1. IsFiniteSet(Structs) /\ PointersBy \in [Structs -> SUBSET Structs]
  <2>1. \A u \in Structs : Oracle!PointsTo(u) \subseteq Structs
    BY PointersReach, ReachFacts
  <2> QED
    BY <2>1, TypesAssumption DEF PointersBy
<1> DEFINE N == Cardinality(Structs)
           Def(F) == F = [n \in Nat |-> IF n = 0 THEN {t}
                                        ELSE LET S == F[n - 1] IN S \cup UNION {Oracle!PointsTo(s) : s \in S}]
           G == CHOOSE F : Def(F)
<1>2. N \in Nat
  BY <1>1, FS_CardinalityType
<1>4. Oracle!Closure(t, Oracle!PointsTo) = G[N]
  <2>1. Oracle!Cardinality(Structs) = N
    BY DEF Oracle!Cardinality, Cardinality
  <2> QED
    BY <2>1 DEF Oracle!Closure
<1>5. \E F : Def(F)
  <2>1. PICK F : F = [n \in Nat |-> F[n]] /\ Rounds(PointersBy, t, F)
    BY <1>1, RoundsExist
  <2>2. \A n \in Nat : F[n] \in SUBSET Structs
    BY <1>1, <2>1, RoundsGrow
  <2>3. ASSUME NEW n \in Nat
        PROVE  F[n] = IF n = 0 THEN {t}
                      ELSE LET S == F[n - 1] IN S \cup UNION {Oracle!PointsTo(s) : s \in S}
    <3>1. CASE n = 0
      BY <2>1, <3>1 DEF Rounds
    <3>2. CASE n # 0
      <4>1. n - 1 \in Nat /\ (n - 1) + 1 = n
        BY <3>2
      <4>2. F[n] = F[n - 1] \cup UNION {PointersBy[s] : s \in F[n - 1]}
        BY <2>1, <4>1 DEF Rounds
      <4>3. {PointersBy[s] : s \in F[n - 1]} = {Oracle!PointsTo(s) : s \in F[n - 1]}
        BY <2>2, <4>1 DEF PointersBy
      <4> QED
        BY <3>2, <4>2, <4>3
    <3> QED
      BY <3>1, <3>2
  <2>4. Def(F)
    BY <2>1, <2>3
  <2> QED
    BY <2>4
<1>6. Def(G)
  BY <1>5
<1>7. Rounds(PointersBy, t, G)
  <2> HIDE DEF G
  <2>1. G[0] = {t}
    BY <1>6
  <2>2. ASSUME NEW n \in Nat PROVE G[n + 1] = G[n] \cup UNION {Oracle!PointsTo(s) : s \in G[n]}
    <3>1. n + 1 \in Nat /\ n + 1 # 0 /\ (n + 1) - 1 = n
      OBVIOUS
    <3> QED
      BY <1>6, <3>1
  <2>3. \A n \in Nat : G[n] \in SUBSET Structs
    <3> DEFINE S == {n \in Nat : G[n] \in SUBSET Structs}
    <3>1. 0 \in S
      BY <2>1
    <3>2. ASSUME NEW k \in Nat, k \in S PROVE k + 1 \in S
      <4>1. G[k] \in SUBSET Structs
        BY <3>2
      <4>2. \A s \in G[k] : Oracle!PointsTo(s) \subseteq Structs
        BY <4>1, <1>1 DEF PointersBy
      <4>3. G[k + 1] \in SUBSET Structs
        BY <2>2, <4>1, <4>2
      <4> QED
        BY <4>3
    <3> HIDE DEF S
    <3>3. Nat \subseteq S
      BY <3>1, <3>2, SetInduction
    <3> QED
      BY <3>3 DEF S
  <2>4. ASSUME NEW n \in Nat PROVE {PointersBy[s] : s \in G[n]} = {Oracle!PointsTo(s) : s \in G[n]}
    BY <2>3 DEF PointersBy
  <2> QED
    BY <2>1, <2>2, <2>4 DEF Rounds
<1> HIDE DEF G, N
<1>8. IsClosure(Structs, PointersBy, t, G[N])
  BY <1>1, <1>7, RoundsEnd DEF N
<1> QED
  BY <1>4, <1>8

\* what can be reached from a description
LEMMA ReachableIs ==
  ASSUME TypeOK, NEW o \in Objects
  PROVE  IsClosure(Objects, PointedBy, o, Reachable(o))
<1>1. IsFiniteSet(Objects) /\ PointedBy \in [Objects -> SUBSET Objects] /\ Cardinality(Objects) = Len(objs)
  <2>1. ASSUME NEW u \in Objects, NEW q \in PointedTo(u) PROVE q \in Objects
    <3>1. PICK k \in 1..Len(objs[u].props) : \E j \in 1..Len(objs[u].props[k].sprop) : q = objs[u].props[k].sprop[j]
      BY DEF PointedTo
    <3>2. PICK j \in 1..Len(objs[u].props[k].sprop) : q = objs[u].props[k].sprop[j]
      BY <3>1
    <3> QED
      BY <2>1, <3>2, EntriesOf
  <2>2. Len(objs) \in Nat
    BY DEF TypeOK
  <2>3. IsFiniteSet(1..Len(objs)) /\ Cardinality(1..Len(objs)) = Len(objs)
    <3>1. PICK n \in Nat : n = Len(objs)
      BY <2>2
    <3>2. 1 \in Int /\ n \in Int /\ (IF 1 > n THEN 0 ELSE n - 1 + 1) = n
      OBVIOUS
    <3>3. IsFiniteSet(1..n) /\ Cardinality(1..n) = n
      BY <3>2, FS_Interval
    <3> QED
      BY <3>1, <3>3
  <2> QED
    BY <2>1, <2>3 DEF PointedBy, Objects
<1> DEFINE N == Cardinality(Objects)
           Def(F) == F = [n \in Nat |-> IF n = 0 THEN {o}
                                        ELSE LET S == F[n - 1] IN S \cup UNION {PointedTo(q) : q \in S}]
           G == CHOOSE F : Def(F)
<1>2. N \in Nat
  BY <1>1, FS_CardinalityType
<1>4. Reachable(o) = G[N]
  BY <1>1 DEF Reachable
<1>5. \E F : Def(F)
  <2>1. PICK F : F = [n \in Nat |-> F[n]] /\ Rounds(PointedBy, o, F)
    BY <1>1, RoundsExist
  <2>2. \A n \in Nat : F[n] \in SUBSET Objects
    BY <1>1, <2>1, RoundsGrow
  <2>3. ASSUME NEW n \in Nat
        PROVE  F[n] = IF n = 0 THEN {o}
                      ELSE LET S == F[n - 1] IN S \cup UNION {PointedTo(q) : q \in S}
    <3>1. CASE n = 0
      BY <2>1, <3>1 DEF Rounds
    <3>2. CASE n # 0
      <4>1. n - 1 \in Nat /\ (n - 1) + 1 = n
        BY <3>2
      <4>2. F[n] = F[n - 1] \cup UNION {PointedBy[s] : s \in F[n - 1]}
        BY <2>1, <4>1 DEF Rounds
      <4>3. {PointedBy[s] : s \in F[n - 1]} = {PointedTo(s) : s \in F[n - 1]}
        BY <2>2, <4>1 DEF PointedBy
      <4> QED
        BY <3>2, <4>2, <4>3
    <3> QED
      BY <3>1, <3>2
  <2>4. Def(F)
    BY <2>1, <2>3
  <2> QED
    BY <2>4
<1>6. Def(G)
  BY <1>5
<1>7. Rounds(PointedBy, o, G)
  <2> HIDE DEF G
  <2>1. G[0] = {o}
    BY <1>6
  <2>2. ASSUME NEW n \in Nat PROVE G[n + 1] = G[n] \cup UNION {PointedTo(s) : s \in G[n]}
    <3>1. n + 1 \in Nat /\ n + 1 # 0 /\ (n + 1) - 1 = n
      OBVIOUS
    <3> QED
      BY <1>6, <3>1
  <2>3. \A n \in Nat : G[n] \in SUBSET Objects
    <3> DEFINE S == {n \in Nat : G[n] \in SUBSET Objects}
    <3>1. 0 \in S
      BY <2>1
    <3>2. ASSUME NEW k \in Nat, k \in S PROVE k + 1 \in S
      <4>1. G[k] \in SUBSET Objects
        BY <3>2
      <4>2. \A s \in G[k] : PointedTo(s) \subseteq Objects
        BY <4>1, <1>1 DEF PointedBy
      <4>3. G[k + 1] \in SUBSET Objects
        BY <2>2, <4>1, <4>2
      <4> QED
        BY <4>3
    <3> HIDE DEF S
    <3>3. Nat \subseteq S
      BY <3>1, <3>2, SetInduction
    <3> QED
      BY <3>3 DEF S
  <2>4. ASSUME NEW n \in Nat PROVE {PointedBy[s] : s \in G[n]} = {PointedTo(s) : s \in G[n]}
    BY <2>3 DEF PointedBy
  <2> QED
    BY <2>1, <2>2, <2>4 DEF Rounds
<1> HIDE DEF G, N
<1>8. IsClosure(Objects, PointedBy, o, G[N])
  BY <1>1, <1>7, RoundsEnd DEF N
<1> QED
  BY <1>4, <1>8

\* t and all it leads to are finished
Grounded(t) == \A u \in Oracle!Reach(t) : CachedDone(u)

\* what the map has for a finished type
LEMMA FinishedFacts ==
  ASSUME All, NEW t \in Structs, CachedDone(t)
  PROVE  /\ TypeOK /\ ProgramInOrder
         /\ propertiesMap[t] \in Objects /\ propertiesMap[t] # Nil
         /\ objs[propertiesMap[t]].type = t
         /\ objs[propertiesMap[t]].props \in Seq(Entry)
         /\ Described(t)
         /\ Shows(objs[propertiesMap[t]].props, Oracle!Leaves(t))
         /\ Oracle!Leaves(t) \subseteq Leaf
         /\ \A q \in Objects : IsPointer(objs[propertiesMap[t]].props, q) => propertiesMap[objs[q].type] = q
<1>1. TypeOK /\ ProgramInOrder /\ CacheInv /\ DoneInv /\ CurrentInv /\ t \in Types
  BY DEF All, IInv, BuildInv, Types
<1>2. Cached(t) /\ propertiesMap[t] \in Objects
  BY <1>1 DEF CachedDone, Cached, TypeOK
<1>3. Described(t)
  BY <1>1 DEF DoneInv
<1>4. objs[propertiesMap[t]].props \in Seq(Entry)
  BY <1>1, <1>2, EntriesOf
<1>5. Shows(objs[propertiesMap[t]].props, Oracle!Leaves(t))
  BY <1>3, ShowsInIs DEF Described
<1>6. Oracle!Leaves(t) \subseteq Leaf
  BY <1>1, LeavesAre
<1>7. \A q \in Objects : IsPointer(objs[propertiesMap[t]].props, q) => propertiesMap[objs[q].type] = q
  BY <1>1, <1>2 DEF CurrentInv
<1>8. objs[propertiesMap[t]].type = t /\ propertiesMap[t] # Nil
  BY <1>1, <1>2 DEF CacheInv, Cached
<1> QED
  BY <1>1, <1>2, <1>3, <1>4, <1>5, <1>6, <1>7, <1>8

\* the pointers of a finished description are those its leaves name
LEMMA PointersAre ==
  ASSUME All, NEW t \in Structs, CachedDone(t)
  PROVE  /\ \A q \in PointedTo(propertiesMap[t]) : /\ q \in Objects
                                                   /\ objs[q].type \in Oracle!PointsTo(t)
                                                   /\ propertiesMap[objs[q].type] = q
         /\ \A w \in Oracle!PointsTo(t) : propertiesMap[w] \in PointedTo(propertiesMap[t])
<1>1. PICK ps \in Seq(Entry) : ps = objs[propertiesMap[t]].props
  BY FinishedFacts
<1>2. PICK S \in SUBSET Leaf : S = Oracle!Leaves(t)
  BY FinishedFacts
<1>3. Shows(ps, S)
  BY <1>1, <1>2, FinishedFacts
<1>4. ASSUME NEW k \in 1..Len(ps), NEW j \in 1..Len(ps[k].sprop)
      PROVE  /\ ps[k].sprop[j] \in Objects
             /\ SeenEntry(ps[k]) \in S
             /\ j \in 1..Len(SeenEntry(ps[k]).to) /\ SeenEntry(ps[k]).to[j] = objs[ps[k].sprop[j]].type
             /\ propertiesMap[objs[ps[k].sprop[j]].type] = ps[k].sprop[j]
  <2>1. PICK e \in Entry : e = ps[k]
    OBVIOUS
  <2>2. e.sprop \in Seq(Objects)
    BY DEF Entry
  <2>3. SeenEntry(e) \in S
    BY <1>3, <2>1 DEF Shows
  <2>4. SeenEntry(e).to = [n \in 1..Len(e.sprop) |-> objs[e.sprop[n]].type]
    BY <2>3, SeenLeaf
  <2>5. j \in 1..Len(e.sprop) /\ e.sprop[j] \in Objects
    BY <2>1, <2>2
  <2>6. j \in 1..Len(SeenEntry(e).to) /\ SeenEntry(e).to[j] = objs[e.sprop[j]].type
    <3>1. PICK m \in Nat : m = Len(e.sprop)
      BY <2>2
    <3>2. Len([n \in 1..m |-> objs[e.sprop[n]].type]) = m
      OBVIOUS
    <3> QED
      BY <2>4, <2>5, <3>1, <3>2
  <2>7. IsPointer(ps, e.sprop[j])
    BY <2>1 DEF IsPointer
  <2>8. propertiesMap[objs[e.sprop[j]].type] = e.sprop[j]
    BY <1>1, <2>5, <2>7, FinishedFacts
  <2> QED
    BY <2>1, <2>3, <2>5, <2>6, <2>8
<1>5. ASSUME NEW q \in PointedTo(propertiesMap[t])
      PROVE  q \in Objects /\ objs[q].type \in Oracle!PointsTo(t) /\ propertiesMap[objs[q].type] = q
  <2>1. PICK k \in 1..Len(ps) : q \in {ps[k].sprop[j] : j \in 1..Len(ps[k].sprop)}
    BY <1>1 DEF PointedTo
  <2>2. PICK j \in 1..Len(ps[k].sprop) : q = ps[k].sprop[j]
    BY <2>1
  <2>3. PICK e : e = SeenEntry(ps[k])
    OBVIOUS
  <2>4. e \in Oracle!Leaves(t) /\ j \in 1..Len(e.to) /\ e.to[j] = objs[q].type
    BY <1>2, <1>4, <2>2, <2>3
  <2>5. objs[q].type \in Oracle!PointsTo(t)
    BY <2>4 DEF Oracle!PointsTo
  <2> QED
    BY <1>4, <2>2, <2>5
<1>6. ASSUME NEW w \in Oracle!PointsTo(t) PROVE propertiesMap[w] \in PointedTo(propertiesMap[t])
  <2>1. PICK e \in S : w \in {e.to[j] : j \in 1..Len(e.to)}
    BY <1>2 DEF Oracle!PointsTo
  <2>2. PICK k \in 1..Len(ps) : SeenEntry(ps[k]) = e
    BY <1>3 DEF Shows
  <2>3. PICK j \in 1..Len(e.to) : w = e.to[j]
    BY <2>1
  <2>4. e.to = [n \in 1..Len(ps[k].sprop) |-> objs[ps[k].sprop[n]].type]
    BY <2>2, SeenLeaf
  <2>5. j \in 1..Len(ps[k].sprop)
    <3>1. PICK f \in Entry : f = ps[k]
      OBVIOUS
    <3>2. f.sprop \in Seq(Objects)
      BY DEF Entry
    <3>3. PICK m \in Nat : m = Len(f.sprop)
      BY <3>2
    <3>4. Len([n \in 1..m |-> objs[ps[k].sprop[n]].type]) = m
      OBVIOUS
    <3> QED
      BY <2>3, <2>4, <3>1, <3>3, <3>4
  <2>6. propertiesMap[w] = ps[k].sprop[j]
    BY <1>4, <2>2, <2>3, <2>5
  <2> QED
    BY <1>1, <2>5, <2>6 DEF PointedTo
<1> QED
  BY <1>5, <1>6

LEMMA SeenIsDescription ==
  ASSUME All, NEW t \in Structs, CachedDone(t)
  PROVE  Seen(propertiesMap[t]) = Oracle!Description(t)
<1>1. PICK ps \in Seq(Entry) : ps = objs[propertiesMap[t]].props
  BY FinishedFacts
<1>2. PICK S \in SUBSET Leaf : S = Oracle!Leaves(t)
  BY FinishedFacts
<1>3. Shows(ps, S) /\ Ascending(ps) /\ objs[propertiesMap[t]].type = t
      /\ objs[propertiesMap[t]].reserved = (IF t = TimeType THEN {} ELSE Oracle!ReservedBy(t))
  BY <1>1, <1>2, FinishedFacts DEF Described
<1>4. [k \in 1..Len(ps) |-> SeenEntry(ps[k])] = Oracle!InTagOrder(S)
  BY <1>3, InTagOrderIs
<1> QED
  BY <1>1, <1>2, <1>3, <1>4 DEF Seen, Oracle!Description

\* a goroutine that has all of a description sees what the oracle says
LEMMA ViewIsDescribe ==
  ASSUME All, NEW t \in Structs, Grounded(t)
  PROVE  /\ Oracle!Valid(t)
         /\ View(propertiesMap[t]) = Oracle!Describe(t)
<1>0. ProgramInOrder /\ TypeOK
  BY DEF All, IInv
<1>1. PICK R : R = Oracle!Reach(t)
  OBVIOUS
<1>2. t \in R /\ R \subseteq Structs /\ \A u \in R : CachedDone(u)
  BY <1>0, <1>1, ReachFacts DEF Grounded
<1>3. Oracle!Valid(t)
  <2>1. \A u \in R : Described(u)
    BY <1>2, FinishedFacts
  <2> QED
    BY <1>1, <2>1 DEF Oracle!Valid, Described
<1>4. PICK K : K = Oracle!Closure(t, Oracle!PointsTo)
  OBVIOUS
<1>5. IsClosure(Structs, PointersBy, t, K)
  BY <1>0, <1>4, PointsIs
<1>6. K \subseteq R
  <2>1. \A u \in R : PointersBy[u] \subseteq R
    BY <1>0, <1>1, <1>2, PointersReach, ReachFacts DEF PointersBy
  <2>2. R \in SUBSET Structs
    BY <1>2
  <2> QED
    BY <1>2, <1>5, <2>1, <2>2 DEF IsClosure
<1>7. PICK o \in Objects : o = propertiesMap[t]
  BY <1>2, FinishedFacts
<1>8. PICK L : L = Reachable(o)
  OBVIOUS
<1>9. IsClosure(Objects, PointedBy, o, L)
  BY <1>0, <1>8, ReachableIs
<1>10. \A u \in K : u \in Structs /\ CachedDone(u) /\ propertiesMap[u] \in Objects
  BY <1>2, <1>6, FinishedFacts
<1>11. L \subseteq {propertiesMap[u] : u \in K}
  <2> DEFINE A == {propertiesMap[u] : u \in K}
  <2>1. A \in SUBSET Objects
    BY <1>10
  <2>2. o \in A
    BY <1>5, <1>7 DEF IsClosure
  <2>3. ASSUME NEW q \in A PROVE PointedBy[q] \subseteq A
    <3>1. PICK u \in K : q = propertiesMap[u]
      OBVIOUS
    <3>2. u \in Structs /\ CachedDone(u) /\ q \in Objects
      BY <1>10, <3>1
    <3>3. ASSUME NEW r \in PointedTo(q) PROVE r \in A
      <4>1. objs[r].type \in Oracle!PointsTo(u) /\ propertiesMap[objs[r].type] = r
        BY <3>1, <3>2, PointersAre
      <4>2. objs[r].type \in K
        BY <1>5, <3>2, <4>1 DEF IsClosure, PointersBy
      <4> QED
        BY <4>1, <4>2
    <3> QED
      BY <3>2, <3>3 DEF PointedBy
  <2>4. L \subseteq A
    <3> HIDE DEF A
    <3> QED
      BY <1>9, <2>1, <2>2, <2>3 DEF IsClosure
  <2> QED
    BY <2>4
<1>12. \A u \in K : propertiesMap[u] \in L
  <2> DEFINE B == {u \in K : propertiesMap[u] \in L}
  <2>1. B \in SUBSET Structs
    BY <1>10
  <2>2. t \in B
    BY <1>5, <1>7, <1>9 DEF IsClosure
  <2>3. ASSUME NEW u \in B PROVE PointersBy[u] \subseteq B
    <3>1. u \in K /\ u \in Structs /\ CachedDone(u) /\ propertiesMap[u] \in Objects /\ propertiesMap[u] \in L
      BY <1>10
    <3>2. ASSUME NEW w \in Oracle!PointsTo(u) PROVE w \in B
      <4>1. w \in K
        BY <1>5, <3>1 DEF IsClosure, PointersBy
      <4>2. propertiesMap[w] \in PointedTo(propertiesMap[u])
        BY <3>1, PointersAre
      <4>3. propertiesMap[w] \in L
        BY <1>9, <3>1, <4>2 DEF IsClosure, PointedBy
      <4> QED
        BY <4>1, <4>3
    <3> QED
      BY <3>1, <3>2 DEF PointersBy
  <2>4. K \subseteq B
    <3> HIDE DEF B
    <3> QED
      BY <1>5, <2>1, <2>2, <2>3 DEF IsClosure
  <2> QED
    BY <2>4
<1>13. {Seen(q) : q \in L} = {Oracle!Description(u) : u \in K}
  <2>1. \A u \in K : Seen(propertiesMap[u]) = Oracle!Description(u)
    BY <1>10, SeenIsDescription
  <2> QED
    BY <1>11, <1>12, <2>1
<1>14. o # Nil
  BY <1>7, <1>2, FinishedFacts
<1> QED
  BY <1>3, <1>4, <1>7, <1>8, <1>13, <1>14 DEF View, Oracle!Describe

-----------------------------------------------------------------------------
(* Whoever has an answer has all of it *)

GroundedInv ==
  \A p \in Procs : (pc[p] \in {"idle", "runlock"} /\ res[p] # Nil) => \A t \in {arg[p]} : Grounded(t)

\* when nothing is under construction, all that is in the map is grounded
LEMMA QuietGrounded ==
  ASSUME All, stack = <<>>, NEW t \in Structs, Cached(t)
  PROVE  Grounded(t)
<1>0. TypeOK /\ ProgramInOrder /\ IncompleteOnStack
  BY DEF All, IInv, CompleteInv
<1>1. ASSUME NEW u \in Structs, Cached(u) PROVE CachedDone(u)
  BY <1>0, <1>1 DEF IncompleteOnStack, CachedDone, Types
<1>2. ASSUME NEW u \in Structs, Cached(u), NEW w \in Oracle!Mentions(u) PROVE w \in Structs /\ Cached(w)
  <2>1. PICK i \in 1..Len(decl[u]), j \in Nat : j \in 1..Len(decl[u][i].to) /\ w = decl[u][i].to[j]
    <3>1. PICK i \in 1..Len(decl[u]) : \E j \in 1..Len(decl[u][i].to) : w = decl[u][i].to[j]
      BY <1>0, <1>2, MentionsAre
    <3> QED
      BY <3>1
  <2>2. w \in Structs /\ decl[u][i] \in FieldDecl
    BY <1>0, <2>1, DeclFacts
  <2>3. CachedDone(u) /\ u # TimeType
    BY <1>0, <1>1, <1>2, TimeHasNoFields
  <2>4. decl[u][i].kind \in {"embedded", "field"}
    <3>1. decl[u][i].kind \notin {"reserved", "skip"}
      <4>1. decl[u][i].to # <<>>
        BY <2>1
      <4> QED
        BY <1>0, <4>1, DeclFacts
    <3> QED
      BY <2>2, <3>1 DEF FieldDecl
  <2>5. CASE decl[u][i].kind = "embedded"
    <3>1. Len(decl[u][i].to) = 1
      BY <1>0, <2>5, DeclFacts
    <3>2. j = 1
      BY <2>1, <3>1
    <3>3. i \in Oracle!At(u, "embedded")
      BY <2>5 DEF Oracle!At
    <3>4. CachedDone(decl[u][i].to[1])
      BY <2>3, <3>3, FinishedFacts DEF Described
    <3> QED
      BY <2>1, <2>2, <3>2, <3>4 DEF CachedDone, Cached
  <2>6. CASE decl[u][i].kind = "field"
    <3>1. Oracle!OwnLeaf(u, i) \in Oracle!Leaves(u)
      <4>1. Oracle!Leaves(u) = UNION {FieldLeaves(u, n) : n \in 1..Len(decl[u])}
        BY <1>0, <2>3, LeavesAre
      <4> QED
        BY <2>6, <4>1 DEF FieldLeaves
    <3>2. Oracle!OwnLeaf(u, i).to = decl[u][i].to
      BY DEF Oracle!OwnLeaf
    <3>3. PICK e \in Oracle!Leaves(u) : e.to = decl[u][i].to
      BY <3>1, <3>2
    <3>4. w \in Oracle!PointsTo(u)
      BY <2>1, <3>3 DEF Oracle!PointsTo
    <3>5. propertiesMap[w] \in PointedTo(propertiesMap[u])
      BY <2>3, <3>4, PointersAre
    <3>6. propertiesMap[w] \in Objects
      BY <2>3, <3>5, PointersAre
    <3> QED
      BY <2>2, <3>6 DEF Cached, Objects, Nil
  <2> QED
    BY <2>4, <2>5, <2>6
<1>3. PICK C \in SUBSET Structs : C = {u \in Structs : Cached(u)}
  OBVIOUS
<1>4. Oracle!Reach(t) \subseteq C
  <2>1. \A u \in C : MentionedBy[u] \subseteq C
    BY <1>2, <1>3 DEF MentionedBy
  <2>2. t \in C
    BY <1>3
  <2> QED
    BY <1>0, <2>1, <2>2, ReachIs DEF IsClosure
<1> QED
  BY <1>1, <1>3, <1>4 DEF Grounded

LEMMA GroundedKept ==
  ASSUME All, [Next]_vars, NEW t \in Structs, Grounded(t)
  PROVE  Grounded(t)'
<1>1. IInv /\ ProgramInOrder
  BY DEF All
<1>2. PICK R : R = Oracle!Reach(t)
  OBVIOUS
<1>3. R \subseteq Structs
  BY <1>1, <1>2, ReachFacts
<1>4. ASSUME NEW u \in R PROVE CachedDone(u)'
  <2>1. u \in Structs /\ CachedDone(u)
    BY <1>2, <1>3 DEF Grounded
  <2> QED
    BY <1>1, <2>1, DoneKept
<1>5. Oracle!Reach(t)' = R
  BY <1>2, Static
<1> QED
  BY <1>4, <1>5 DEF Grounded

\* where an answer comes from: it was there, or it is taken from the map at rest
Kept(q)  == pc[q] \in {"idle", "runlock"} /\ res'[q] = res[q]
Taken(q) == stack = <<>> /\ propertiesMap[arg[q]] = res'[q]

LEMMA NewAnswers ==
  ASSUME All, AnswerInv, [Next]_vars, NEW q \in Procs, pc'[q] \in {"idle", "runlock"}, res'[q] # Nil
  PROVE  /\ arg'[q] = arg[q]
         /\ Kept(q) \/ Taken(q)
<1>0. TypeOK /\ LockInv /\ QuietInv /\ CallInv
  BY DEF All, IInv
<1>1. CASE UNCHANGED vars
  BY <1>1 DEF vars, Kept
<1>2. ASSUME NEW p \in Procs, Lookup(p)
      PROVE  arg'[q] = arg[q] /\ (Kept(q) \/ Taken(q))
  <2>1. stack = <<>>
    BY <1>0, <1>2 DEF Lookup, LockInv, NobodyBuilds, QuietInv
  <2> QED
    BY <1>0, <1>2, <2>1 DEF Lookup, Goto, TypeOK, Kept, Taken
<1>3. ASSUME NEW p \in Procs, Unlock(p)
      PROVE  arg'[q] = arg[q] /\ (Kept(q) \/ Taken(q))
  <2>1. /\ stack = <<>> /\ muWriter = p /\ ret # Pending /\ pc[p] = "build"
        /\ UNCHANGED arg /\ res' = [res EXCEPT ![p] = ret.obj] /\ pc' = [pc EXCEPT ![p] = "idle"]
    BY <1>0, <1>3 DEF Unlock, LockInv, Goto
  <2>2. CASE q = p
    <3>1. res'[q] = ret.obj
      BY <1>0, <2>1, <2>2 DEF TypeOK
    <3>2. ret # Error
      BY <3>1, AnswersAreAnswers DEF Error
    <3> QED
      BY <1>0, <2>1, <2>2, <3>1, <3>2 DEF CallInv, Taken
  <2>3. CASE q # p
    BY <1>0, <2>1, <2>3 DEF TypeOK, Kept
  <2> QED
    BY <2>2, <2>3
<1>4. ASSUME NEW p \in Procs, Call(p)
      PROVE  arg'[q] = arg[q] /\ Kept(q)
  <2>1. q # p
    BY <1>0, <1>4 DEF Call, TypeOK
  <2> QED
    BY <1>0, <1>4, <2>1 DEF Call, Goto, TypeOK, Kept
<1>5. ASSUME NEW p \in Procs, RLock(p) \/ RUnlock(p) \/ AnnounceLock(p) \/ Lock(p)
      PROVE  arg'[q] = arg[q] /\ Kept(q)
  BY <1>0, <1>5 DEF RLock, RUnlock, AnnounceLock, Lock, Goto, TypeOK, Kept
<1>6. ASSUME NEW p \in Procs, GetPropertiesLocked(p)
      PROVE  arg'[q] = arg[q] /\ Kept(q)
  <2>1. UNCHANGED Locked /\ Effect(p)
    BY <1>6, Effects DEF All
  <2>2. UNCHANGED <<arg, res>>
    BY <2>1 DEF Locked
  <2>3. pc'[q] \in {"idle", "runlock"} => pc[q] \in {"idle", "runlock"}
    BY <1>0, <2>1 DEF Effect, Hit, Push, Work, Forget, Keep, Complete, Panic, Goto, TypeOK
  <2> QED
    BY <2>2, <2>3 DEF Kept
<1> QED
  BY <1>1, <1>2, <1>3, <1>4, <1>5, <1>6, NextCases DEF Callers

LEMMA GroundedStep ==
  ASSUME All, AnswerInv, GroundedInv, [Next]_vars
  PROVE  GroundedInv'
<1>1. ASSUME NEW q \in Procs, pc'[q] \in {"idle", "runlock"}, res'[q] # Nil
      PROVE  \A t \in {arg'[q]} : Grounded(t)'
  <2>1. PICK t \in Structs : t = arg[q]
    BY DEF All, IInv, TypeOK
  <2>2. arg'[q] = t
    BY <1>1, <2>1, NewAnswers
  <2>3. Grounded(t)
    <3>1. CASE Kept(q)
      BY <1>1, <2>1, <3>1 DEF GroundedInv, Kept
    <3>2. CASE Taken(q)
      BY <1>1, <2>1, <3>2, QuietGrounded DEF Cached, Taken
    <3> QED
      BY <1>1, <3>1, <3>2, NewAnswers
  <2>4. Grounded(t)'
    BY <2>3, GroundedKept
  <2> QED
    BY <2>2, <2>4
<1> QED
  BY <1>1 DEF GroundedInv

-----------------------------------------------------------------------------
(* PropertiesCache implements PropertiesOracle *)

RInv == All /\ AnswerInv /\ GroundedInv

LEMMA InitRInv ==
  ASSUME Init, InOrder(decl)
  PROVE  RInv
<1>1. ProgramInOrder /\ CompleteInv /\ BuildInv
  BY InitBuild
<1>2. IInv
  BY InitIInv
<1>3. AnswerInv /\ GroundedInv
  BY DEF Init, AnswerInv, GroundedInv
<1> QED
  BY <1>1, <1>2, <1>3 DEF RInv, All

LEMMA RInvStep ==
  ASSUME RInv, [Next]_vars
  PROVE  RInv'
<1>1. All /\ AnswerInv /\ GroundedInv /\ IInv /\ CompleteInv /\ ProgramInOrder
  BY DEF RInv, All
<1>2. IInv'
  BY <1>1, Inductive
<1>3. CompleteInv' /\ AnswerInv'
  BY <1>1, CompleteStep, AnswerStep
<1>4. ProgramInOrder'
  BY <1>1, Static
<1>5. BuildInv'
  BY <1>1, BuildStep
<1>6. GroundedInv'
  BY <1>1, GroundedStep
<1> QED
  BY <1>2, <1>3, <1>4, <1>5, <1>6 DEF RInv, All

\* the oracle's variable, as PropertiesRefinement maps it
CallMapped == [p \in Procs |-> [waiting |-> pc[p] # "idle",
                                 type    |-> arg[p],
                                 answer  |-> IF pc[p] = "idle" THEN View(res[p]) ELSE {}]]

\* the same by what the answers are
CallMeant == [p \in Procs |-> [waiting |-> pc[p] # "idle",
                                type    |-> arg[p],
                                answer  |-> IF pc[p] = "idle" /\ res[p] # Nil THEN Oracle!Describe(arg[p]) ELSE {}]]

LEMMA AnswersAreDescriptions ==
  RInv => CallMapped = CallMeant
<1> SUFFICES ASSUME RInv PROVE CallMapped = CallMeant
  OBVIOUS
<1>0. All /\ AnswerInv /\ GroundedInv
  BY DEF RInv
<1>1. ASSUME NEW p \in Procs, pc[p] = "idle", res[p] # Nil PROVE View(res[p]) = Oracle!Describe(arg[p])
  <2>1. PICK t \in Structs : t = arg[p]
    BY <1>0 DEF All, IInv, TypeOK
  <2>2. Grounded(t)
    BY <1>0, <1>1, <2>1 DEF GroundedInv
  <2>3. propertiesMap[t] = res[p]
    BY <1>0, <1>1, <2>1 DEF AnswerInv
  <2> QED
    BY <1>0, <2>1, <2>2, <2>3, ViewIsDescribe
<1>2. ASSUME NEW p \in Procs, pc[p] = "idle", res[p] = Nil PROVE View(res[p]) = {}
  BY <1>2 DEF View
<1> QED
  BY <1>1, <1>2 DEF CallMapped, CallMeant

\* a call that returned an error asked for a type that has one
LEMMA ErrorsAreErrors ==
  ASSUME RInv, NEW p \in Procs, Unlock(p), ret.obj = Nil
  PROVE  Oracle!Describe(arg[p]) = {}
<1>1. TypeOK /\ LockInv /\ RetInv
  BY DEF RInv, All, IInv, BuildInv
<1>2. stack = <<>> /\ ret # Pending /\ muWriter = p
  BY <1>1 DEF Unlock, LockInv
<1>3. PICK t \in Structs : Wanted(t) /\ ((ret = Error /\ ~Oracle!Valid(t)) \/ (Cached(t) /\ ret = Answer(propertiesMap[t])))
  BY <1>1, <1>2 DEF RetInv
<1>4. t = arg[p]
  BY <1>2, <1>3 DEF Wanted
<1>5. ~Oracle!Valid(t)
  BY <1>3, AnswersAreAnswers DEF Cached
<1> QED
  BY <1>4, <1>5 DEF Oracle!Describe, Oracle!Failure

Asks(p) ==
  /\ pc[p] = "idle"
  /\ \E t \in Structs : CallMeant' = [CallMeant EXCEPT ![p] = [waiting |-> TRUE, type |-> t, answer |-> {}]]

Replies(p) ==
  /\ pc[p] # "idle"
  /\ CallMeant' = [CallMeant EXCEPT ![p].waiting = FALSE, ![p].answer = Oracle!Describe(arg[p])]

LEMMA MeantStep ==
  ASSUME RInv, [Next]_vars
  PROVE  CallMeant' = CallMeant \/ \E p \in Procs : Asks(p) \/ Replies(p)
<1>0. TypeOK /\ IInv
  BY DEF RInv, All, IInv
<1>1. \A t : Oracle!Describe(t)' = Oracle!Describe(t)
  BY Static
<1> DEFINE Before(q) == [waiting |-> pc[q] # "idle",
                        type    |-> arg[q],
                        answer  |-> IF pc[q] = "idle" /\ res[q] # Nil THEN Oracle!Describe(arg[q]) ELSE {}]
           After(q) == [waiting |-> pc'[q] # "idle",
                        type    |-> arg'[q],
                        answer  |-> IF pc'[q] = "idle" /\ res'[q] # Nil THEN Oracle!Describe(arg'[q]) ELSE {}]
<1>2. CallMeant = [q \in Procs |-> Before(q)]
  BY DEF CallMeant
<1>3. CallMeant' = [q \in Procs |-> After(q)]
  BY <1>1 DEF CallMeant
<1>4. ASSUME NEW q \in Procs, pc'[q] = pc[q], arg'[q] = arg[q], res'[q] = res[q]
      PROVE  After(q) = Before(q)
  BY <1>4
<1>5. ASSUME NEW q \in Procs, pc[q] # "idle", pc'[q] # "idle", arg'[q] = arg[q]
      PROVE  After(q) = Before(q)
  BY <1>5
<1>6. CASE UNCHANGED vars
  BY <1>2, <1>3, <1>6 DEF vars
<1>7. ASSUME NEW p \in Procs, GetPropertiesLocked(p)
      PROVE  CallMeant' = CallMeant
  <2>1. UNCHANGED Locked /\ Effect(p) /\ Building(p)
    BY <1>0, <1>7, Effects
  <2>2. UNCHANGED <<arg, res>>
    BY <2>1 DEF Locked
  <2>3. \A q \in Procs : pc'[q] = pc[q] \/ (pc[q] # "idle" /\ pc'[q] # "idle")
    BY <1>0, <2>1 DEF Effect, Hit, Push, Work, Forget, Keep, Complete, Panic, Goto, TypeOK, Building
  <2>4. \A q \in Procs : After(q) = Before(q)
    BY <1>4, <1>5, <2>2, <2>3
  <2> HIDE DEF After, Before
  <2> QED
    BY <1>2, <1>3, <2>4
<1>8. ASSUME NEW p \in Procs, RLock(p) \/ Lookup(p) \/ AnnounceLock(p) \/ Lock(p) \/ (RUnlock(p) /\ res[p] = Nil)
      PROVE  CallMeant' = CallMeant
  <2>1. \A q \in Procs : arg'[q] = arg[q] /\ \/ pc'[q] = pc[q] /\ res'[q] = res[q]
                                             \/ pc[q] # "idle" /\ pc'[q] # "idle"
    BY <1>0, <1>8 DEF RLock, Lookup, AnnounceLock, Lock, RUnlock, Goto, TypeOK
  <2>2. \A q \in Procs : After(q) = Before(q)
    BY <1>4, <1>5, <2>1
  <2> HIDE DEF After, Before
  <2> QED
    BY <1>2, <1>3, <2>2
<1>9. ASSUME NEW p \in Procs, Call(p)
      PROVE  Asks(p)
  <2>1. PICK t \in Structs : arg' = [arg EXCEPT ![p] = t]
    BY <1>9 DEF Call
  <2>2. pc[p] = "idle" /\ pc' = [pc EXCEPT ![p] = "rlock"] /\ res' = [res EXCEPT ![p] = Nil]
    BY <1>9 DEF Call, Goto
  <2>3. After(p) = [waiting |-> TRUE, type |-> t, answer |-> {}]
    BY <1>0, <2>1, <2>2 DEF TypeOK
  <2>4. \A q \in Procs : q # p => After(q) = Before(q)
    BY <1>0, <1>4, <2>1, <2>2 DEF TypeOK
  <2> HIDE DEF After, Before
  <2>5. CallMeant' = [CallMeant EXCEPT ![p] = [waiting |-> TRUE, type |-> t, answer |-> {}]]
    BY <1>2, <1>3, <2>3, <2>4
  <2> QED
    BY <2>2, <2>5 DEF Asks
<1>10. ASSUME NEW p \in Procs, (RUnlock(p) /\ res[p] # Nil) \/ Unlock(p)
       PROVE  Replies(p)
  <2>1. PICK D : D = Oracle!Describe(arg[p])
    OBVIOUS
  <2>2. pc[p] # "idle" /\ pc' = [pc EXCEPT ![p] = "idle"] /\ UNCHANGED arg /\ \A q \in Procs : q # p => res'[q] = res[q]
    BY <1>0, <1>10 DEF RUnlock, Unlock, Goto, TypeOK
  <2>3. res'[p] = Nil => D = {}
    <3>1. CASE RUnlock(p) /\ res[p] # Nil
      BY <1>10, <3>1 DEF RUnlock
    <3>2. CASE Unlock(p)
      <4>1. res'[p] = ret.obj
        BY <1>0, <3>2 DEF Unlock, TypeOK
      <4> QED
        BY <2>1, <3>2, <4>1, ErrorsAreErrors
    <3> QED
      BY <1>10, <3>1, <3>2
  <2>4. After(p) = [waiting |-> FALSE, type |-> arg[p], answer |-> D]
    <3>1. pc'[p] = "idle"
      BY <1>0, <2>2 DEF TypeOK
    <3> QED
      BY <2>1, <2>2, <2>3, <3>1
  <2>5. \A q \in Procs : q # p => After(q) = Before(q)
    BY <1>0, <1>4, <2>2 DEF TypeOK
  <2>6. After(p) = [Before(p) EXCEPT !.waiting = FALSE, !.answer = D]
    <3>1. PICK w \in BOOLEAN : \E a : Before(p) = [waiting |-> w, type |-> arg[p], answer |-> a]
      BY DEF Before
    <3>2. PICK a : Before(p) = [waiting |-> w, type |-> arg[p], answer |-> a]
      BY <3>1
    <3>3. PICK r : r = Before(p)
      OBVIOUS
    <3>4. r \in [waiting : BOOLEAN, type : {arg[p]}, answer : {a, D}] /\ r.type = arg[p]
      BY <3>2, <3>3
    <3>5. [r EXCEPT !.waiting = FALSE, !.answer = D] = [waiting |-> FALSE, type |-> r.type, answer |-> D]
      <4>1. PICK W, T, A : W = BOOLEAN /\ T = {arg[p]} /\ A = {a, D}
        OBVIOUS
      <4>2. PICK no : no = FALSE
        OBVIOUS
      <4>3. r \in [waiting : W, type : T, answer : A] /\ no \in W /\ D \in A
        BY <3>4, <4>1, <4>2
      <4>4. [r EXCEPT !.waiting = no, !.answer = D] = [waiting |-> no, type |-> r.type, answer |-> D]
        <5>1. PICK s : s = [r EXCEPT !.waiting = no]
          OBVIOUS
        <5>2. s \in [waiting : W, type : T, answer : A] /\ s.waiting = no /\ s.type = r.type
          BY <4>3, <5>1
        <5>3. [s EXCEPT !.answer = D] = [waiting |-> s.waiting, type |-> s.type, answer |-> D]
          BY <4>3, <5>2
        <5> QED
          BY <5>1, <5>2, <5>3
      <4> QED
        BY <4>2, <4>4
    <3> HIDE DEF After, Before
    <3> QED
      BY <2>4, <3>3, <3>4, <3>5
  <2> HIDE DEF After, Before
  <2>7. CallMeant' = [CallMeant EXCEPT ![p].waiting = FALSE, ![p].answer = D]
    BY <1>2, <1>3, <2>5, <2>6
  <2> QED
    BY <2>1, <2>2, <2>7 DEF Replies
<1> QED
  BY <1>6, <1>7, <1>8, <1>9, <1>10, NextCases DEF Callers

LEMMA InitMapped ==
  ASSUME Init
  PROVE  Oracle!Init
BY DEF Init, Oracle!Init, Oracle!Failure, View

LEMMA OracleStep ==
  ASSUME RInv, [Next]_vars, RInv'
  PROVE  [Oracle!Next]_<<decl, CallMapped>>
<1>1. CallMapped = CallMeant
  BY AnswersAreDescriptions
<1>2. CallMapped' = CallMeant'
  <2>1. RInv => CallMapped = CallMeant
    BY AnswersAreDescriptions
  <2>2. (RInv => CallMapped = CallMeant)'
    BY AnswersAreDescriptions, PTL
  <2> QED
    BY <2>2
<1>3. decl' = decl
  BY Static
<1>4. ASSUME NEW p \in Procs, Asks(p) PROVE Oracle!Ask(p)
  <2>1. CallMapped[p].waiting = FALSE
    BY <1>4 DEF Asks, CallMapped
  <2>2. \E t \in Structs : CallMapped' = [CallMapped EXCEPT ![p] = [waiting |-> TRUE, type |-> t, answer |-> {}]]
    BY <1>1, <1>2, <1>4 DEF Asks
  <2> QED
    BY <1>3, <2>1, <2>2 DEF Oracle!Ask, Oracle!Failure, CallMapped
<1>5. ASSUME NEW p \in Procs, Replies(p) PROVE Oracle!Reply(p)
  <2>1. CallMapped[p].waiting /\ CallMapped[p].type = arg[p]
    BY <1>5 DEF Replies, CallMapped
  <2>2. CallMapped' = [CallMapped EXCEPT ![p].waiting = FALSE, ![p].answer = Oracle!Describe(CallMapped[p].type)]
    BY <1>1, <1>2, <1>5, <2>1 DEF Replies
  <2> QED
    BY <1>3, <2>1, <2>2 DEF Oracle!Reply, CallMapped
<1> QED
  BY <1>1, <1>2, <1>3, <1>4, <1>5, MeantStep DEF Oracle!Next

\* In a program that is in order (CyclesInOrder, NoCycleEmbeds, every Reserved field
\* parses and every type a field leads to is a struct type), GetProperties gives every
\* goroutine the answer its declarations define: the description of the type with all it
\* leads to, or an error when one of them has one.
THEOREM Refinement ==
  ASSUME \A d \in TypeGraphs : InOrder(d)
  PROVE  Spec => Safe
<1>1. Init => RInv
  BY InitRInv DEF Init
<1>2. RInv /\ [Next]_vars => RInv'
  BY RInvStep
<1>3. Init => Oracle!Init
  BY InitMapped
<1>4. RInv /\ [Next]_vars /\ RInv' => [Oracle!Next]_<<decl, CallMapped>>
  BY OracleStep
<1> QED
  BY <1>1, <1>2, <1>3, <1>4, PTL DEF Spec, Safe, Oracle!SafeSpec, CallMapped
=============================================================================
