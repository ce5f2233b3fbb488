------------------------- MODULE PropertiesRefinement -------------------------
(***************************************************************************)
(* PropertiesCache implements PropertiesOracle: what a goroutine can reach *)
(* from the pointer it got is the description the oracle gives.            *)
(***************************************************************************)
EXTENDS PropertiesCache

PointedTo(o) == UNION {{e.sprop[j] : j \in 1..Len(e.sprop)}
                         : e \in {objs[o].props[k] : k \in 1..Len(objs[o].props)}}

\* the objects reachable from o: as many rounds of following pointers as there are objects
Reachable(o) ==
  LET Round[n \in Nat] ==
        IF n = 0 THEN {o} ELSE LET S == Round[n - 1] IN S \cup UNION {PointedTo(q) : q \in S}
  IN  Round[Len(objs)]

\* an entry as the oracle describes it; an entry without its encoder is no such thing
SeenEntry(e) ==
  IF e.ready
  THEN [tag |-> e.tag, offset |-> e.offset, to |-> [j \in 1..Len(e.sprop) |-> objs[e.sprop[j]].type]]
  ELSE [incomplete |-> e.tag]

Seen(o) == [type |-> objs[o].type,
            props |-> [k \in 1..Len(objs[o].props) |-> SeenEntry(objs[o].props[k])],
            reserved |-> objs[o].reserved]

\* all a caller can learn from a pointer it was given
View(o) == IF o = Nil THEN {} ELSE {Seen(q) : q \in Reachable(o)}

Oracle == INSTANCE PropertiesOracle WITH
  call <- [p \in Procs |-> [waiting |-> pc[p] # "idle",
                            type    |-> arg[p],
                            answer  |-> IF pc[p] = "idle" THEN View(res[p]) ELSE {}]]

Safe == Oracle!SafeSpec

-----------------------------------------------------------------------------
(* The programs for which the promise is kept *)

O(d) == INSTANCE PropertiesOracle WITH decl <- d, call <- <<>>

\* types that lead to one another are all in order: an error return takes its own type out
\* of the map, and not those built meanwhile that point to it
CyclesInOrder(d) ==
  \A t, u \in Structs :
    (t # u /\ u \in O(d)!Reach(t) /\ t \in O(d)!Reach(u)) => O(d)!Valid(t)

\* no struct embeds one that leads back to it: the fields found so far would be all it takes over
NoCycleEmbeds(d) ==
  \A t \in Structs : \A i \in O(d)!At(t, "embedded") : t \notin O(d)!Reach(d[t][i].to[1])

InOrder(d) ==
  /\ \A t \in Structs : \A i \in 1..Len(d[t]) :
       /\ \A j \in 1..Len(d[t][i].to) : d[t][i].to[j] \in Structs
       /\ d[t][i].kind = "reserved" => d[t][i].ok
  /\ CyclesInOrder(d)
  /\ NoCycleEmbeds(d)

\* Whenever a reader can look into propertiesMap, no type with an error is in it, nor one whose fields
\* lead to a type with an error: a second use of these fails, as the first did.
ErrorsForgotten ==
  NobodyBuilds => \A t \in Structs : Cached(t) => O(decl)!Valid(t)
=============================================================================
