------------------------------ MODULE ProtoFilesRuns ------------------------------
(***************************************************************************)
(* A program that generates a .proto file twice: what AsProtobufFull2 has  *)
(* returned is remembered until it has returned from the same call again.  *)
(***************************************************************************)
EXTENDS ProtoFilesRefinement

VARIABLE earlier  \* the call that is made again, with its answer

runs == <<vars, earlier>>

RunsInit == Init /\ earlier = {}

CallAgain == Call /\ (\A e \in earlier : call' = e.call) /\ UNCHANGED earlier

Work == (Discover \/ Sort \/ Declare \/ CannotDeclare \/ Return) /\ UNCHANGED earlier

Remember == Leave /\ earlier' = IF earlier = {} THEN {[call |-> call, answer |-> answer]} ELSE {}

RunsNext == CallAgain \/ Work \/ Remember

RunsSpec == RunsInit /\ [][RunsNext]_runs /\ WF_runs(Work)

-----------------------------------------------------------------------------
(* "the output is consistent from run to run" (properties.go:369) *)

\* The same call has the same answer in each run, whatever order the maps give.
SameFile == answer # {} => \A e \in earlier : answer = e.answer

\* The same call has the same answer in each run, unless two of its types share a name or two of its
\* arguments are in error.
SameAnswer == answer # {} => File!Unordered(call) \/ SameFile
=================================================================================
