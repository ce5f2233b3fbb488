--------------------------- MODULE ProtoFilesRefinement ---------------------------
(***************************************************************************)
(* ProtoFiles implements ProtoFile: what AsProtobufFull2 returns is the    *)
(* file that its arguments and the types of the program determine.         *)
(***************************************************************************)
EXTENDS ProtoFiles, Dependencies

\* what the client has of the call
answer ==
  CASE phase = "returned" -> {[panics |-> FALSE, todo |-> headers, imports |-> imported, body |-> body, first_err |-> first_err]}
    [] phase = "panicked" -> {[panics |-> TRUE, todo |-> <<>>, imports |-> {}, body |-> <<>>, first_err |-> {}]}
    [] OTHER -> {}

File == INSTANCE ProtoFile

\* Whatever the order in which the types are found, and however they refer to each other, the file
\* has each type that is reached from the arguments once, in the order of the names, with its
\* imports, and returns the error that it shows first.  Excepted is the panic for a type that is no
\* struct and has no definition, and no order is promised where ProtoFile has none.
Implements == File!Spec
=================================================================================
