--------------------------- MODULE MCLlvmEmitter ---------------------------
(***************************************************************************)
(* Two compilers in one directory, each asked for one of MCCommands.       *)
(***************************************************************************)
EXTENDS LlvmEmitter, TLC

MCPaths == {"a.o", "a.so", "a.so.tmp.o", "m"}

\* Only the temporary of a.so is in use.
MCTmpObj == [path \in MCPaths |-> IF path = "a.so" THEN "a.so.tmp.o" ELSE NoPath]

MCCommands == {[kind |-> "SO",  path |-> NoPath], [kind |-> "SO",      path |-> "a.so"],
               [kind |-> "OBJ", path |-> NoPath], [kind |-> "OBJ",     path |-> "a.so.tmp.o"],
               [kind |-> "ASM", path |-> NoPath], [kind |-> "LLVM_IR", path |-> "m"]}

\* Nothing, or a file in every place.
MCDirectories == {{}, MCPaths}

\* The compilers are interchangeable.
Symmetry == Permutations(Processes)
=============================================================================
