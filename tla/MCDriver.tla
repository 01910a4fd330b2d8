------------------------------ MODULE MCDriver ------------------------------
(***************************************************************************)
(* Every combination of modes, run twice in one place; and beside the      *)
(* libraries and objects of that place a second one with paths of its own. *)
(***************************************************************************)
EXTENDS Driver

MCPaths == {"a.o", "a.so", "a.so.tmp.o", "b.so", "b.so.tmp.o"}
MCTmpObj == [path \in MCPaths |-> CASE path = "a.so" -> "a.so.tmp.o" [] path = "b.so" -> "b.so.tmp.o"
                                     [] OTHER -> NoPath]
MCDirectories == {{}, MCPaths}

Asked(dot, first, mlir, jit, emit, o) ==
    [model |-> TRUE, dot |-> dot, first |-> first, mlir |-> mlir, jit |-> jit, emit |-> emit,
     o |-> o, target |-> TRUE, level |-> "0"]

FirstPlace == CHOOSE p \in Processes : TRUE

\* Each mode with and without the others, on the paths that runs share; targets that are
\* not known, with and without optimization.
FirstRequests ==
    {Asked(dot, first, mlir, jit, emit, NoPath) :
        dot \in {NoPath, "a.o"}, first \in BOOLEAN, mlir \in BOOLEAN, jit \in BOOLEAN,
        emit \in {{}, {"SO"}, {"OBJ", "SO"}, {"LLVM_IR", "ASM"}}}
    \cup {Asked(NoPath, FALSE, FALSE, FALSE, {kind}, o) : kind \in OutputKinds, o \in {NoPath, "a.so"}}
    \cup {[Asked(NoPath, FALSE, FALSE, FALSE, {kind}, "a.o") EXCEPT !.target = FALSE, !.level = l] :
             kind \in {"LLVM_IR", "OBJ"}, l \in {"0", "2"}}
    \cup {[Asked("a.so", TRUE, FALSE, FALSE, {}, NoPath) EXCEPT !.model = m] : m \in BOOLEAN}

\* A library, and a dot file in its place.
SecondRequests ==
    {Asked(NoPath, FALSE, FALSE, FALSE, {"SO"}, "b.so"), Asked("b.so", TRUE, FALSE, FALSE, {}, NoPath)}

MCRequests == [p \in Processes |-> IF p = FirstPlace THEN FirstRequests ELSE SecondRequests]
MCCommands == {EmitOptions(asked) : asked \in FirstRequests \cup SecondRequests}

OnnxFile(importable, emittable, ops, static) ==
    [importable |-> importable, emittable |-> emittable, ops |-> ops, static |-> static]
MCModels == {
    OnnxFile(FALSE, FALSE, {}, TRUE), OnnxFile(TRUE, FALSE, {}, TRUE), OnnxFile(TRUE, TRUE, {"func"}, TRUE),
    OnnxFile(TRUE, TRUE, {"func", "arith", "math", "linalg", "tensor"}, TRUE),
    OnnxFile(TRUE, TRUE, {"func", "arith", "linalg", "tensor"}, FALSE)}

\* Bound: the second place is used beside a library or an object only, for one model.
Beside == \A p \in Processes \ {FirstPlace} : run[p] > 0 =>
    /\ request[FirstPlace] \in {Asked(NoPath, FALSE, FALSE, FALSE, {kind}, NoPath) : kind \in {"SO", "OBJ"}}
    /\ \A q \in Processes : model[q] = OnnxFile(TRUE, TRUE, {"func"}, TRUE)
=============================================================================
