------------------------------- MODULE Driver -------------------------------
(***************************************************************************)
(* main (src/main.cpp): one run of the compiler, from the options to the   *)
(* exit code, composed with emit_output (LlvmEmitter) and with the         *)
(* lowering (LoweringPipeline).  import_onnx, graph_to_mlir and run_jit    *)
(* enter by what they promise: an answer, or an exception, or a status.    *)
(*                                                                         *)
(* A run of LlvmEmitter begins here when the program is started; pc goes   *)
(* on to its values where main calls emit_output, and its outcomes "ok"    *)
(* and "error" are the exit codes 0 and 1 of the program.                  *)
(*                                                                         *)
(* A definition called ..._bug is a slip one could make in the definition  *)
(* it precedes; it is used nowhere and serves to see a property fail.      *)
(***************************************************************************)
EXTENDS LlvmEmitter, FiniteSets, LoweringPipeline

CONSTANTS
    Requests,   \* Requests[p]: the command lines that process p may be called with
    Models      \* files: [importable, emittable, ops (kinds of operations emitted for it),
                \*         static (do the affine operations for its views fold away)]

(***************************************************************************)
(* A command line is a record: model (is a file named), dot (--dot and     *)
(* its path, or NoPath), first (does --dot come right after the model),    *)
(* mlir, jit (--emit-mlir, --run), emit (a set of output kinds), o (-o, or *)
(* NoPath), target (is the triple known), level (-O).                      *)
(***************************************************************************)
VARIABLES
    request,    \* request[p]: what p was called with
    model,      \* model[p]: the file it was given
    codegen     \* built with TC_WITH_CODEGEN

OutputKinds == {"LLVM_IR", "ASM", "OBJ", "SO"}

\* What is emitted for a model has a function, and the dialects of graph_to_mlir only.
ASSUME ModelAssumption ==
    /\ Models # {}
    /\ \A file \in Models : file.static \in BOOLEAN
    /\ \A file \in Models : file.emittable =>
          "func" \in file.ops /\ file.ops \subseteq {"func", "arith", "math", "linalg", "tensor"}

dvars == <<request, model, codegen>>
allvars == <<vars, dvars>>

-----------------------------------------------------------------------------
\* Conflicting kinds are refused before this is asked.
OutputKind_bug(emit) ==      \* the shared library is taken for an object file
    CASE "LLVM_IR" \in emit -> "LLVM_IR"
      [] "ASM" \in emit /\ "LLVM_IR" \notin emit -> "ASM"
      [] OTHER -> "OBJ"
OutputKind(emit) ==
    CASE "LLVM_IR" \in emit -> "LLVM_IR"
      [] "ASM" \in emit /\ "LLVM_IR" \notin emit -> "ASM"
      [] "SO" \in emit /\ emit \cap {"LLVM_IR", "ASM"} = {} -> "SO"
      [] OTHER -> "OBJ"

EmitOptions(asked) == [kind |-> OutputKind(asked.emit), path |-> asked.o]

ASSUME RequestAssumption ==
    \A p \in Processes :
        /\ Requests[p] # {}
        /\ \A asked \in Requests[p] : /\ asked.dot \in Paths \cup {NoPath}
                                      /\ asked.emit \subseteq OutputKinds
                                      /\ EmitOptions(asked) \in Commands

\* The first of these that is asked for; --run and one kind to emit need no check.
Mode_bug(asked) ==      \* only one kind is looked for
    CASE asked.dot # NoPath -> "dot"
      [] asked.dot = NoPath /\ asked.mlir -> "mlir"
      [] asked.dot = NoPath /\ ~asked.mlir /\ asked.jit -> "run"
      [] OTHER -> IF asked.emit # {} THEN "emit" ELSE "stats"
Mode(asked) ==
    CASE asked.dot # NoPath -> "dot"
      [] asked.dot = NoPath /\ asked.mlir -> "mlir"
      [] asked.dot = NoPath /\ ~asked.mlir /\ asked.jit -> "run"
      [] OTHER -> CASE Cardinality(asked.emit) > 1 -> "conflict"
                    [] Cardinality(asked.emit) = 1 -> "emit"
                    [] OTHER -> "stats"

\* Without code generation the only option is --dot, in the place it is looked for.
PlainMode(asked) == IF asked.dot # NoPath /\ asked.first THEN "dot" ELSE "stats"

Served(p) == IF codegen THEN Mode(request[p]) ELSE PlainMode(request[p])

PipelineOptions(p) == [emit_c_interface |-> Served(p) = "run"]
Left(p) == Lowered(model[p].ops, model[p].static, PipelineOptions(p))

\* Text of LLVM IR that is not optimized is the one output that needs no target.
NeedsTarget(p) == request[p].level # "0" \/ command[p].kind # "LLVM_IR"

-----------------------------------------------------------------------------
DriverInit ==
    /\ Init
    /\ request = [p \in Processes |-> CHOOSE asked \in Requests[p] : TRUE]
    /\ model = [p \in Processes |-> CHOOSE file \in Models : TRUE]
    /\ command = [p \in Processes |-> EmitOptions(request[p])]
    /\ codegen \in BOOLEAN

Goto(p, there) == Go(p, there) /\ UNCHANGED <<command, run, dir, content, dvars>>
Exit(p, outcome) == End(p, outcome) /\ UNCHANGED <<command, run, dir, content, dvars>>

\* Another command line each time; without a model there is only a usage message.
Begin(p) ==
    /\ pc[p] \in {"idle", "ok", "error", "killed"}
    /\ run[p] < MaxRuns
    /\ \E asked \in Requests[p], file \in Models :
          /\ request' = [request EXCEPT ![p] = asked]
          /\ model' = [model EXCEPT ![p] = file]
          /\ command' = [command EXCEPT ![p] = EmitOptions(asked)]
          /\ Go(p, IF asked.model THEN "import" ELSE "usage")
    /\ run' = [run EXCEPT ![p] = @ + 1]
    /\ UNCHANGED <<dir, content, codegen>>

Usage(p) == At(p, "usage") /\ Exit(p, "error")

Import_bug(p) ==      \* the dot file is opened while the model is read
    /\ At(p, "import")
    /\ IF Served(p) = "dot"
       THEN /\ OpenFile(p, request[p].dot)
            /\ pc' = [pc EXCEPT ![p] = IF model[p].importable THEN "dot_write" ELSE "error"]
            /\ UNCHANGED <<command, run, linked, dvars>>
       ELSE IF model[p].importable THEN Goto(p, Served(p)) ELSE Exit(p, "error")

\* import_onnx throws for a file it cannot translate.
Import(p) ==
    /\ At(p, "import")
    /\ IF model[p].importable THEN Goto(p, Served(p)) ELSE Exit(p, "error")

DotOpen(p) ==
    /\ At(p, "dot")
    /\ OpenFile(p, request[p].dot)
    /\ pc' = [pc EXCEPT ![p] = "dot_write"]
    /\ UNCHANGED <<command, run, linked, dvars>>

DotOpenFails(p) == At(p, "dot") /\ Exit(p, "error")

\* dump_dot; the stream is closed, unchecked, when main returns.
DotWrite(p) ==
    /\ At(p, "dot_write")
    /\ content' = [content EXCEPT ![stream[p]] = [type |-> "dot", of |-> @.of \cup {Build(p)}]]
    /\ End(p, "ok")
    /\ UNCHANGED <<command, run, dir, dvars>>

\* graph_to_mlir throws for a graph it does not support.
Generate(p) ==
    /\ pc[p] \in {"mlir", "run", "emit"}
    /\ CASE ~model[p].emittable -> Exit(p, "error")
         [] model[p].emittable /\ At(p, "mlir") -> Exit(p, "ok")
         [] OTHER -> Goto(p, "lower")

\* A pass of MLIR may fail.
Lower(p) ==
    /\ At(p, "lower")
    /\ \/ Exit(p, "error")
       \/ Goto(p, IF Served(p) = "run" THEN "jit" ELSE "translate")

\* run_jit writes to standard output only.  It needs a module that can be translated
\* and _mlir_ciface_main.
Run(p) ==
    /\ At(p, "jit")
    /\ Exit(p, "error") \/ (Left(p) \subseteq {"llvm", "wrapper"} /\ "wrapper" \in Left(p) /\ Exit(p, "ok"))

Conflict(p) == At(p, "conflict") /\ Exit(p, "error")

Stats(p) == At(p, "stats") /\ Exit(p, "ok")

\* translate_to_llvm_ir and create_target_machine, on this module and this target.
TranslateModule(p) ==
    /\ Translate(p)
    /\ pc'[p] = "open" => Left(p) \subseteq {"llvm"} /\ (NeedsTarget(p) => request[p].target)
    /\ UNCHANGED dvars

EmitOutput(p) ==
    /\ \/ Open(p) \/ OpenFails(p) \/ EmitText(p) \/ AddPasses(p) \/ Write(p) \/ Rename(p)
       \/ LinkRead(p) \/ LinkFails(p) \/ LinkWrite(p) \/ Remove(p) \/ Kill(p)
    /\ UNCHANGED dvars

DriverStep(p) ==
    \/ Begin(p) \/ Usage(p) \/ Import(p) \/ DotOpen(p) \/ DotOpenFails(p) \/ DotWrite(p)
    \/ Generate(p) \/ Lower(p) \/ Run(p) \/ Conflict(p) \/ Stats(p)
    \/ TranslateModule(p) \/ EmitOutput(p)
DriverNext == \E p \in Processes : DriverStep(p)
DriverSpec == DriverInit /\ [][DriverNext]_allvars

-----------------------------------------------------------------------------
(* Properties *)

Moves(p) == pc'[p] # pc[p]
TouchesFiles(p) == Moves(p) /\ <<dir', content'>> # <<dir, content>>

\* A run changes no file before it knows that it has something to write: the model can
\* be imported and, unless it writes a dot file, can be turned into LLVM IR for the
\* target.  A mistaken run leaves earlier artifacts as they are.
BadModelTouchesNothing ==
    [][\A p \in Processes : TouchesFiles(p) =>
          /\ model[p].importable
          /\ request[p].dot = NoPath =>
                /\ model[p].emittable /\ Left(p) = {"llvm"}
                /\ request[p].target \/ (command[p].kind = "LLVM_IR" /\ request[p].level = "0")
      ]_allvars

\* Two kinds of output in one command line are never served, not even one of them
\* ("choose only one of ..."), although the check comes after the other modes: no file
\* changes, unless --dot asks for one, and then only that path gets one.
ConflictTouchesNothing ==
    [][\A p \in Processes :
          TouchesFiles(p) /\ Cardinality(request[p].emit) > 1 =>
              /\ request[p].dot # NoPath
              /\ \A path \in Paths \ {request[p].dot} : dir'[path] = dir[path]
      ]_allvars

\* Files that hold what the present run of p has written.
Written(p) == {path \in Paths : dir[path] # Absent /\ Build(p) \in content[dir[path]].of}
Holds(path, type, p) == content[dir[path]] = [type |-> type, of |-> {Build(p)}]
TypeOf(kind) == CASE kind = "LLVM_IR" -> "text" [] kind = "ASM" -> "text"
                  [] kind = "OBJ" -> "object" [] kind = "SO" -> "library"

\* The paths that a command line has files written to, and a process whose command lines
\* share none with those of another.
Uses(asked) ==
    LET kind == OutputKind(asked.emit)
        path == IF asked.o # NoPath THEN asked.o ELSE DefaultPath(kind)
    IN  CASE asked.dot # NoPath -> {asked.dot}
          [] asked.dot = NoPath /\ Mode(asked) = "emit" ->
                {path} \cup (IF kind = "SO" THEN {TmpObj[path]} ELSE {})
          [] OTHER -> {}
PathsOf(p) == Paths \cap UNION {Uses(asked) : asked \in Requests[p]}
OnItsOwn(p) == \A q \in Processes \ {p} : PathsOf(p) \cap PathsOf(q) = {}

\* One file of the right type, whole, at the path that was named, and nothing else of this
\* run is there.
ServedAs(asked, p) ==
    IF asked.dot # NoPath
    THEN Written(p) = {asked.dot} /\ Holds(asked.dot, "dot", p)
    ELSE IF asked.mlir \/ asked.jit \/ asked.emit = {} THEN Written(p) = {}
    ELSE \E kind \in asked.emit :
            LET path == IF asked.o # NoPath THEN asked.o
                        ELSE CASE kind = "OBJ" -> DefaultObj [] kind = "SO" -> DefaultSo
                               [] OTHER -> NoPath
            IN  /\ asked.emit = {kind}
                /\ Written(p) = {path} \ {NoPath}
                /\ path # NoPath => Holds(path, TypeOf(kind), p)

\* Exit code 0 of the full build, whatever earlier runs have left and other compilers do on
\* other paths of the directory: the mode asked for has been served, with one whole file or
\* none.
ExitZeroServes ==
    \A p \in Processes : pc[p] = "ok" /\ codegen /\ OnItsOwn(p) => ServedAs(request[p], p)

\* The passes leave nothing but the LLVM dialect of a model whose shapes are all known
\* (the test LinalgModuleLowersToLLVMDialect), with the wrapper that run_jit looks up if
\* the model is to be run: such a model is never refused after a lowering that passed.
StaticModelIsLowered ==
    \A p \in Processes : model[p].static /\ pc[p] \in {"jit", "translate"} =>
        Left(p) = {"llvm"} \cup (IF Served(p) = "run" THEN {"wrapper"} ELSE {})

=============================================================================
