---------------------------- MODULE DriverProofs ----------------------------
(***************************************************************************)
(* The properties of Driver: what a run has decided by the time it touches *)
(* a file, and what exit code 0 means, for any number of processes.        *)
(***************************************************************************)
EXTENDS Driver, LlvmEmitterProofs, FiniteSetTheorems

-----------------------------------------------------------------------------
(* Command lines *)

LEMMA ModeFacts ==
    ASSUME NEW p \in Processes
    PROVE  /\ Served(p) = "dot" => request[p].dot # NoPath
           /\ codegen /\ request[p].dot # NoPath => Served(p) = "dot"
           /\ Served(p) \in {"mlir", "run", "conflict", "emit"} => codegen /\ request[p].dot = NoPath
           /\ Served(p) = "mlir" => request[p].mlir
           /\ Served(p) = "run" => request[p].jit
           /\ Served(p) = "emit" => /\ ~request[p].mlir /\ ~request[p].jit
                                    /\ Cardinality(request[p].emit) = 1
           /\ Served(p) \in {"dot", "mlir", "run", "conflict", "emit", "stats"}
           /\ codegen /\ Served(p) = "stats" =>
                 /\ request[p].dot = NoPath /\ ~request[p].mlir /\ ~request[p].jit
                 /\ ~(Cardinality(request[p].emit) > 1) /\ Cardinality(request[p].emit) # 1
<1> DEFINE asked == request[p]
<1>1. CASE ~codegen
  BY <1>1 DEF Served, PlainMode
<1>2. CASE codegen /\ asked.dot # NoPath
  BY <1>2 DEF Served, Mode
<1>3. CASE codegen /\ asked.dot = NoPath /\ asked.mlir
  BY <1>3 DEF Served, Mode
<1>4. CASE codegen /\ asked.dot = NoPath /\ ~asked.mlir /\ asked.jit
  BY <1>4 DEF Served, Mode
<1>5. CASE codegen /\ asked.dot = NoPath /\ ~asked.mlir /\ ~asked.jit
  BY <1>5 DEF Served, Mode
<1> QED  BY <1>1, <1>2, <1>3, <1>4, <1>5

\* One kind of output that is asked for is the kind that is emitted.
LEMMA OneKind ==
    ASSUME NEW emit, emit \subseteq OutputKinds
    PROVE  /\ Cardinality(emit) = 1 => \E kind \in OutputKinds : emit = {kind} /\ OutputKind(emit) = kind
           /\ ~(Cardinality(emit) > 1) /\ Cardinality(emit) # 1 => emit = {}
<1>1. IsFiniteSet(emit)
  <2>1. OutputKinds = {"LLVM_IR"} \cup ({"ASM"} \cup ({"OBJ"} \cup {"SO"}))
    BY DEF OutputKinds
  <2>2. IsFiniteSet(OutputKinds)
    BY <2>1, FS_Singleton, FS_Union
  <2> QED  BY <2>2, FS_Subset
<1>2. Cardinality(emit) \in Nat /\ (Cardinality(emit) = 0 => emit = {})
  BY <1>1, FS_CardinalityType, FS_EmptySet
<1>3. ASSUME Cardinality(emit) = 1
      PROVE  \E kind \in OutputKinds : emit = {kind} /\ OutputKind(emit) = kind
  <2>1. PICK kind : emit = {kind}
    BY <1>1, <1>3, FS_Singleton
  <2>2. kind \in {"LLVM_IR", "ASM", "OBJ", "SO"}
    BY <2>1 DEF OutputKinds
  <2>3. kind = "LLVM_IR" => OutputKind(emit) = kind
    BY <2>1 DEF OutputKind
  <2>4. kind = "ASM" => OutputKind(emit) = kind
    BY <2>1 DEF OutputKind
  <2>5. kind = "SO" => OutputKind(emit) = kind
    BY <2>1 DEF OutputKind
  <2>6. kind = "OBJ" => OutputKind(emit) = kind
    BY <2>1 DEF OutputKind
  <2> QED  BY <2>1, <2>2, <2>3, <2>4, <2>5, <2>6 DEF OutputKinds
<1> QED  BY <1>2, <1>3

-----------------------------------------------------------------------------
(* The lowering *)

\* The function that is always there ends as LLVM.
LEMMA LoweredHasLLVM ==
    ASSUME NEW ops, "func" \in ops, NEW static, NEW options
    PROVE  "llvm" \in Lowered(ops, static, options)
<1>1. \A some, gone, new : "func" \in some /\ "func" \notin gone => "func" \in Replaced(some, gone, new)
  BY DEF Replaced
<1>2. \A some, gone, new : "llvm" \in some /\ "llvm" \notin gone => "llvm" \in Replaced(some, gone, new)
  BY DEF Replaced
<1> DEFINE buffers == Bufferized(ops)
           loops == Looped(buffers)
           flat == Flattened(loops, static)
           func == FuncToLLVM(flat, options)
           memref == ToLLVM(func, "memref")
           arith == ToLLVM(ToLLVM(ToLLVM(memref, "cf"), "math"), "arith")
<1>3. "func" \in buffers
  BY <1>1 DEF Bufferized
<1>4. "func" \in loops
  BY <1>1, <1>3 DEF Looped, LinalgToLoops, LowerAffine
<1>5. "func" \in flat
  BY <1>1, <1>4 DEF Flattened
<1>6. "llvm" \in func
  BY <1>5 DEF FuncToLLVM, Replaced
<1>7. "llvm" \in memref
  BY <1>2, <1>6 DEF ToLLVM
<1>8. "llvm" \in arith
  BY <1>2, <1>7 DEF ToLLVM
<1>9. "llvm" \in Reconciled(arith)
  BY <1>8 DEF Reconciled
<1> QED  BY <1>9 DEF Lowered

\* Of a function whose views all have constant sizes nothing but LLVM is left, and the
\* wrapper if and only if it is asked for.
LEMMA LoweredStatic ==
    ASSUME NEW ops, "func" \in ops, ops \subseteq {"func", "arith", "math", "linalg", "tensor"},
           NEW options
    PROVE  /\ options.emit_c_interface => Lowered(ops, TRUE, options) = {"llvm", "wrapper"}
           /\ ~options.emit_c_interface => Lowered(ops, TRUE, options) = {"llvm"}
<1> DEFINE wrapper == IF options.emit_c_interface THEN {"wrapper"} ELSE {}
           buffers == Bufferized(ops)
           loops == Looped(buffers)
           flat == Flattened(loops, TRUE)
           func == FuncToLLVM(flat, options)
           memref == ToLLVM(func, "memref")
           cf == ToLLVM(memref, "cf")
           math == ToLLVM(cf, "math")
           arith == ToLLVM(math, "arith")
<1>1. buffers \subseteq {"func", "arith", "math", "linalg", "memref", "view", "affine"} /\ "func" \in buffers
  BY DEF Bufferized, Replaced
<1>2. loops \subseteq {"func", "arith", "math", "memref", "view", "scf"} /\ "func" \in loops
  <2> HIDE DEF buffers
  <2>1. /\ LinalgToLoops(buffers) \subseteq {"func", "arith", "math", "memref", "view", "affine", "scf"}
        /\ "func" \in LinalgToLoops(buffers)
    BY <1>1 DEF LinalgToLoops, Replaced
  <2> QED  BY <2>1 DEF Looped, LowerAffine, Replaced
<1>3. flat \subseteq {"func", "arith", "math", "memref", "cf"} /\ "func" \in flat
  <2> HIDE DEF loops
  <2> DEFINE branches == Replaced(loops, {"scf"}, {"cf", "arith"})
  <2>1. branches \subseteq {"func", "arith", "math", "memref", "view", "cf"} /\ "func" \in branches
    BY <1>2 DEF Replaced
  <2>2. flat = Replaced(branches, {"view"}, {"memref", "arith"})
    BY DEF Flattened
  <2> HIDE DEF branches
  <2> QED  BY <2>1, <2>2 DEF Replaced
<1>4. /\ func \subseteq {"llvm", "cast", "arith", "math", "memref", "cf"} \cup wrapper
      /\ "llvm" \in func /\ wrapper \subseteq func
  <2> HIDE DEF flat
  <2>1. CASE options.emit_c_interface
    BY <2>1, <1>3 DEF FuncToLLVM, Replaced
  <2>2. CASE ~options.emit_c_interface
    BY <2>2, <1>3 DEF FuncToLLVM, Replaced
  <2> QED  BY <2>1, <2>2
<1> HIDE DEF func
<1>5. /\ memref \subseteq {"llvm", "cast", "arith", "math", "cf"} \cup wrapper
      /\ "llvm" \in memref /\ wrapper \subseteq memref
  BY <1>4 DEF ToLLVM, Replaced
<1> HIDE DEF memref
<1>6. /\ cf \subseteq {"llvm", "cast", "arith", "math"} \cup wrapper
      /\ "llvm" \in cf /\ wrapper \subseteq cf
  BY <1>5 DEF ToLLVM, Replaced
<1> HIDE DEF cf
<1>7. math \subseteq {"llvm", "cast", "arith"} \cup wrapper /\ "llvm" \in math /\ wrapper \subseteq math
  BY <1>6 DEF ToLLVM, Replaced
<1> HIDE DEF math
<1>8. arith \subseteq {"llvm", "cast"} \cup wrapper /\ "llvm" \in arith /\ wrapper \subseteq arith
  BY <1>7 DEF ToLLVM, Replaced
<1> HIDE DEF arith
<1>9. Reconciled(arith) = {"llvm"} \cup wrapper
  BY <1>8 DEF Reconciled
<1>10. Lowered(ops, TRUE, options) = {"llvm"} \cup wrapper
  BY <1>9 DEF Lowered, arith, math, cf, memref, func
<1> QED  BY <1>10

-----------------------------------------------------------------------------
(* What a run has decided at each place *)

Emitting == {"open", "passes", "write", "rename", "link", "linking", "discard", "clean"}

Decided(p) ==
    /\ request[p] \in Requests[p] /\ model[p] \in Models
    /\ command[p] = EmitOptions(request[p])
    /\ pc[p] \in {"dot", "mlir", "run", "emit", "conflict", "stats"} =>
          model[p].importable /\ Served(p) = pc[p]
    /\ pc[p] = "dot_write" => model[p].importable /\ Served(p) = "dot" /\ stream[p] \in File
    /\ pc[p] \in {"lower", "jit", "translate"} \cup Emitting =>
          model[p].importable /\ model[p].emittable /\ Served(p) \in {"run", "emit"}
    /\ pc[p] = "jit" => Served(p) = "run"
    /\ pc[p] \in {"translate"} \cup Emitting => Served(p) = "emit"
    /\ pc[p] \in Emitting =>
          Left(p) \subseteq {"llvm"} /\ (NeedsTarget(p) => request[p].target)

AllRequests == UNION {Requests[p] : p \in Processes}
DriverTypeOK == /\ request \in [Processes -> AllRequests] /\ model \in [Processes -> Models]
                /\ codegen \in BOOLEAN

DriverBase == Base /\ DriverTypeOK /\ \A p \in Processes : Decided(p)

LEMMA SameDecision ==
    ASSUME UNCHANGED <<request, model, codegen, command>>, NEW p \in Processes
    PROVE  /\ Served(p)' = Served(p) /\ Left(p)' = Left(p)
           /\ NeedsTarget(p)' <=> NeedsTarget(p)
BY DEF Served, Left, PipelineOptions, NeedsTarget

\* A step of another process leaves what is p's own.
LEMMA OtherFrame ==
    ASSUME DriverBase, NEW q \in Processes, DriverStep(q), NEW p \in Processes \ {q}
    PROVE  /\ pc'[p] = pc[p] /\ stream'[p] = stream[p] /\ linked'[p] = linked[p] /\ run'[p] = run[p]
           /\ command'[p] = command[p] /\ request'[p] = request[p] /\ model'[p] = model[p]
           /\ codegen' = codegen
<1> USE DEF DriverBase, Base, EmitterTypeOK, DriverTypeOK
<1>1. CASE Begin(q)
  BY <1>1 DEF Begin, Go
<1>2. CASE TranslateModule(q)
  BY <1>2 DEF TranslateModule, Translate, Go, End, dvars
<1>3. CASE EmitOutput(q)
  BY <1>3 DEF EmitOutput, Open, OpenFile, OpenFails, EmitText, AddPasses, Write, Rename,
     LinkRead, LinkFails, LinkWrite, Remove, Kill, Go, End, dvars
<1>4. CASE DotOpen(q) \/ DotOpenFails(q) \/ DotWrite(q)
  BY <1>4 DEF DotOpen, OpenFile, DotOpenFails, DotWrite, Exit, End, dvars
<1>5. CASE Usage(q) \/ Import(q) \/ Generate(q) \/ Lower(q) \/ Run(q) \/ Conflict(q) \/ Stats(q)
  BY <1>5 DEF Usage, Import, Generate, Lower, Run, Conflict, Stats, Goto, Exit, Go, End, dvars
<1> QED  BY <1>1, <1>2, <1>3, <1>4, <1>5 DEF DriverStep

\* The decisions are those of p: another process changes none of them.
LEMMA OtherDecided ==
    ASSUME DriverBase, NEW q \in Processes, DriverStep(q), NEW p \in Processes \ {q}
    PROVE  /\ Decided(p)' /\ pc'[p] = pc[p] /\ Served(p)' = Served(p)
           /\ Build(p)' = Build(p)
<1>1. /\ pc'[p] = pc[p] /\ stream'[p] = stream[p] /\ command'[p] = command[p] /\ run'[p] = run[p]
      /\ request'[p] = request[p] /\ model'[p] = model[p] /\ codegen' = codegen
  BY OtherFrame
<1>2. Served(p)' = Served(p) /\ Left(p)' = Left(p) /\ (NeedsTarget(p)' <=> NeedsTarget(p))
  BY <1>1 DEF Served, Left, PipelineOptions, NeedsTarget
<1>3. Decided(p)
  BY DEF DriverBase
<1> QED  BY <1>1, <1>2, <1>3 DEF Decided, Build

\* The steps of main that touch no file and do not begin a run.
Calmly(p) == \/ Usage(p) \/ Import(p) \/ DotOpenFails(p) \/ Generate(p) \/ Lower(p)
             \/ Run(p) \/ Conflict(p) \/ Stats(p)

Calm == {"usage", "import", "dot", "mlir", "run", "emit", "lower", "jit", "conflict", "stats"}
CalmNext == Calm \cup {"translate", "ok", "error"}

LEMMA CalmFacts ==
    ASSUME DriverBase, NEW p \in Processes, Calmly(p)
    PROVE  /\ UNCHANGED <<command, run, dir, content, request, model, codegen>>
           /\ pc[p] \in Calm /\ pc'[p] \in CalmNext /\ pc' = [pc EXCEPT ![p] = pc'[p]]
           /\ stream' = stream \/ stream' = [stream EXCEPT ![p] = Absent]
           /\ linked' = linked \/ linked' = [linked EXCEPT ![p] = Empty]
<1> USE DEF DriverBase, Base, EmitterTypeOK
<1> DEFINE there == pc'[p]
<1>1. \/ \E step \in CalmNext : Goto(p, step)
      \/ \E step \in CalmNext : Exit(p, step)
  <2>1. CASE Import(p)
    <3>1. Served(p) \in CalmNext
      BY ModeFacts DEF CalmNext, Calm
    <3> QED  BY <2>1, <3>1 DEF Import, CalmNext
  <2>2. CASE Generate(p)
    BY <2>2 DEF Generate, CalmNext, Calm
  <2>3. CASE Lower(p)
    BY <2>3 DEF Lower, CalmNext, Calm
  <2> QED  BY <2>1, <2>2, <2>3 DEF Calmly, Usage, DotOpenFails, Run, Conflict, Stats, CalmNext
<1>2. pc[p] \in Calm
  BY DEF Calmly, Usage, Import, DotOpenFails, Generate, Lower, Run, Conflict, Stats, At, Calm
<1>3. PICK step \in CalmNext : Goto(p, step) \/ Exit(p, step)
  BY <1>1
<1>4. pc' = [pc EXCEPT ![p] = step]
  BY <1>3 DEF Goto, Exit, Go, End
<1> QED  BY <1>2, <1>3, <1>4 DEF Goto, Exit, Go, End, dvars

LEMMA CalmBase ==
    ASSUME DriverBase, NEW p \in Processes, Calmly(p)
    PROVE  Base'
<1> DEFINE there == pc'[p]
<1>1. /\ UNCHANGED <<command, run, dir, content>>
      /\ pc[p] \in Calm /\ there \in CalmNext /\ pc' = [pc EXCEPT ![p] = there]
      /\ stream' = stream \/ stream' = [stream EXCEPT ![p] = Absent]
      /\ linked' = linked \/ linked' = [linked EXCEPT ![p] = Empty]
  BY CalmFacts
<1> HIDE DEF there
<1>2. /\ there \in Places /\ there # "idle" /\ pc[p] # "idle"
      /\ pc[p] \in Opened => there \in Opened
      /\ pc[p] \in Placed => there \in Placed
      /\ there \notin {"passes", "write"} /\ there \notin Linking
  BY <1>1 DEF Places, Opened, Placed, Linking, Calm, CalmNext
<1>3. pc'[p] = there /\ run'[p] = run[p]
  BY <1>1 DEF there
<1>4. Where(p)'
  BY <1>2, <1>3 DEF Where, DriverBase, Base
<1>5. linked' = linked \/ \E bytes \in {Empty} \cup {content[file] : file \in File} :
                               linked' = [linked EXCEPT ![p] = bytes]
  BY <1>1
<1> QED  BY <1>1, <1>2, <1>4, <1>5, QuietBase DEF DriverBase

LEMMA CalmDecided ==
    ASSUME DriverBase, NEW p \in Processes, Calmly(p)
    PROVE  Decided(p)'
<1> USE DEF DriverBase, Base, EmitterTypeOK
<1>1. /\ UNCHANGED <<command, request, model, codegen>>
      /\ Served(p)' = Served(p) /\ Left(p)' = Left(p) /\ (NeedsTarget(p)' <=> NeedsTarget(p))
  BY CalmFacts, SameDecision
<1>2. pc'[p] \in CalmNext /\ pc'[p] \notin Emitting /\ pc'[p] # "dot_write"
  BY CalmFacts DEF Emitting, CalmNext, Calm
<1>3. pc'[p] \in {"dot", "mlir", "run", "emit", "conflict", "stats"} =>
         model[p].importable /\ Served(p) = pc'[p]
  BY ModeFacts DEF Calmly, Usage, Import, DotOpenFails, Generate, Lower, Run, Conflict, Stats, Goto, Exit,
     Go, End
<1>4. pc'[p] \in {"lower", "jit", "translate"} =>
         /\ model[p].importable /\ model[p].emittable /\ Served(p) \in {"run", "emit"}
         /\ pc'[p] = "jit" => Served(p) = "run"
         /\ pc'[p] = "translate" => Served(p) = "emit"
  <2>1. CASE Generate(p)
    BY <2>1 DEF Generate, Goto, Exit, Go, End, Decided, At
  <2>2. CASE Lower(p)
    BY <2>2 DEF Lower, Goto, Exit, Go, End, Decided, At
  <2>3. CASE Import(p)
    BY <2>3, ModeFacts DEF Import, Goto, Exit, Go, End
  <2> QED  BY <2>1, <2>2, <2>3 DEF Calmly, Usage, DotOpenFails, Run, Conflict, Stats, Exit, End
<1> QED  BY <1>1, <1>2, <1>3, <1>4 DEF Decided

LEMMA BeginStep ==
    ASSUME DriverBase, NEW p \in Processes, Begin(p)
    PROVE  Base' /\ DriverTypeOK' /\ Decided(p)' /\ pc'[p] \in {"import", "usage"}
<1> USE DEF DriverBase, Base, EmitterTypeOK, DriverTypeOK
<1>1. PICK asked \in Requests[p], file \in Models :
         /\ request' = [request EXCEPT ![p] = asked]
         /\ model' = [model EXCEPT ![p] = file]
         /\ command' = [command EXCEPT ![p] = EmitOptions(asked)]
         /\ Go(p, IF asked.model THEN "import" ELSE "usage")
  BY Zenon DEF Begin
<1>2. PICK there \in {"import", "usage"} : pc' = [pc EXCEPT ![p] = there]
  BY <1>1 DEF Go
<1>3. /\ run[p] < MaxRuns /\ run' = [run EXCEPT ![p] = @ + 1]
      /\ UNCHANGED <<stream, linked, dir, content, codegen>>
  BY <1>1 DEF Begin, Go
<1>4. EmitOptions(asked) \in Commands
  BY RequestAssumption
<1>5. /\ command' \in [Processes -> Commands]
      /\ \A q \in Processes \ {p} : command'[q] = command[q]
  BY <1>1, <1>4
<1>6. there \in Places /\ there \notin Opened \cup {"idle"}
  BY DEF Places, Opened
<1>7. Base'
  BY <1>2, <1>3, <1>5, <1>6, BeginBase
<1>8. DriverTypeOK'
  BY <1>1, <1>3 DEF AllRequests
<1>9. /\ request'[p] \in Requests[p] /\ model'[p] \in Models /\ pc'[p] = there
      /\ command'[p] = EmitOptions(request'[p])
  BY <1>1, <1>2
<1>10. Decided(p)'
  BY <1>9 DEF Decided, Emitting
<1> QED  BY <1>7, <1>8, <1>9, <1>10

LEMMA DotOpenStep ==
    ASSUME DriverBase, NEW p \in Processes, DotOpen(p)
    PROVE  /\ Base' /\ Decided(p)' /\ request[p].dot \in Paths
           /\ UNCHANGED <<command, run, linked, request, model, codegen>> /\ pc'[p] = "dot_write"
           /\ Opens(p, request[p].dot) \in File
           /\ \A other \in Paths \ {request[p].dot} : dir[other] # Opens(p, request[p].dot)
<1> USE DEF DriverBase, Base, EmitterTypeOK
<1> DEFINE path == request[p].dot
<1>1. /\ pc[p] = "dot" /\ OpenFile(p, path) /\ pc' = [pc EXCEPT ![p] = "dot_write"]
      /\ UNCHANGED <<command, run, linked, request, model, codegen>>
  BY DEF DotOpen, At, dvars
<1>2. model[p].importable /\ Served(p) = "dot" /\ request[p] \in Requests[p]
  BY <1>1 DEF Decided
<1>3. path \in Paths
  BY <1>2, ModeFacts, RequestAssumption
<1>4. /\ "dot_write" \in Places /\ "dot_write" \in Opened \ (Placed \cup Linking)
      /\ pc[p] \notin Opened \cup {"idle"}
  BY <1>1 DEF Places, Opened, Placed, Linking
<1>5. /\ Base' /\ Opens(p, path) \in File
      /\ \A other \in Paths \ {path} : dir[other] # Opens(p, path)
  <2> HIDE DEF path
  <2> QED  BY <1>1, <1>3, <1>4, OpenBase
<1>6. stream'[p] \in File
  BY <1>1, <1>5 DEF OpenFile, Opens
<1>7. Decided(p)'
  BY <1>1, <1>2, <1>6, SameDecision DEF Decided, Emitting
<1> QED  BY <1>1, <1>3, <1>5, <1>7

LEMMA DotWriteStep ==
    ASSUME DriverBase, NEW p \in Processes, DotWrite(p)
    PROVE  /\ Base' /\ Decided(p)'
           /\ UNCHANGED <<command, run, dir, request, model, codegen>> /\ pc'[p] = "ok"
<1> USE DEF DriverBase, Base, EmitterTypeOK
<1>1. /\ pc[p] = "dot_write" /\ pc' = [pc EXCEPT ![p] = "ok"]
      /\ UNCHANGED <<command, run, dir, request, model, codegen>>
      /\ stream' = [stream EXCEPT ![p] = Absent] /\ linked' = [linked EXCEPT ![p] = Empty]
      /\ content' = [content EXCEPT ![stream[p]] = [type |-> "dot", of |-> @.of \cup {Build(p)}]]
  BY DEF DotWrite, At, End, dvars
<1>2. run[p] \in 1 .. MaxRuns /\ stream[p] \in File
  BY <1>1 DEF Decided, Where
<1>3. /\ "ok" \in Places /\ "ok" \in Opened \ {"passes", "write"} /\ "ok" \notin Linking
      /\ "dot" \in Types /\ "ok" \in Placed
  BY DEF Places, Opened, Placed, Linking, Types
<1>4. Base'
  BY <1>1, <1>2, <1>3, WriteBase
<1>5. Decided(p)'
  BY <1>1, SameDecision DEF Decided, Emitting
<1> QED  BY <1>1, <1>4, <1>5

LEMMA EmitStep ==
    ASSUME DriverBase, NEW p \in Processes, TranslateModule(p) \/ EmitOutput(p)
    PROVE  /\ Base' /\ Decided(p)'
           /\ UNCHANGED <<command, run, request, model, codegen>>
           /\ Step(p) /\ ~Start(p)
<1> USE DEF DriverBase, Base, EmitterTypeOK
<1>1. UNCHANGED <<command, run, request, model, codegen>> /\ Step(p)
  BY DEF TranslateModule, EmitOutput, Step, dvars, Translate, Open, OpenFails, EmitText, AddPasses,
     Write, Rename, LinkRead, LinkFails, LinkWrite, Remove, Kill
<1>2. ~Start(p)
  BY <1>1 DEF Start
<1>3. Base'
  BY <1>1, StepBase
<1>4. /\ Served(p)' = Served(p) /\ Left(p)' = Left(p) /\ (NeedsTarget(p)' <=> NeedsTarget(p))
      /\ Decided(p)
  BY <1>1, SameDecision
<1>5. ASSUME TranslateModule(p) PROVE Decided(p)'
  <2>1. /\ pc[p] = "translate" /\ pc'[p] \in {"open", "error"}
        /\ pc'[p] = "open" => Left(p) \subseteq {"llvm"} /\ (NeedsTarget(p) => request[p].target)
    BY <1>5 DEF TranslateModule, Translate, At, Go, End
  <2> QED  BY <1>1, <1>4, <2>1 DEF Decided, Emitting
<1>6. ASSUME EmitOutput(p) PROVE Decided(p)'
  <2>1. /\ pc'[p] \in Emitting => pc[p] \in Emitting
        /\ pc'[p] \in Emitting \cup {"ok", "error", "killed"}
    BY <1>6 DEF EmitOutput, Open, OpenFails, EmitText, AddPasses, Write, Rename, LinkRead, LinkFails,
       LinkWrite, Remove, Kill, At, Go, End, Emitting
  <2> QED  BY <1>1, <1>4, <2>1 DEF Decided, Emitting
<1> QED  BY <1>1, <1>2, <1>3, <1>5, <1>6

LEMMA DriverStepBase ==
    ASSUME DriverBase, NEW q \in Processes, DriverStep(q)
    PROVE  DriverBase'
<1>1. Base' /\ Decided(q)'
  BY CalmBase, CalmDecided, BeginStep, DotOpenStep, DotWriteStep, EmitStep DEF DriverStep, Calmly
<1>2. ASSUME NEW p \in Processes PROVE Decided(p)'
  BY <1>1, OtherDecided
<1>3. DriverTypeOK'
  <2>1. CASE Begin(q)
    BY <2>1, BeginStep
  <2>2. CASE ~Begin(q)
    <3>1. UNCHANGED <<request, model, codegen>>
      BY <2>2, CalmFacts, DotOpenStep, DotWriteStep, EmitStep DEF DriverStep, Calmly
    <3> QED  BY <3>1 DEF DriverTypeOK, DriverBase
  <2> QED  BY <2>1, <2>2
<1> QED  BY <1>1, <1>2, <1>3 DEF DriverBase

LEMMA StutterBase ==
    ASSUME Base, UNCHANGED vars
    PROVE  Base'
<1> USE DEF vars, Base
<1>1. EmitterTypeOK' /\ OnePath'
  BY DEF EmitterTypeOK, OnePath
<1>2. \A file : Unused(file)' <=> Unused(file)
  BY DEF Unused
<1>3. ASSUME NEW p \in Processes PROVE (Where(p) /\ Fresh(p) /\ Known(p))'
  BY <1>2, SameCommand DEF Where, Fresh, Known
<1> QED  BY <1>1, <1>3

\* Every run, in every state, has decided what its place in main requires.
THEOREM DriverDecides == DriverSpec => []DriverBase
<1>1. DriverInit => DriverBase
  <2> SUFFICES ASSUME DriverInit PROVE DriverBase
    OBVIOUS
  <2>1. Base
    BY InitBase DEF DriverInit
  <2>2. DriverTypeOK /\ \A p \in Processes : request[p] \in Requests[p]
    <3>1. \A p \in Processes : request[p] \in Requests[p]
      BY RequestAssumption DEF DriverInit
    <3> QED  BY <3>1, ModelAssumption DEF DriverInit, DriverTypeOK, AllRequests
  <2>3. ASSUME NEW p \in Processes PROVE Decided(p)
    <3>1. pc[p] = "idle" /\ command[p] = EmitOptions(request[p])
      BY DEF DriverInit, Init
    <3> QED  BY <2>2, <3>1 DEF Decided, DriverTypeOK, Emitting
  <2> QED  BY <2>1, <2>2, <2>3 DEF DriverBase
<1>2. DriverBase /\ [DriverNext]_allvars => DriverBase'
  <2> SUFFICES ASSUME DriverBase, [DriverNext]_allvars PROVE DriverBase'
    OBVIOUS
  <2>1. CASE DriverNext
    BY <2>1, DriverStepBase DEF DriverNext
  <2>2. CASE UNCHANGED allvars
    <3>1. UNCHANGED vars /\ UNCHANGED <<request, model, codegen, command, pc, stream>>
      BY <2>2 DEF allvars, vars, dvars
    <3>2. \A p \in Processes : Decided(p)'
      BY <3>1, SameDecision DEF Decided, DriverBase
    <3> QED  BY <3>1, <3>2, StutterBase DEF DriverBase, DriverTypeOK
  <2> QED  BY <2>1, <2>2
<1> QED  BY <1>1, <1>2, PTL DEF DriverSpec

-----------------------------------------------------------------------------
(* Which steps touch files *)

LEMMA TouchingPlaces ==
    ASSUME DriverBase, NEW q \in Processes, DriverStep(q), NEW p \in Processes, TouchesFiles(p)
    PROVE  /\ pc[p] \in {"dot", "dot_write"} \cup Emitting /\ Decided(p)
           /\ pc[p] \in {"dot", "dot_write"} => DotOpen(p) \/ DotWrite(p)
<1> USE DEF DriverBase, TouchesFiles, Moves
<1>1. p = q
  BY OtherDecided
<1>2. ~Calmly(p) /\ ~Begin(p)
  <2>1. ~Calmly(p)
    BY CalmFacts
  <2>2. ~Begin(p)
    BY DEF Begin
  <2> QED  BY <2>1, <2>2
<1>3. ~TranslateModule(p)
  BY DEF TranslateModule, Translate
<1>4. CASE DotOpen(p) \/ DotWrite(p)
  BY <1>4 DEF DotOpen, DotWrite, At
<1>5. CASE EmitOutput(p)
  BY <1>5 DEF EmitOutput, Open, OpenFails, EmitText, AddPasses, Write, Rename, LinkRead, LinkFails,
     LinkWrite, Remove, Kill, At, Emitting
<1> QED  BY <1>1, <1>2, <1>3, <1>4, <1>5 DEF DriverStep, Calmly

\* A run changes no file before it knows that it has something to write: main translates
\* and lowers the model before it opens the output file, for any number of runs at once.
THEOREM BadModelNeverTouches == DriverSpec => BadModelTouchesNothing
<1> DEFINE Careful == \A p \in Processes : TouchesFiles(p) =>
          /\ model[p].importable
          /\ request[p].dot = NoPath =>
                /\ model[p].emittable /\ Left(p) = {"llvm"}
                /\ request[p].target \/ (command[p].kind = "LLVM_IR" /\ request[p].level = "0")
<1>1. DriverBase /\ [DriverNext]_allvars => [Careful]_allvars
  <2> SUFFICES ASSUME DriverBase, NEW q \in Processes, DriverStep(q),
                      NEW p \in Processes, TouchesFiles(p)
               PROVE  /\ model[p].importable
                      /\ request[p].dot = NoPath =>
                            /\ model[p].emittable /\ Left(p) = {"llvm"}
                            /\ request[p].target \/ (command[p].kind = "LLVM_IR" /\ request[p].level = "0")
    BY DEF DriverNext
  <2>1. pc[p] \in {"dot", "dot_write"} \cup Emitting /\ Decided(p)
    BY TouchingPlaces
  <2>2. CASE pc[p] \in {"dot", "dot_write"}
    BY <2>1, <2>2, ModeFacts DEF Decided
  <2>3. CASE pc[p] \in Emitting
    <3>1. /\ model[p].importable /\ model[p].emittable /\ model[p] \in Models
          /\ Left(p) \subseteq {"llvm"} /\ (NeedsTarget(p) => request[p].target)
      BY <2>1, <2>3 DEF Decided
    <3>2. "llvm" \in Left(p)
      BY <3>1, ModelAssumption, LoweredHasLLVM DEF Left
    <3> QED  BY <3>1, <3>2 DEF NeedsTarget
  <2> QED  BY <2>1, <2>2, <2>3
<1> QED  BY <1>1, DriverDecides, PTL DEF DriverSpec, BadModelTouchesNothing

\* Two kinds of output in one command line are never served, and a dot file that is asked
\* for with them is the only file that changes, for any number of runs at once.
THEOREM ConflictNeverTouches == DriverSpec => ConflictTouchesNothing
<1> DEFINE Refused == \A p \in Processes :
          TouchesFiles(p) /\ Cardinality(request[p].emit) > 1 =>
              /\ request[p].dot # NoPath
              /\ \A path \in Paths \ {request[p].dot} : dir'[path] = dir[path]
<1>1. DriverBase /\ [DriverNext]_allvars => [Refused]_allvars
  <2> SUFFICES ASSUME DriverBase, NEW q \in Processes, DriverStep(q),
                      NEW p \in Processes, TouchesFiles(p), Cardinality(request[p].emit) > 1
               PROVE  /\ request[p].dot # NoPath
                      /\ \A path \in Paths \ {request[p].dot} : dir'[path] = dir[path]
    BY DEF DriverNext
  <2>1. /\ pc[p] \in {"dot", "dot_write"} \cup Emitting /\ Decided(p)
        /\ pc[p] \in {"dot", "dot_write"} => DotOpen(p) \/ DotWrite(p)
    BY TouchingPlaces
  <2>2. pc[p] \notin Emitting
    BY <2>1, ModeFacts DEF Decided
  <2>3. request[p].dot # NoPath
    BY <2>1, <2>2, ModeFacts DEF Decided
  <2>4. \A path \in Paths \ {request[p].dot} : dir'[path] = dir[path]
    BY <2>1, <2>2 DEF DotOpen, DotWrite, OpenFile, DriverBase, Base, EmitterTypeOK
  <2> QED  BY <2>3, <2>4
<1> QED  BY <1>1, DriverDecides, PTL DEF DriverSpec, ConflictTouchesNothing

\* A model whose sizes are all known is lowered to LLVM and nothing else, with the wrapper
\* if and only if it is to be run (run_lowering_pipeline), whatever it is made of.
THEOREM StaticAlwaysLowered == DriverSpec => []StaticModelIsLowered
<1>1. DriverBase => StaticModelIsLowered
  <2> SUFFICES ASSUME DriverBase, NEW p \in Processes, model[p].static, pc[p] \in {"jit", "translate"}
               PROVE  Left(p) = {"llvm"} \cup (IF Served(p) = "run" THEN {"wrapper"} ELSE {})
    BY DEF StaticModelIsLowered
  <2>1. model[p] \in Models /\ model[p].emittable
    BY DEF DriverBase, Decided
  <2> DEFINE options == PipelineOptions(p)
  <2>2. options.emit_c_interface \in BOOLEAN /\ (options.emit_c_interface <=> Served(p) = "run")
    BY DEF PipelineOptions
  <2> HIDE DEF options
  <2>3. /\ options.emit_c_interface => Lowered(model[p].ops, TRUE, options) = {"llvm", "wrapper"}
        /\ ~options.emit_c_interface => Lowered(model[p].ops, TRUE, options) = {"llvm"}
    <3> DEFINE ops == model[p].ops
    <3>1. "func" \in ops /\ ops \subseteq {"func", "arith", "math", "linalg", "tensor"}
      BY <2>1, ModelAssumption
    <3> HIDE DEF ops
    <3>2. /\ options.emit_c_interface => Lowered(ops, TRUE, options) = {"llvm", "wrapper"}
          /\ ~options.emit_c_interface => Lowered(ops, TRUE, options) = {"llvm"}
      BY <2>2, <3>1, LoweredStatic
    <3> QED  BY <3>2 DEF ops
  <2>4. model[p].static = TRUE
    BY <2>1, ModelAssumption
  <2> QED  BY <2>2, <2>3, <2>4 DEF Left, options
<1> QED  BY <1>1, DriverDecides, PTL

-----------------------------------------------------------------------------
(* Paths *)

\* The paths that a run writes to are among those of the command lines of its process.
LEMMA PathsOfRequest ==
    ASSUME NEW p \in Processes, NEW asked \in Requests[p]
    PROVE  /\ asked.dot # NoPath => asked.dot \in PathsOf(p)
           /\ asked.dot = NoPath /\ Mode(asked) = "emit" => Uses(asked) \cap Paths \subseteq PathsOf(p)
<1>1. Uses(asked) \cap Paths \subseteq PathsOf(p)
  BY DEF PathsOf
<1>2. asked.dot # NoPath => asked.dot \in Uses(asked) \cap Paths
  BY RequestAssumption DEF Uses
<1> QED  BY <1>1, <1>2

LEMMA Territory ==
    ASSUME DriverBase, NEW p \in Processes
    PROVE  /\ Served(p) = "dot" => request[p].dot \in PathsOf(p)
           /\ Served(p) = "emit" => Footprint(p) \cap Paths \subseteq PathsOf(p)
<1> DEFINE asked == request[p]
<1>1. asked \in Requests[p] /\ command[p] = EmitOptions(asked)
  BY DEF DriverBase, Decided
<1>2. Served(p) = "dot" => asked.dot # NoPath
  BY ModeFacts
<1>3. Served(p) = "emit" => asked.dot = NoPath /\ Mode(asked) = "emit"
  BY ModeFacts DEF Served
<1>4. asked.dot = NoPath /\ Mode(asked) = "emit" => Footprint(p) = Uses(asked)
  <2>1. command[p].kind = OutputKind(asked.emit) /\ command[p].path = asked.o
    BY <1>1 DEF EmitOptions
  <2>2. OutputPath(p) = IF asked.o # NoPath THEN asked.o ELSE DefaultPath(OutputKind(asked.emit))
    BY <2>1 DEF OutputPath
  <2> HIDE DEF asked
  <2> QED  BY <2>1, <2>2 DEF Footprint, Tmp, Uses
<1> QED  BY <1>1, <1>2, <1>3, <1>4, PathsOfRequest

-----------------------------------------------------------------------------
(* What others do to a compiler on its own paths *)

\* A step that closes a stream, and does no more, keeps every file.
LEMMA QuietAway ==
    ASSUME NEW p \in Processes, NEW some, Away(p, some), UNCHANGED <<dir, content>>, Build(p)' = Build(p),
           \A r \in Processes \ {p} : stream'[r] \in {stream[r], Absent} /\ linked'[r] \in {linked[r], Empty}
    PROVE  Kept(some) /\ Away(p, some)'
BY EmptyIsBytes DEF Kept, Away, Mine

LEMMA OtherDotOpen ==
    ASSUME DriverBase, NEW p \in Processes, NEW some, Away(p, some), NEW q \in Processes \ {p},
           DotOpen(q), request[q].dot \notin some
    PROVE  Kept(some) /\ Away(p, some)'
<1> USE DEF DriverBase, Base, EmitterTypeOK
<1> DEFINE out == request[q].dot
           file == Opens(q, out)
<1>1. /\ out \in Paths \ some /\ file \in File /\ run' = run /\ linked' = linked
      /\ \A other \in Paths \ {out} : dir[other] # file
  BY DotOpenStep
<1>2. /\ dir' = [dir EXCEPT ![out] = file] /\ stream' = [stream EXCEPT ![q] = file]
      /\ content' = [content EXCEPT ![file] = Empty]
  BY DEF DotOpen, OpenFile, Opens
<1> HIDE DEF out, file
<1>3. \A path \in some \cap Paths : path # out /\ dir'[path] = dir[path] /\ dir[path] # file
  BY <1>1, <1>2
<1>4. Kept(some)
  BY <1>2, <1>3 DEF Kept
<1>5. Build(p)' = Build(p) /\ \A path \in Paths \ some : ~Mine(p, path)'
  <2>1. Build(p)' = Build(p)
    BY <1>1 DEF Build
  <2>2. \A path \in Paths \ some : dir[path] # Absent => Build(p) \notin content[dir[path]].of
    BY DEF Away, Mine
  <2> QED  BY <2>1, <2>2, <1>1, <1>2, EmptyIsBytes DEF Mine
<1>6. \A r \in Processes \ {p} : stream'[r] # Absent => \A path \in some \cap Paths : dir'[path] # stream'[r]
  BY <1>2, <1>3 DEF Away
<1> QED  BY <1>1, <1>4, <1>5, <1>6 DEF Away

LEMMA OtherDotWrite ==
    ASSUME DriverBase, NEW p \in Processes, NEW some, Away(p, some), NEW q \in Processes \ {p},
           DotWrite(q)
    PROVE  Kept(some) /\ Away(p, some)'
<1> USE DEF DriverBase, Base, EmitterTypeOK
<1>1. /\ stream[q] \in File /\ UNCHANGED <<dir, run>>
      /\ content' = [content EXCEPT ![stream[q]] = [type |-> "dot", of |-> @.of \cup {Build(q)}]]
      /\ stream' = [stream EXCEPT ![q] = Absent] /\ linked' = [linked EXCEPT ![q] = Empty]
  BY DEF DotWrite, At, End, Decided
<1>2. \A path \in some \cap Paths : dir[path] # stream[q]
  BY <1>1, FileNames DEF Away
<1>3. Kept(some)
  BY <1>1, <1>2 DEF Kept
<1>4. Build(p)' = Build(p) /\ Build(p) # Build(q)
  BY <1>1 DEF Build
<1>5. \A path \in Paths \ some : ~Mine(p, path)'
  BY <1>1, <1>4 DEF Away, Mine
<1> QED  BY <1>1, <1>3, <1>4, <1>5, EmptyIsBytes DEF Away

\* Whatever a compiler on other paths does, the files under those of p are kept.
LEMMA OthersLeave ==
    ASSUME DriverBase, NEW p \in Processes, NEW some, Away(p, some), some \subseteq PathsOf(p) \cup {NoPath},
           NEW q \in Processes \ {p}, DriverStep(q), PathsOf(p) \cap PathsOf(q) = {}
    PROVE  Kept(some) /\ Away(p, some)'
<1> USE DEF DriverBase, Base, EmitterTypeOK
<1>1. Build(p)' = Build(p)
  BY OtherDecided
<1>2. CASE Calmly(q)
  <2>1. /\ UNCHANGED <<dir, content>>
        /\ stream' = stream \/ stream' = [stream EXCEPT ![q] = Absent]
        /\ linked' = linked \/ linked' = [linked EXCEPT ![q] = Empty]
    BY <1>2, CalmFacts
  <2>2. \A r \in Processes \ {p} : stream'[r] \in {stream[r], Absent} /\ linked'[r] \in {linked[r], Empty}
    BY <2>1
  <2> QED  BY <2>1, <2>2, <1>1, QuietAway
<1>3. CASE Begin(q)
  BY <1>1, <1>3, QuietAway DEF Begin, Go
<1>4. CASE DotOpen(q)
  <2>1. Served(q) = "dot"
    BY <1>4 DEF DotOpen, At, Decided
  <2>2. request[q].dot \in PathsOf(q) /\ request[q].dot # NoPath
    BY <2>1, Territory, ModeFacts
  <2>3. request[q].dot \notin some
    BY <2>2
  <2> QED  BY <1>4, <2>3, OtherDotOpen
<1>5. CASE DotWrite(q)
  BY <1>5, OtherDotWrite
<1>6. CASE TranslateModule(q) \/ EmitOutput(q)
  <2>1. CASE Kill(q)
    <3>1. /\ UNCHANGED <<dir, content>>
          /\ \A r \in Processes : stream'[r] \in {stream[r], Absent} /\ linked'[r] \in {linked[r], Empty}
      BY <2>1 DEF Kill, End
    <3> QED  BY <1>1, <3>1, QuietAway
  <2>2. CASE ~Kill(q)
    <3>1. pc[q] = "translate" \/ pc[q] \in Emitting
      BY <1>6, <2>2 DEF TranslateModule, Translate, EmitOutput, Open, OpenFails, EmitText, AddPasses, Write,
         Rename, LinkRead, LinkFails, LinkWrite, Remove, At, Emitting
    <3>2. Footprint(q) \cap Paths \subseteq PathsOf(q)
      BY <3>1, Territory DEF Decided
    <3>3. Footprint(q) \subseteq Paths \cup {NoPath}
      BY PathNames DEF Footprint
    <3>4. some \cap Footprint(q) \subseteq {NoPath}
      BY <3>2, <3>3
    <3>5. Step(q)
      BY <1>6, EmitStep
    <3> QED  BY <3>4, <3>5, OthersKeep
  <2> QED  BY <2>1, <2>2
<1> QED  BY <1>2, <1>3, <1>4, <1>5, <1>6 DEF DriverStep, Calmly

-----------------------------------------------------------------------------
(* Exit code 0 *)

Nothing(p) == \A path \in Paths : ~Mine(p, path)

\* Others have no file of p's paths open, and what p's run has written is under its paths;
\* the rest is what its mode requires.
Serving(p) ==
    /\ Away(p, PathsOf(p))
    /\ Served(p) = "emit" => Apart(p) /\ Phase(p)
    /\ Served(p) # "emit" =>
          /\ pc[p] \notin Opened => Nothing(p)
          /\ pc[p] = "dot_write" =>
                Nothing(p) /\ dir[request[p].dot] = stream[p] /\ content[stream[p]] = Empty
          /\ pc[p] = "ok" =>
                IF Served(p) = "dot"
                THEN Written(p) = {request[p].dot} /\ Holds(request[p].dot, "dot", p)
                ELSE Nothing(p) /\ Served(p) # "conflict"

LEMMA BeginServing ==
    ASSUME DriverBase, NEW p \in Processes, Begin(p), Serving(p)
    PROVE  Serving(p)'
<1>1. /\ run[p] < MaxRuns /\ run' = [run EXCEPT ![p] = @ + 1]
      /\ UNCHANGED <<dir, stream, linked, content, codegen>>
  BY DEF Begin, Go
<1>2. /\ Nothing(p)' /\ pc'[p] \in {"import", "usage"}
      /\ \A q \in Processes : Build(p)' \notin linked'[q].of
  BY <1>1, NothingOfNew, BeginStep DEF DriverBase, Nothing
<1>3. Away(p, PathsOf(p))'
  BY <1>1, <1>2 DEF Serving, Away, Nothing
<1>4. ASSUME Served(p)' = "emit" PROVE Apart(p)'
  <2>1. PICK asked \in Requests[p] : request'[p] = asked /\ command'[p] = EmitOptions(asked)
    <3>1. PICK asked \in Requests[p], file \in Models :
             /\ request' = [request EXCEPT ![p] = asked]
             /\ command' = [command EXCEPT ![p] = EmitOptions(asked)]
      BY Zenon DEF Begin
    <3> QED  BY <3>1 DEF DriverBase, DriverTypeOK, Base, EmitterTypeOK
  <2>2. asked.dot = NoPath /\ Mode(asked) = "emit"
    BY <1>4, <2>1 DEF Served, Mode, PlainMode
  <2>3. Footprint(p)' \cap Paths \subseteq PathsOf(p)
    <3>1. command'[p].kind = OutputKind(asked.emit) /\ command'[p].path = asked.o
      BY <2>1 DEF EmitOptions
    <3>2. OutputPath(p)' = IF asked.o # NoPath THEN asked.o ELSE DefaultPath(OutputKind(asked.emit))
      BY <3>1 DEF OutputPath
    <3>3. Footprint(p)' = Uses(asked)
      BY <2>2, <3>1, <3>2 DEF Footprint, Tmp, Uses
    <3> QED  BY <2>2, <3>3, PathsOfRequest
  <2> QED  BY <1>2, <1>3, <2>3 DEF Apart, Away, Nothing
<1>5. Phase(p)'
  BY <1>2 DEF Phase, Nothing, Opened
<1> QED  BY <1>2, <1>3, <1>4, <1>5 DEF Serving

LEMMA CalmServing ==
    ASSUME DriverBase, NEW p \in Processes, Calmly(p), Serving(p)
    PROVE  Serving(p)'
<1>1. /\ UNCHANGED <<command, run, dir, content, request, model, codegen>>
      /\ pc[p] \in Calm /\ pc'[p] \in CalmNext
  BY CalmFacts
<1>2. Served(p)' = Served(p) /\ (Nothing(p)' <=> Nothing(p))
  BY <1>1, SameDecision DEF Nothing, Mine, Build
<1>3. Nothing(p)
  <2>1. pc[p] \notin Opened
    BY <1>1 DEF Calm, Opened
  <2> QED  BY <2>1 DEF Serving, Phase, Nothing
<1>4. pc'[p] = "ok" => Served(p) \notin {"emit", "dot", "conflict"}
  <2>1. /\ pc[p] \in {"mlir", "run", "emit", "stats"} => Served(p) = pc[p]
        /\ pc[p] = "jit" => Served(p) = "run"
    BY DEF DriverBase, Decided
  <2>2. pc'[p] = "ok" => pc[p] \in {"mlir", "stats", "jit"}
    <3> USE DEF Goto, Exit, Go, End, At, DriverBase, Base, EmitterTypeOK
    <3>1. CASE Generate(p)
      BY <3>1 DEF Generate
    <3>2. CASE Lower(p)
      BY <3>2 DEF Lower
    <3>3. CASE Import(p)
      BY <3>3, ModeFacts DEF Import
    <3> QED  BY <3>1, <3>2, <3>3 DEF Calmly, Usage, DotOpenFails, Run, Conflict, Stats
  <2> QED  BY <2>1, <2>2
<1>5. /\ Away(p, PathsOf(p))'
      /\ Served(p) = "emit" => Apart(p)'
  <2>1. /\ \A q \in Processes \ {p} : stream'[q] = stream[q] /\ linked'[q] = linked[q]
        /\ Build(p)' = Build(p)
    BY <1>1, CalmFacts DEF Build, DriverBase, Base, EmitterTypeOK
  <2>2. Away(p, PathsOf(p))'
    BY <1>1, <2>1, <1>2, <1>3 DEF Serving, Away, Nothing
  <2>3. Served(p) = "emit" => Footprint(p)' \cap Paths \subseteq PathsOf(p)
    BY <1>1, SameCommand, Territory
  <2> QED  BY <1>2, <1>3, <2>2, <2>3 DEF Apart, Away, Nothing
<1>6. ASSUME Served(p) = "emit" PROVE Phase(p)'
  <2>1. pc'[p] \notin Opened \/ pc'[p] = "error"
    BY <1>1, <1>4, <1>6 DEF CalmNext, Calm, Opened
  <2> QED  BY <1>2, <1>3, <2>1 DEF Phase, Nothing, Opened
<1>7. pc'[p] # "dot_write"
  BY <1>1 DEF CalmNext, Calm
<1> QED  BY <1>2, <1>3, <1>4, <1>5, <1>6, <1>7 DEF Serving

LEMMA DotOpenServing ==
    ASSUME DriverBase, NEW p \in Processes, DotOpen(p), Serving(p)
    PROVE  Serving(p)'
<1> USE DEF DriverBase, Base, EmitterTypeOK
<1> DEFINE path == request[p].dot
           file == Opens(p, path)
<1>1. /\ path \in Paths /\ file \in File /\ \A other \in Paths \ {path} : dir[other] # file
      /\ UNCHANGED <<command, run, linked, request, model, codegen>> /\ pc'[p] = "dot_write"
  BY DotOpenStep
<1>2. /\ dir' = [dir EXCEPT ![path] = file] /\ stream' = [stream EXCEPT ![p] = file]
      /\ content' = [content EXCEPT ![file] = Empty]
  BY DEF DotOpen, OpenFile, Opens
<1>3. Served(p) = "dot" /\ Nothing(p)
  BY DEF DotOpen, At, Decided, Serving, Opened
<1>4. Served(p)' = "dot" /\ Build(p)' = Build(p) /\ request'[p].dot = path
  BY <1>1, <1>3, SameDecision DEF Build
<1> HIDE DEF path, file
<1>5. Nothing(p)'
  BY <1>1, <1>2, <1>3, <1>4, EmptyIsBytes DEF Nothing, Mine
<1>6. dir'[path] = stream'[p] /\ content'[stream'[p]] = Empty
  BY <1>1, <1>2
<1>7. Away(p, PathsOf(p))'
  <2>1. path \in PathsOf(p)
    BY <1>3, Territory DEF path
  <2>2. \A q \in Processes \ {p} : stream[q] # Absent => stream[q] # file
    <3>1. dir[path] # Absent => file = dir[path]
      BY DEF path, file, Opens
    <3>2. dir[path] = Absent => Unused(file)
      BY <1>3 DEF DotOpen, At, path, file, Opens, Fresh, Opened
    <3> QED  BY <1>1, <2>1, <3>1, <3>2 DEF Serving, Away, Unused
  <2>3. \A q \in Processes \ {p} : stream'[q] # Absent =>
           \A other \in PathsOf(p) \cap Paths : dir'[other] # stream'[q]
    BY <1>1, <1>2, <2>2 DEF Serving, Away
  <2> QED  BY <1>1, <1>4, <1>5, <2>3 DEF Serving, Away, Nothing
<1> QED  BY <1>1, <1>4, <1>5, <1>6, <1>7 DEF Serving, Opened

LEMMA DotWriteServing ==
    ASSUME DriverBase, NEW p \in Processes, DotWrite(p), Serving(p)
    PROVE  Serving(p)'
<1> USE DEF DriverBase, Base, EmitterTypeOK
<1> DEFINE path == request[p].dot
           file == stream[p]
           bytes == [type |-> "dot", of |-> {Build(p)}]
<1>1. UNCHANGED <<command, run, dir, request, model, codegen>> /\ pc'[p] = "ok"
  BY DotWriteStep
<1>2. Served(p) = "dot" /\ file \in File /\ Nothing(p) /\ dir[path] = file /\ content[file] = Empty
  BY DEF DotWrite, At, Decided, Serving
<1>3. path \in Paths
  BY <1>2, ModeFacts, RequestAssumption DEF Decided
<1>4. content' = [content EXCEPT ![file] = bytes]
  BY <1>2, EmptyIsBytes DEF DotWrite
<1>5. Served(p)' = "dot" /\ Build(p)' = Build(p) /\ request'[p].dot = path
  BY <1>1, <1>2, SameDecision DEF Build
<1>6. content'[dir'[path]] = bytes /\ dir'[path] # Absent
  <2> HIDE DEF path, file, bytes
  <2> QED  BY <1>1, <1>2, <1>3, <1>4, FileNames
<1>7. \A other \in Paths \ {path} : ~(dir'[other] # Absent /\ Build(p) \in content'[dir'[other]].of)
  <2>1. \A other \in Paths \ {path} : dir[other] # file
    BY <1>2, <1>3, FileNames DEF OnePath
  <2> HIDE DEF path, file, bytes
  <2> QED  BY <1>1, <1>2, <1>4, <2>1 DEF Nothing, Mine
<1>8. Written(p)' = {path}
  <2> HIDE DEF path
  <2>1. Build(p) \in content'[dir'[path]].of
    BY <1>6
  <2> QED  BY <1>3, <1>5, <1>6, <1>7, <2>1 DEF Written
<1>9. Holds(path, "dot", p)'
  BY <1>5, <1>6 DEF Holds
<1>10. Away(p, PathsOf(p))'
  <2>1. path \in PathsOf(p)
    BY <1>2, Territory
  <2>2. \A q \in Processes \ {p} : stream'[q] = stream[q] /\ linked'[q] = linked[q]
    BY DEF DotWrite, End
  <2>3. \A other \in Paths \ PathsOf(p) : ~Mine(p, other)'
    BY <2>1, <1>5, <1>7 DEF Mine
  <2> QED  BY <1>1, <1>5, <2>2, <2>3 DEF Serving, Away
<1> QED  BY <1>1, <1>5, <1>8, <1>9, <1>10 DEF Serving, Opened

LEMMA EmitServing ==
    ASSUME DriverBase, NEW p \in Processes, TranslateModule(p) \/ EmitOutput(p), Serving(p)
    PROVE  Serving(p)'
<1>1. UNCHANGED <<command, run, request, model, codegen>> /\ Step(p)
  BY EmitStep
<1>2. Served(p)' = Served(p) /\ Build(p)' = Build(p)
  BY <1>1, SameDecision DEF Build
<1>3. CASE Served(p) = "emit"
  <2>1. Apart(p)' /\ Phase(p)'
    BY <1>1, <1>3, OwnStep DEF DriverBase, Serving
  <2>2. Footprint(p) \cap Paths \subseteq PathsOf(p) /\ Footprint(p)' = Footprint(p)
    BY <1>1, <1>3, Territory, SameCommand
  <2>3. \A q \in Processes \ {p} : stream'[q] # Absent =>
           \A path \in PathsOf(p) \cap Paths : dir'[path] # stream'[q]
    <3> DEFINE some == PathsOf(p)
    <3>1. /\ Footprint(p) \cap Paths \subseteq some
          /\ \A q \in Processes \ {p} : stream[q] # Absent => \A path \in some \cap Paths : dir[path] # stream[q]
      BY <2>2 DEF Serving, Away
    <3> HIDE DEF some
    <3>2. \A q \in Processes \ {p} : stream'[q] # Absent => \A path \in some \cap Paths : dir'[path] # stream'[q]
      BY <1>1, <3>1, OwnClear DEF DriverBase
    <3> QED  BY <3>2 DEF some
  <2>4. Away(p, PathsOf(p))'
    BY <2>1, <2>2, <2>3 DEF Apart, Away
  <2> QED  BY <1>2, <1>3, <2>1, <2>4 DEF Serving
<1>4. CASE Served(p) # "emit"
  <2>1. ~TranslateModule(p) /\ pc[p] \notin Emitting
    BY <1>4 DEF DriverBase, Decided, TranslateModule, Translate, At
  <2>2. Kill(p)
    BY <2>1 DEF EmitOutput, Open, OpenFails, EmitText, AddPasses, Write, Rename, LinkRead, LinkFails,
       LinkWrite, Remove, At, Emitting
  <2>3. pc'[p] = "killed"
    BY <2>2 DEF Kill, End, DriverBase, Base, EmitterTypeOK
  <2>4. Away(p, PathsOf(p))'
    <3>1. /\ UNCHANGED <<dir, content>>
          /\ \A q \in Processes \ {p} : stream'[q] = stream[q] /\ linked'[q] = linked[q]
      BY <2>2 DEF Kill, End, DriverBase, Base, EmitterTypeOK
    <3> QED  BY <1>2, <3>1 DEF Serving, Away, Mine
  <2> QED  BY <1>2, <1>4, <2>3, <2>4 DEF Serving, Opened
<1> QED  BY <1>3, <1>4

\* A step of a compiler on other paths.
LEMMA OtherServing ==
    ASSUME DriverBase, NEW p \in Processes, OnItsOwn(p), Serving(p), NEW q \in Processes \ {p}, DriverStep(q)
    PROVE  Serving(p)'
<1>1. PathsOf(p) \cap PathsOf(q) = {}
  BY DEF OnItsOwn
<1>2. /\ pc'[p] = pc[p] /\ stream'[p] = stream[p] /\ linked'[p] = linked[p]
      /\ command'[p] = command[p] /\ request'[p] = request[p]
      /\ Served(p)' = Served(p) /\ Build(p)' = Build(p)
  BY OtherFrame, OtherDecided
<1>3. ASSUME NEW some, Away(p, some), some \subseteq PathsOf(p) \cup {NoPath}
      PROVE  Kept(some) /\ Away(p, some)'
  BY <1>1, <1>3, OthersLeave
<1>4. Kept(PathsOf(p)) /\ Away(p, PathsOf(p))'
  <2> DEFINE some == PathsOf(p)
  <2>1. Away(p, some) /\ some \subseteq PathsOf(p) \cup {NoPath}
    BY DEF Serving
  <2> HIDE DEF some
  <2>2. Kept(some) /\ Away(p, some)'
    BY <1>3, <2>1
  <2> QED  BY <2>2 DEF some, Kept, Away
<1>5. ASSUME Served(p) = "emit" PROVE Apart(p)' /\ Phase(p)'
  <2>1. ASSUME NEW some, some = Footprint(p) PROVE Kept(Footprint(p)) /\ Apart(p)'
    <3>1. Footprint(p)' = Footprint(p)
      BY <1>2 DEF Footprint, OutputPath, Tmp
    <3>2. some \subseteq PathsOf(p) \cup {NoPath}
      <4>1. Footprint(p) \subseteq Paths \cup {NoPath}
        BY PathNames DEF Footprint, DriverBase, Base, EmitterTypeOK
      <4> QED  BY <1>5, <2>1, <4>1, Territory
    <3>3. Away(p, some)
      BY <1>5, <2>1 DEF Serving, Apart, Away
    <3>4. Kept(some) /\ Away(p, some)'
      BY <1>3, <3>2, <3>3
    <3> QED  BY <2>1, <3>1, <3>4 DEF Kept, Apart, Away
  <2>2. Kept(Footprint(p)) /\ Apart(p)'
    BY <2>1
  <2> QED  BY <1>2, <1>5, <2>2, KeptPhase DEF DriverBase, Serving
<1>6. /\ \A path \in Paths : Mine(p, path)' <=> Mine(p, path)
      /\ Written(p)' = Written(p)
  <2>1. \A path \in Paths : Mine(p, path)' <=> Mine(p, path)
    <3>1. ASSUME NEW path \in Paths, path \in PathsOf(p) PROVE Mine(p, path)' <=> Mine(p, path)
      BY <1>2, <1>4, <3>1 DEF Kept, Mine
    <3>2. ASSUME NEW path \in Paths, path \notin PathsOf(p) PROVE ~Mine(p, path)' /\ ~Mine(p, path)
      BY <1>4, <3>2 DEF Serving, Away
    <3> QED  BY <3>1, <3>2
  <2> QED  BY <2>1 DEF Written, Mine
<1>7. ASSUME Served(p) = "dot"
      PROVE  /\ dir'[request[p].dot] = dir[request[p].dot]
             /\ dir[request[p].dot] # Absent =>
                   content'[dir[request[p].dot]] = content[dir[request[p].dot]]
  <2>1. request[p].dot \in PathsOf(p) \cap Paths
    BY <1>7, Territory DEF PathsOf
  <2> QED  BY <1>4, <2>1 DEF Kept
<1>8. ASSUME Served(p) # "emit"
      PROVE  /\ pc'[p] \notin Opened => Nothing(p)'
             /\ pc'[p] = "dot_write" =>
                   Nothing(p)' /\ dir'[request[p].dot] = stream'[p] /\ content'[stream'[p]] = Empty
             /\ pc'[p] = "ok" =>
                   IF Served(p) = "dot"
                   THEN Written(p)' = {request[p].dot} /\ Holds(request[p].dot, "dot", p)'
                   ELSE Nothing(p)' /\ Served(p) # "conflict"
  <2>1. Nothing(p)' <=> Nothing(p)
    BY <1>6 DEF Nothing
  <2>2. ASSUME pc[p] = "dot_write"
        PROVE  dir'[request[p].dot] = stream'[p] /\ content'[stream'[p]] = Empty
    <3>1. Served(p) = "dot" /\ stream[p] \in File
      BY <2>2 DEF DriverBase, Decided
    <3> QED  BY <1>2, <1>7, <1>8, <2>2, <3>1, FileNames DEF Serving
  <2>3. ASSUME pc[p] = "ok", Served(p) = "dot" PROVE Holds(request[p].dot, "dot", p)'
    <3>1. Written(p) = {request[p].dot} /\ Holds(request[p].dot, "dot", p)
      BY <1>8, <2>3 DEF Serving
    <3>2. dir[request[p].dot] # Absent
      BY <3>1 DEF Written
    <3> QED  BY <1>2, <1>7, <2>3, <3>1, <3>2 DEF Holds
  <2> QED  BY <1>2, <1>6, <1>8, <2>1, <2>2, <2>3 DEF Serving
<1> QED  BY <1>2, <1>4, <1>5, <1>8 DEF Serving

\* Every step, of the compiler or of others on other paths, from every state keeps what the
\* mode of a compiler requires.
LEMMA ServingInvariant ==
    DriverSpec => [](DriverBase /\ \A p \in Processes : OnItsOwn(p) => Serving(p))
<1> DEFINE Inv == \A p \in Processes : OnItsOwn(p) => Serving(p)
<1>1. DriverInit => Inv
  <2> SUFFICES ASSUME DriverInit, NEW p \in Processes PROVE Serving(p)
    OBVIOUS
  <2>1. /\ Apart(p) /\ Nothing(p) /\ pc[p] = "idle"
        /\ \A q \in Processes : stream[q] = Absent
    BY InitBase DEF DriverInit, Init, Nothing
  <2>2. Away(p, PathsOf(p))
    BY <2>1 DEF Apart, Away, Nothing
  <2> QED  BY <2>1, <2>2 DEF Serving, Phase, Nothing, Opened
<1>2. DriverBase /\ Inv /\ [DriverNext]_allvars => Inv'
  <2> SUFFICES ASSUME DriverBase, [DriverNext]_allvars, NEW p \in Processes, OnItsOwn(p), Serving(p)
               PROVE  Serving(p)'
    BY DEF OnItsOwn
  <2>1. CASE DriverStep(p)
    BY <2>1, BeginServing, CalmServing, DotOpenServing, DotWriteServing, EmitServing
       DEF DriverStep, Calmly
  <2>2. ASSUME NEW q \in Processes \ {p}, DriverStep(q) PROVE Serving(p)'
    BY <2>2, OtherServing
  <2>3. CASE UNCHANGED allvars
    <3>1. UNCHANGED <<command, run, pc, stream, linked, dir, content, request, model, codegen>>
      BY <2>3 DEF allvars, vars, dvars
    <3>2. /\ Served(p)' = Served(p) /\ Build(p)' = Build(p)
          /\ \A path : Mine(p, path)' <=> Mine(p, path)
          /\ \A path, type : Whole(p, path, type)' <=> Whole(p, path, type)
          /\ Written(p)' = Written(p)
          /\ \A path, type : Holds(path, type, p)' <=> Holds(path, type, p)
      BY <3>1, SameDecision DEF Build, Mine, Whole, Written, Holds
    <3>3. Apart(p) => Apart(p)'
      BY <3>1, <3>2, SameCommand DEF Apart, Away
    <3>4. Phase(p) => Phase(p)'
      BY <3>1, <3>2, SameCommand DEF Phase
    <3>5. Away(p, PathsOf(p))'
      BY <3>1, <3>2 DEF Serving, Away
    <3> QED  BY <3>1, <3>2, <3>3, <3>4, <3>5 DEF Serving, Nothing
  <2> QED  BY <2>1, <2>2, <2>3 DEF DriverNext
<1> QED  BY <1>1, <1>2, DriverDecides, PTL DEF DriverSpec

LEMMA OkIsServed ==
    ASSUME DriverBase, NEW p \in Processes, Serving(p), pc[p] = "ok", codegen
    PROVE  ServedAs(request[p], p)
<1> DEFINE asked == request[p]
           out == OutputPath(p)
<1> SUFFICES ServedAs(asked, p)
  OBVIOUS
<1>1. asked \in Requests[p] /\ asked.emit \subseteq OutputKinds /\ command[p] = EmitOptions(asked)
  BY RequestAssumption DEF DriverBase, Decided
<1>2. CASE Served(p) = "dot"
  BY <1>2, ModeFacts DEF Serving, ServedAs
<1>3. CASE Served(p) \notin {"dot", "emit"}
  <2>1. Written(p) = {}
    BY <1>3 DEF Serving, Nothing, Mine, Written
  <2>2. Served(p) = "stats" => asked.emit = {}
    BY <1>1, ModeFacts, OneKind
  <2>3. Served(p) \in {"mlir", "run", "stats"}
    BY <1>3, ModeFacts DEF Serving
  <2>4. asked.dot = NoPath /\ (asked.mlir \/ asked.jit \/ asked.emit = {})
    BY <2>2, <2>3, ModeFacts
  <2> HIDE DEF asked
  <2> QED  BY <2>1, <2>4, Zenon DEF ServedAs
<1>4. CASE Served(p) = "emit"
  <2>1. PICK kind \in OutputKinds : asked.emit = {kind} /\ OutputKind(asked.emit) = kind
    BY <1>1, <1>4, ModeFacts, OneKind
  <2>2. asked.dot = NoPath /\ ~asked.mlir /\ ~asked.jit /\ asked.emit # {}
    BY <1>4, <2>1, ModeFacts
  <2>3. command[p].kind = kind /\ command[p].path = asked.o
    BY <1>1, <2>1 DEF EmitOptions
  <2>4. out = IF asked.o # NoPath THEN asked.o ELSE DefaultPath(kind)
    BY <2>3 DEF OutputPath
  <2>5. ArtifactType(p) = TypeOf(kind)
    BY <2>1, <2>3 DEF ArtifactType, EmittedType, TypeOf, OutputKinds
  <2>6. Apart(p) /\ Phase(p)
    BY <1>4 DEF Serving
  <2>7. /\ out \in Paths \cup {NoPath}
        /\ kind = "SO" => out \in Paths /\ Footprint(p) = {out, Tmp(p)}
        /\ kind # "SO" => Footprint(p) = {out}
    BY <2>3, PathNames DEF DriverBase, Base, EmitterTypeOK, Footprint
  <2>8. out # NoPath => /\ Whole(p, out, TypeOf(kind))
                        /\ kind = "SO" => dir[Tmp(p)] = Absent
    BY <2>3, <2>5, <2>6 DEF Phase
  <2>9. \A path \in Paths : Mine(p, path) <=> path = out
    BY <2>6, <2>7, <2>8, PathAssumption DEF Apart, Away, Mine, Whole
  <2>10. Written(p) = {out} \ {NoPath}
    BY <2>7, <2>9, PathAssumption DEF Written, Mine
  <2>11. out # NoPath => Holds(out, TypeOf(kind), p)
    BY <2>8 DEF Whole, Holds
  <2>12. \E k \in asked.emit :
            LET path == IF asked.o # NoPath THEN asked.o
                        ELSE CASE k = "OBJ" -> DefaultObj [] k = "SO" -> DefaultSo
                               [] OTHER -> NoPath
            IN  /\ asked.emit = {k}
                /\ Written(p) = {path} \ {NoPath}
                /\ path # NoPath => Holds(path, TypeOf(k), p)
    <3>1. kind \in asked.emit
      BY <2>1
    <3>2. out = IF asked.o # NoPath THEN asked.o
                ELSE CASE kind = "OBJ" -> DefaultObj [] kind = "SO" -> DefaultSo
                       [] OTHER -> NoPath
      BY <2>4, Zenon DEF DefaultPath
    <3> HIDE DEF out, asked
    <3> WITNESS kind \in asked.emit
    <3> QED  BY <2>1, <2>10, <2>11, <3>2, Zenon
  <2> HIDE DEF asked
  <2> QED  BY <2>2, <2>12, Zenon DEF ServedAs
<1> QED  BY <1>2, <1>3, <1>4

\* Exit code 0 of the full build, for any number of compilers in a directory, each that
\* shares no path with another: the mode asked for has been served, with one whole file of
\* the right type at the path that was named and nothing else of this run, whatever earlier
\* runs and kills have left and whatever the others do.
THEOREM ExitZeroAlwaysServes == DriverSpec => []ExitZeroServes
<1>1. DriverBase /\ (\A p \in Processes : OnItsOwn(p) => Serving(p)) => ExitZeroServes
  BY OkIsServed DEF ExitZeroServes
<1> QED  BY <1>1, ServingInvariant, PTL
=============================================================================
