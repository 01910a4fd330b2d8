-------------------------- MODULE LoweringPipeline --------------------------
(***************************************************************************)
(* run_lowering_pipeline (src/codegen/lowering_pipeline.cpp): the order of *)
(* the passes.  A module is the set of kinds of operations it holds.  What *)
(* a pass makes of them is MLIR's (external), as far as the order of the   *)
(* passes depends on it: it is stated as the most that may be left.        *)
(*                                                                         *)
(* "view" is the memref operations that finalize-memref does not know:     *)
(* subviews and collapsed shapes.  "request" is the mark that asks for     *)
(* _mlir_ciface_main, "wrapper" that function, "cast" the casts between    *)
(* converted and unconverted types.  static says that the affine           *)
(* operations made for the views fold away, as they do if no dimension is  *)
(* unknown, and may if some are; otherwise one stays, and no later pass    *)
(* converts it.  Of the options only emit_c_interface is ever set;         *)
(* function boundaries are always bufferized.                              *)
(*                                                                         *)
(* A definition called ..._bug is a slip one could make in the definition  *)
(* it precedes; it is used nowhere and serves to see a property fail.      *)
(***************************************************************************)

\* A conversion: it has something to add only where it has found something.
Replaced(ops, gone, new) == IF ops \cap gone = {} THEN ops ELSE (ops \ gone) \cup new

(***************************************************************************)
(* The canonicalizer and CSE between the stages, the passes about          *)
(* deallocation and index-to-llvm concern no kind of ours.                 *)
(***************************************************************************)

\* empty-tensor-to-alloc-tensor, one-shot-bufferize; bufferization-to-memref has nothing
\* left to convert.
Bufferized(ops) ==
    LET allocated == ops \cup (IF "tensor" \in ops THEN {"bufferization"} ELSE {})
    IN  Replaced(allocated, {"tensor", "bufferization"},
                 {"memref", "view", "linalg", "arith", "affine"})

LinalgToLoops(ops) == Replaced(ops, {"linalg"}, {"scf", "memref", "affine", "arith"})
LowerAffine(ops)   == Replaced(ops, {"affine"}, {"arith", "scf"})

Looped_bug(ops) == LinalgToLoops(LowerAffine(ops))      \* affine lowered before the loops are there
Looped(ops) == LowerAffine(LinalgToLoops(ops))

\* scf-to-cf, expand-strided-metadata
Flattened(ops, static) ==
    LET branches == Replaced(ops, {"scf"}, {"cf", "arith"})
    IN  Replaced(branches, {"view"}, {"memref", "arith"} \cup (IF static THEN {} ELSE {"affine"}))

\* request-c-wrappers, func-to-llvm
FuncToLLVM(ops, options) ==
    LET request == IF options.emit_c_interface /\ "func" \in ops THEN {"request"} ELSE {}
        wrapper == IF request = {} THEN {} ELSE {"wrapper"}
    IN  Replaced(ops \cup request, {"func", "request"}, {"llvm", "cast"} \cup wrapper)

ToLLVM(ops, kind) == Replaced(ops, {kind}, {"llvm", "cast"})

\* Casts go when both sides are converted.
Reconciled(ops) == IF ops \subseteq {"llvm", "cast", "wrapper"} THEN ops \ {"cast"} ELSE ops

\* The most that is left of a module.
Lowered(ops, static, options) ==
    LET flat   == Flattened(Looped(Bufferized(ops)), static)
        memref == ToLLVM(FuncToLLVM(flat, options), "memref")
        arith  == ToLLVM(ToLLVM(ToLLVM(memref, "cf"), "math"), "arith")
    IN  Reconciled(arith)

=============================================================================
